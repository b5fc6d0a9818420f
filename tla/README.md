# Agent Link firmware: specification and proofs

This directory specifies the core of the Agent Link device firmware
(`src/firmware/components/agent_link`): the library that connects a board (microphone, speaker, screen, camera) to
an App over BLE, or to a cloud platform over WiFi. TLC checks the modules on small instances, TLAPS proves the
theorems for every value of the constants. "The App" is the phone's program; it is not part of the repository and
every module models it from what the firmware does with it.

    tlc -workers 2 -config OtaSafety.cfg MCOtaUpgrade      # a run: one per .cfg
    tlapm OtaUpgradeProofs.tla                             # the proofs of a module

Paths below are relative to `src/firmware/components/agent_link/src/` unless they start with `include/`.

## 1. Inventory

| Part | State it keeps | Operations | Hard about it | Status |
|---|---|---|---|---|
| OTA engine, `ota/ota_service.cpp` | session state, error, byte counts, abort flag, ring buffer, flash handle and digest | Start, FeedData, WantsMore, Abort, worker task, OnLinkState, mark_valid | three threads over atomics; power loss; back-pressure through L2CAP credit; session overlap | `OtaUpgrade` |
| BLE data channel, `transports/ble/transport_ble.cpp` | channel, rearm flag, stall flags | L2CAP events, ResumeL2capRx | host task and workers share flags without a lock | `OtaUpgrade` (receive), `BulkUplink` (send) |
| Audio downlink, `audio/audio_downlink.cpp` | codec, partial ADPCM block, delivered time, pause state, ticker | SetCodec, Arm, Disarm, Feed, Deliver, Tick, OnLinkState | level estimated from time; frames decided under a mutex and sent outside it; frames lost | `AudioDownlink` |
| Bulk uplink, AUDIO and IMAGE of `transport_ble.cpp`, stream API of `core/agent_link.cpp` | flags, queue, transfer id, bytes sent | stream open / write / close, worker | board task, worker and host task; two channels (GATT, L2CAP) without an order; truncation | `BulkUplink` |
| BLE link, `transport_ble.cpp` GapEvent and GattAccess, and the link state of `core/agent_link.cpp` | connection, authorization, subscription, bonds; generation, manifest flag, phase, deferred replies | connect, pair, subscribe, MTU, disconnect, forget, stop, SendManifest, command_reply | events in any order; board calls in the middle of an event; stale replies | `BleLink` |
| Voice uplink, VOICE of `transport_ble.cpp` | flags, queue, session, sequence | VoiceStart / Enqueue / End, worker in two variants | reopening while the worker drains; a host that is busy; a queue at its cap | `VoiceUplink` |
| WiFi station and portal, `transports/wifi/transport_wifi.cpp`, `wifi_join.h`, `wifi_provision.cpp` | phase, join window, credentials, portal | WiFi and IP events, tick, portal request, local radio | queued events that belong to the previous attempt; 20 s window against retries | `WifiStation` (partly) |
| Cloud session and MQTT, `transports/wifi/cloud/cloud_session.cc`, `cloud_credential.cc`, `cloud_mqtt.cc` | key, token and its deadlines, published state, pause lease | claim, authenticate, heartbeat, token, refusal, pause | refusals from the MQTT task; key revoked at any request; pause handshake | `CloudSession` (partly) |
| Realtime calls, `cloud_realtime.cc`, `realtime_recovery.h`, calls of `transport_wifi.cpp` | epoch, grant queue, worker, retry budget, send queue, link state | offer, request, cancel, stop, stream start / write / end | cancel against a worker in the middle of a blocking call; bounded recovery; five threads write the flags | `RealtimeCall` (partly) |
| Friends, `friend_protocol.h`, `wifi_friends.cc` | peer, handshake phase, nonces, greetings | begin, select, accept, reject, disconnect, greet, frames, timers | two devices, lost and repeated ESP-NOW frames, restarts | `FriendPairing` (protocol engine) |
| Muse transport, `transports/muse/transport_muse.cpp` | voice note and speech of the gadget | stream calls, gadget callbacks | callbacks against the voice task | not modelled |
| Device identity, `core/device_identity.cc` | UUID in NVS | load, migrate, mint | power loss between NVS writes | not modelled |
| Control frames, `core/protocol.cpp` | none | parse, build | none beyond byte layout | not modelled |
| Dispatch, I/O policy, manifest text of `core/agent_link.cpp` | tables fixed by the board | argument checks, lookup, JSON | sequential | not modelled |
| HTTP client, chat, JSON | the bound agent | blocking request and answer | text | not modelled |
| `muse_gadget`, `noise_core`, `minimp3`, display drivers | | | vendored | not modelled |
| `apps/`, `boards/`, `main/`, `profiles/`, skills, guides, tools | | | examples, pin tables, UI, scripts | not modelled |

How the parts meet: the NimBLE host task runs every GAP, GATT and L2CAP event to its end before the next one. From
there it calls the core (`OnCtrlFrame`, `OnConn`, `OnLinkReady`, `OnStreamData`), which calls the OTA engine or the
audio downlink. The board's own task calls the public API at any time. The OTA worker, the stream workers and the
esp_timer task run beside both, and share atomics and a few mutexes with them. Over WiFi the default event loop runs the station's handlers
under one mutex; the cloud session's task, the MQTT task, the realtime worker with its media task and the task of Friends run beside it and meet in
`transport_wifi.cpp`: the station tells the session when the network is there (`NetReady`), the session tells the calls when the platform is online (`OnCloudState`), and
whoever needs the radio for itself first pauses the session (`agent_wifi_local_begin`). What the components promise each
other is in the modules as guards and in section 6 as disagreements.

## 2. Modules

An action is what one thread does between two accesses to state another thread can change, so every module has a
program counter per thread (`wk`, `host`, `board`, `rx`, `timer`, `api`, `brd`); a section under a mutex is one action.

**OtaUpgrade** (with **AtomicInstall**, **MCOtaUpgrade**, **OtaUpgradeProofs**). `ota` is the engine's atomics, metadata and
ring buffer; `wk` the worker tasks, more than one because the exit path of an old task can overlap the next session;
`host` the L2CAP data handler slice by slice; `board` a task inside `agent_link_ota_abort`; `l2c` link, channel, credit
and `s_l2cap_rearm_pending`; `rom` the partitions and the boot loader's choice with rollback. A 512-byte slice is a unit
`<<session, index>>`, and the digest is the sequence of what was hashed. `Begin` .. `BackToIdle` follow `RunSession` and
`WorkerTask`; `Resume*` follow `ResumeL2capRx` between its atomic accesses; `PowerLoss` restarts into the boot loader's
rules (a `new` image becomes `pending`, a second reset before `mark_valid` rolls back). `AtomicInstall` says what all of it
is for: the image that will boot changes in one step from one whole image to another, only on behalf of the open
session, and an unconfirmed image can be given up for the one before.

**AudioDownlink** (**MCAudioDownlink**, **AudioDownlinkProofs**). `dl` is the session: armed, paused, repeats, `lead`
(audio delivered less time passed), `since`, codec, partial block; `timer` the ticker and a Tick under way; `rx` the
transport task; `board` what the play buffer holds; `air` and `flow` what is under way in each direction. One unit of time and of audio
is one ADPCM block (about 32 ms). `Elapse` passes a unit only when both tasks are at rest, flow frames have been heard
and no tick is overdue: handlers are far quicker than 32 ms. A board may ignore any 0x05, which then neither arms nor disarms.

**BulkUplink** (**MCBulkUplink**, **UplinkProofs**). `rec` is `s_rec` or `s_img` (the two streams are mirror images; `Kind` says which, and
with it whether the loss of the link reaches the stream itself); `wk` the worker, `api` the board's task inside `stream_open`, `slot` the stream
slot of the core; `l2c` the channel with the peer's credits, an SDU that waits for one and the stall flag; `air` and `ev`
the two channels to the App. A unit `<<t, k>>` is the k-th SDU the board tried to write to transfer t.

**BleLink** (**MCBleLink**, **BleLinkProofs**). `gap` is NimBLE's connection, numbered; `ble` the transport's three flags;
`core` state, generation, manifest flag and phase; `host` the host task inside `SetLinkState`, `OnLinkReady` or
`SendManifest`; `brd` the board's task inside an API call; `requests` and `replies` the deferred commands; `app` what the App has
assembled and who was answered. Whether the manifest fits the MTU a connection begins with depends on what the board has declared by then: `gap.roomy`,
open with each connection.

**RealtimeCall** (with **LiveCall**, **MCRealtimeCall**, **RealtimeCallProofs**). `ctl` is the state of `cloud_realtime.cc` under its mutex or in atomics, `grants` the queue of one, `tx` the microphone
packets; `wk` the worker with its grant and connection, `med` the media task of a connection; `brd`, `cld`, `mq` the board's, cloud session's and MQTT task inside
a call of `transport_wifi.cpp`; `wifi` what that file keeps. A call is numbered by its epoch, as in the code. `srv` is the platform: a session it holds open, and
whether the grant or the release of it got lost. `LiveCall` says what all of it promises whoever speaks into the device: one line at a time, dialled for the newest call while it is wanted, with a permit used once;
what is said is heard on that line or nowhere, and once the call is cancelled no more than the packet whose sending had begun. In `RealtimeCall`, `Promise` instantiates it: a call is the epoch and whether a grant of it waits or is worked on, a
line is a media task, a permit a fresh token of the current call. `FlushTx` is three steps, the test of flag and epoch, the packet taken, the blocking send: `wk.flush` says which comes next, and a cancel or a stop can come between any two.
A request over MQTT that cannot be published (`RequestRefused`) clears the flag whatever call there is; `brd.refused` remembers that there was one.

**CloudSession** (**MCCloudSession**, **CloudSessionProofs**). `ses` is the session task, one step per request sent, answer acted on and wait; `run`, `alive`, `pause`
the flags other tasks share with it; `app` a task inside `cloud_session_pause`; `key`/`nvs` the device's key in RAM and flash, `unerased` says that the erasure of the second has failed (`EraseKey`, a bounded event), `token`, `client`, `refused` the MQTT
credentials and the notification bit; `plat` the platform. Keys are numbered as they are issued and a token remembers its key, so "a refusal
of an earlier client" or "a revoked key" can be told apart.

**WifiStation** (**MCWifiStation**, **WifiStationProofs**). `sta`, `join`, `prov` are the file's state under `s_wifi_mtx`, so every handler is one step; `queue` is the default event loop
between post and handler, `drv` the driver, which posts an event with each change of its own. Ticks come in between anywhere.

**FriendPairing** (**MCFriendPairing**, **FriendPairingProofs**). `dev[d]` is one `Engine`, `air[d][e]` the frames from d to e, in order or lost; `consent` is history: which users
agreed to which pairing. Every command, timer and frame handler is one action; a device can vanish with or without a farewell, and come back with another nonce.

**VoiceUplink** (**MCVoiceUplink**, **UplinkProofs**). `voice` is `s_voice`, `worker` its task, `writer` a board task between its check of `active` and its push (the variant without a common
lock), `said` and `sent` history; units are numbered as they are accepted, so what a packet holds says what is missing. `build` chooses the variant of the source for the ESP32-C3 or for the other chips.
VoiceStart is one step in the first (`Start`, one critical section) and two in the other (`StartEmpties`, `StartResets`), with a late writer free to push in between.

The modules of one link share it as environment: `OtaUpgrade`, `BulkUplink` and `VoiceUplink` open, drop and reconnect it at any time, which includes whatever `BleLink` can do
to it; `RealtimeCall` lets the platform come and go at any time, which includes whatever `CloudSession` and `WifiStation` can do to it.

## 3. Runs

| Run | Instance | Distinct states | What it shows |
|---|---|---|---|
| OtaSafety | 2 sessions, 2 workers, 2 channels, one fault of twelve kinds | 441 k | one owner, bootable image, one verdict, refinement of AtomicInstall |
| OtaLiveness | buffer of 4 slices, image of 6, 2 faults of seven kinds | 337 k | the gate stops the peer in time, credit never lost; a session ends, times out only by the peer's fault, and the board hears its end |
| OtaShutChannel | expects a violation | | section 6 |
| AudioFlow | unmetered board, two codecs, one lost frame, lost link or reply broken off | 2.26 M | nothing dropped, estimate within a tick |
| AudioSession | metered board, back-to-back ADPCM replies, one lost frame, lost link or missing ticker | 346 k | whole blocks; pause and resume arrive |
| UplinkBulk | 2 transfers, queue of 2, chunks of 2, one credit, 2 faults of five kinds | 470 k | gapless beginning, no truncated transfer reported whole, bytes attributable, transfers end |
| LinkSafety | 2 phones, 2 connections, 2 commands, 1 reply slot, one board call, 1 failed notification, manifests that fit the first MTU or do not | 3.15 M | one owner, replies to the asker, the App is served |
| CallSafety | 2 calls of either kind, 2 connections, 1 retry, one of: end, cut stream, platform lost, stop | 608 k | flags and link state tell the truth, refinement of LiveCall (packets and tokens stay with their connection; for a cancelled call none is sent but the one whose sending had begun), granted sessions are released, a call that was left ends |
| CloudSafety | 3 of: pauses, losses, silent or refusing answers, revocations, forget, stop, restart, a key that is not stored or not erased | 576 k | local use finds the session quiet, a refusal is of the running client, the device comes online again |
| WifiJoin | 2 networks, window of 3 ticks, 3 driver events queued, 3 requests | 265 k | never stranded, windows end, the portal closes |
| FriendPair | 2 devices, 5 nonces each, 2 frames per direction, 1 greeting, 2 commands | 88 k | consent, same keys, greetings once, agreement connects, half-open connections end |
| VoiceStream | 2 sessions of 5 units, queue of 3, packets of 2, both variants, 2 losses | 251 k | missing numbers are the only missing sound; complete without an error is complete; sessions end |

Why these bounds are enough to meet the interesting cases:

- *OTA.* Two sessions and two workers are what an overlap needs; buffer sizes keep the relations of the code
  (`RxGateMinFree` is a quarter of the buffer but at least two SDUs and at most a half). An image
  half again as long as the buffer makes the gate close and open again. The symmetry over worker slots is sound in the runs
  that use it: no action or property names a worker. OtaLiveness uses no symmetry.
- *Audio.* The board of AudioFlow holds just the `Limit` of `BoardHasRoom` (22 units: 14 for the mark and what is under way, 4 for each of two ticks); `MaxSdu` and `Window` bound what is under way when the
  App hears the pause; blocks of two pieces are the least that can be cut.
- *Uplink.* A queue of two with writes of two overflows in the middle of a write; one credit stalls on the second SDU; three
  attempts lose one event and repeat it; `MaxUnits` bounds the SDUs over all transfers.
- *Link.* Two connections and two phones are what a stale reply or a second owner needs; two chunks make "some of the manifest"
  possible. Phones are symmetric.
- *Calls.* Two calls and two connections are what "of an earlier call" and a retry need; the second request meets the worker of the first at every step of it. One
  packet is enough for a packet of the wrong connection, one break for a cancel at every step.
- *Cloud.* Three events take a device from signed in over a revocation and a claim to signed in with the second key, with one pause or loss anywhere; the number
  of keys and tokens is bounded by them. `CloudSessionProofs` has no such bound.
- *WiFi.* Two networks tell a stale event from a current one; a window of three ticks has room for a failure, a retry and its end; three
  queued events are a submission behind an outcome behind a loss.
- *Friends.* Two devices are a pairing; five nonces allow every restart that two commands and the timers can cause; two frames per direction let a frame of an old
  session follow one of the new. `FriendPairingProofs` takes any number of devices, nonces and frames.
- *Voice.* Five units overflow a queue of three while a packet of two is in hand; a second session meets the worker of the first.

`CHECK_DEADLOCK FALSE` stands where the environment may stop: an App that falls silent, a board that no longer opens a stream, no more
connections within the bound.

### Fairness

- OtaUpgrade: weak fairness of every worker, of the host task and of the board's abort call: FreeRTOS runs every ready task, and the
  worker's waits end by their own timeouts. Nothing is assumed of the App, the link, the channel or the power.
- AudioDownlink: of the two tasks, of the arrival of SDUs and flow frames that are not lost, and of time.
- BulkUplink: of the board's task inside `stream_open`, the worker and the arrival of events; the App grants credit and the board closes a stream when they please.
- VoiceUplink: of the worker and of a write under way. The host may be busy for as long as the code retries.
- RealtimeCall: of the five tasks. Requests, connects and reads end by their own timeouts, with success or not; nothing else is assumed of the platform.
- CloudSession: of the session task, its timers and of a caller that paused it and comes back (`Resume`). `Recovers` needs a platform that can be reached and an owner: the network returns,
  answers arrive, somebody claims the device, releases a stale binding and attaches an agent. The heartbeat is strongly fair: it is due only while the client runs, over and over.
- WifiStation: of the event loop, the two ticks, the local radio calls, and of an attempt of the driver, which ends by association or failure. Not that an access point ever lets the station in.
- FriendPairing: of every engine's repetitions and its timeout, of the air, which delivers or loses a frame, and strongly of one kind of delivery: a Confirm that is sent for ever arrives some time.
- BleLink has safety properties only.

### Assumptions the runs rest on

- OtaUpgrade: SHA-256 is ideal. OtaLiveness keeps the mbuf pool empty only for the worker (fault `pool_worker`) and opens one channel;
  the run has one session. Section 6 says what happens beyond.
- AudioFlow: a reply starts on a drained board (`BackToBack` is FALSE) and the App changes its codec only before its first
  piece. Both audio runs give the board room above the pause mark for a tick of what the App sends, since a RESUME overtaken by a PAUSE is repaired one tick later, and AudioFlow
  for a second one, since a lost PAUSE is repeated one tick later (kFlipRepeats).
- BulkUplink: opening an L2CAP channel takes longer than the worker's 10 ms polls and reconnecting longer than its 120 ms start
  delay; fewer than `Attempts` notifications fail in a row; `StartReset` is one action.
- BleLink: the check and the send inside `Notify` fall into one connection; a peer ends no pairing on a connection that is being
  terminated; the App starts a manifest at chunk 0, and fetches it (0x34) only once it has subscribed.
- RealtimeCall: HTTPS and WebSocket calls fail or succeed but return; the token of a grant is good once.
- CloudSession: a retry delay ends some time, a renewal may be due at any pass; the platform answers for the key it was sent.
- WifiStation: one event queue in order; a driver call that fails is only `esp_wifi_connect` out of turn.
- FriendPairing: the radio keeps the order of a device's frames and may lose any (a frame that does not fit `MaxAir` is lost); a repeated greeting is sent only after
  its predecessor has left the air; a new nonce is one nobody holds or refers to; the authentication tag is right exactly in the session it was made in.
- VoiceUplink: reconnecting takes longer than the worker's 10 ms waits.

## 4. Properties

- `BootableImage`, `InstallsAtomically`, `OneVerdict`: whatever is aborted, refused, corrupted or cut off by power loss, what boots is a
  whole image of one session, the fallback too while it is needed, and a session reported failed is never booted.
- `OneOwner` (OTA): flash handle, digest and buffer never have two tasks.
- `NoOverflow`, `CreditAccounted`, `TimeoutIsPeersFault`: the receive gate stops the peer before the buffer is full and always lets it go on.
- `SessionEnds`, `BoardHearsEnd`: a session ends, and the last thing the board hears says so.
- `NothingDropped`, `EstimateClose`: the pause takes effect before the play buffer is full, also when a PAUSE is lost or overtaken; the time-based estimate falls short of the true level by
  at most one tick.
- `Intelligible`, `DecisionArrives`: what is decoded is one block of one codec; a decision to pause or resume reaches the App however frames
  are lost or overtaken, while the ticker runs.
- `NoGap`, `WholeMeansWhole`, `Attributable`, `TransferEnds`: see section 3, UplinkBulk. `Attributable` excepts a transfer whose end event failed in every
  attempt, since the result of `NotifyStreamBookend` is returned to no one; in the run faults are fewer than attempts, so nothing is excepted there.
- `OneOwner` (link), `ReplyToAsker`, `AppServed`: one bond at a time until the board forgets it; a deferred reply reaches the connection that asked
  or nobody; in whatever order the App encrypts, subscribes and exchanges the MTU (if the manifest needs more than the first one), it ends with the manifest sent and the phase READY.
- `LinkHonest`, `FlagsTellTruth`, `KeepsPromise`, `GrantDiscipline`, `LeavingEnds` (calls): the board sees READY, running and recovering only while that is so; what was recorded
  before an interruption is not heard after it, and after a cancel at most the packet that was being sent; no line is dialled for a call that is no longer wanted; a session the platform granted is given back before the next call; a call that was left ends.
- `PauseMeansQuiet`, `RefusalIsCurrent`, `Recovers` (cloud): whoever has paused the session has the radio for itself; a late refusal never tears down the next client; no refusal, loss
  or pause leaves the session stuck. `RevokedKeyRests` (a key reported revoked is not sent again before a restart, or before a start that reads it because its erasure had failed) is proved and not run, as is `UplinkBelongs` of the calls, which `KeepsPromise` contains.
- `NeverStranded`, `WindowEnds`, `PortalCloses` (WiFi): there is always an attempt, a link, its loss in the queue, or a portal, whatever stale events are handled in between.
- `MutualConsent`, `SameSession`, `GreetedOnce`, `ConsentConnects`, `HalfOpenEnds` (friends): what a user is shown is true of both devices, and comes about or goes away although frames are lost.
- `NumbersTellLoss`, `WholeUnlessError`, `SessionEnds` (voice): what the App can conclude from the packet numbers and the board from a session without error.

## 5. Proofs

Every theorem holds for every value of the constants that the named `ASSUME` of the module allows; nothing else is assumed
unless the statement says so.

- **OtaUpgradeProofs.** `Invariance` proves `IInv == TypeOK /\ ControlInv /\ OneOwner /\ ImageInv`; `TypeCorrect`, `SingleOwner` and `AlwaysBootable`
  follow. `BootableImage` alone is not inductive: nothing in it says why the partition selected at the end is whole.
  `ImageInv` adds that the session writes only the partition that is not running, that its content is what the digest has seen
  (`Digesting`), that the digest equals the announced image once it has been compared, and that nothing is switched before
  that. `OneOwner` is what lets a step of one worker leave the facts about the other alone. `WorkerType`/`OthersType`,
  `WorkerControl`/`OthersControl`, `WorkerImage`/`OthersImage` go through the actions.
  `Implements` proves `Spec => InstallsAtomically`: under the mapping of `Abstract` every step is a step of AtomicInstall or a stutter. `IInv` is not enough for
  it: `StageInv` adds that between the switch of the boot partition and the verdict the session is still open and the switched partition is the one just written, so that the switch is `Install` of the
  open session and nothing else moves the image to boot. `SingleVerdict` proves `OneVerdict` from `VerdictInv`: until a session's result is stored no verdict on it is in the
  history, and a worker on the failure path has not switched (`Sound`).
  Three theorems are about the receive gate, each under the conditions section 6 shows to be needed:
  - `CreditIsKept` (`CreditAccounted`, from `CreditInv`): a worker inside `ResumeL2capRx` works on the channel it took its snapshot of (`Snapshots`), and between two events of the host task the credit is
    there or a worker owes it (`Balance`). It assumes that re-arming does not fail in the host task (`pool_host`), and a first channel, or none that is lost.
  - `GateHolds` (`NoOverflow`, from `GateInv`): there is one right to send, which is credit, the SDU in hand, the rearm flag or what a worker carries from claiming the flag to giving the credit
    (`OneToken`); the buffer has room for it, and for one SDU more while a worker is lifting the gate (`Room`). It assumes what the code has: a floor of two SDUs (`kGateFloor`, 8 KB, for an MTU of 4 KB) and a buffer of four.
    It speaks of the first session after a start, whatever faults occur in it; with two sessions the gate can be lifted twice and the property fails (section 6).
  - `TimeoutsAreDeserved` (`TimeoutIsPeersFault`, from `PollInv`): a worker that waits in vain is the only one, and while the peer has neither credit nor anything under way, each empty poll but the one under way
    has cost a fault. It assumes fewer faults than polls (`MaxFaults < IdleMax`: an mbuf pool that stays empty for the whole 60 s does time the upgrade out) and the conditions of `CreditIsKept` on channels.
- **AudioDownlinkProofs.** `DownlinkTypes` (with it: a block is handed on as soon as it is whole). `EstimateAccuracy`: for an unmetered board, replies
  on a drained board and a ticker that can be created, the estimate is never short by more than a tick, whatever bursts,
  underruns and losses occur. `EstimateInv` strengthens it: the estimate falls behind only while the board has nothing to play, for as
  long as the ticker takes to notice (`ClockInv` ties the lag to the time left on the timer), and a session starts on an empty board.
  `BoardHasRoom` (`NothingDropped`, from `DropInv`) is the theorem about flow control. `Level` turns the estimate into a bound on what a session that is not paused can hold, everything under way included (`Base`).
  From the decision to pause, `FlowControl` keeps an account: as long as the last the App will hear is RESUME, the level exceeds `Base` by no more than what the App sent since the tick (`Drift`) and one tick for each lost frame (`Debt`),
  and a repetition of PAUSE is left (`Tries`); once it will hear PAUSE, the level is below `Limit` and only what it may still send counts (`Yet`). It assumes `Roomy`: an unmetered board that holds `Limit`, fewer lost frames than `kFlipRepeats`
  (faults of every kind count where frames are lost), `ResumeAt < PauseAt`, and what `EstimateAccuracy` assumes. AudioFlow meets it with nothing to spare. `AirFeed` and `AirPush` replace the sum over the SDUs in the air, which would be a recursion.
  `DecodesWhatWasSent` (`Intelligible`, from `DecodeInv`): the SDUs in the air and the staged block follow one another around the block (`Consecutive`), except after a loss of the link, which leaves nothing to
  follow (`Cleaning`). It assumes an App that keeps the negotiated codec and ends a reply between two blocks; without either TLC finds a board that hears noise (section 6, SetCodec).
- **UplinkProofs**, BulkUplink: `Gapless` (`NoGap`) and `WholeIsWhole` (`WholeMeansWhole`), with `TypeCorrect`. Neither is inductive. `IInv` numbers what is on its way to the App (`LineInv`: it goes on from what
  the App got), what the worker holds (`SendInv`: it goes on from what was sent) and the queue (`QueueInv`: from there, and its length in SDUs is `queued`), and says that without a truncation the queue
  ends where the board stopped writing. `CloseInv` says who can request an end: without a truncation only the board, which then writes nothing more; hence a worker that finds the queue empty after
  it read `end_req` has sent everything. `EventInv` carries the verdict to the App. After a lost channel the numbers on the way need not go on (`Edge` is claimed only while there is a channel), and they do not
  have to: such a transfer sends nothing more. `BytesAttributable` (`Attributable`) adds `AInv`: events are heard in the order of the transfers (`OrderInv`), the App has the transfer open before its first byte is
  sent (`OpenInv`), and the end event under way or heard counts every byte that is still to arrive (`KnownInv`), also of an SDU that stalled.
- **UplinkProofs**, VoiceUplink: `VoiceTypeCorrect` (types, and how far the queue may be from its cap and from its count, `QueueWithinCap`), `LossIsTold` (`NumbersTellLoss`) and `CompleteIsWhole` (`WholeUnlessError`), in both builds. None of the three is inductive; `VoiceInv` adds where the units are between the board and the App. `VoiceQueue`: the
  queue holds consecutive units up to the last accepted one; on the ESP32-C3 exactly as many as are counted, otherwise
  possibly one write more: the one writer that passed the check of the old session, of which nothing is left once the count has been reset. `VoiceHand`: what the worker has in hand ends where the queue begins. `VoiceLine`: as long as no number
  was given to a packet that was not sent (`Tight`), the next unit to be sent follows the last one sent. A failed slice consumes its number, so `Tight` is false from there to the end of the session or until the next
  packet is sent, and with that packet the line starts anew behind a hole that the numbers show. On the ESP32-C3 the worker leaves after such a failure, so packets follow one another without any hole, and a worker that leaves without an error
  or an abort has looked at an empty queue after the end was requested (`VoiceDone`). Sums over the packets would be a recursion; because units are consecutive, first and last of a packet say the same.
- **BleLinkProofs.** `LinkTypes`, with the bound on replies under way. `SingleOwner`: from `OwnersLink`, the phone of a connection that is not being terminated is
  the owner if there is one, so the only bond a pairing can add is the one there is. `RepliesToAsker`: from `ReplyInv`, whatever carries the current generation belongs to
  the current connection, and between two connections nothing carries it, since `SetLinkState` has gone on to the next generation before the
  host task takes another event (`HostOnLink`, `LinkMoves`). `AppIsServed` (`AppServed`): from `ServedInv`, as long as the board has not stopped the link, the transport's flags speak of the connection there is,
  state and phase follow them wherever the host task is (`ReadyOnLink`), the manifest flag is set once the App can take the manifest (`SentOnLink`), and what it claims the App has heard (`Heard`).
- **RealtimeCallProofs.** `TypeCorrect`, `LinkIsHonest`, `UplinkIsOfTheCall`, `GrantsAreGivenBack`, `FlagsAreTrue`, `PromisesAreKept`, for any number of calls, connections, packets and retries. `LinkInv`: the worker joins the media
  task before it resets `s_ready`, and drops the packets after that, so nothing recorded for one connection is left when the next is made. `GrantInv`: a token is fresh until it is shown, and while the platform holds a session
  the worker is on its way to the release. `FlagInv`: epochs only grow, a waiting grant is newer than the worker's, so a call once cancelled is never current again; it names the steps (`Unwanted`, `UndoIsAlone`)
  between which a flag and the call it speaks of may differ. `FlagsTellTruth` excepts a request crossed by `OnCloudState`,
  a stream cut short, and a call that was there when another request could not be published (section 6).
  `PromisesAreKept` (`KeepsPromise`) proves `Spec => Promise!LSpec`, one lemma per action: it is the step of LiveCall that its name suggests, or none. The four parts are not enough for it. A dial needs a session that is held, and after
  the end of a call nothing may be left: `PromiseInv` adds that a media task exists exactly while the worker is between its hello and the join, that a token of the platform comes with a session, and that a board asks for its calls in one way.
  The worker is inside its loop from
  the test of `FlushTx` to the end of the send (`Flushing`), so the packet it takes after a cancel is still of its line. What a step does to the call as a whole rests on `Epochs`: while the worker's grant is current, no grant that waits is (`MineAlone`).
- **WifiStationProofs.** `TypeCorrect` and `StationIsServed` (`NeverStranded`), for any networks, window, limit of failures, queue and number of requests. Not inductive alone: nothing in it says why a success that is handled
  late leaves no connection claimed that is gone. `SuccessInv` does: while the station wants to connect, behind every success in the queue waits its loss or the start of the driver, unless it is true. `PhaseInv` says what each phase means for the driver,
  the portal and the local-radio call, `NetsInv` that what is tried and linked is a network.
- **CloudSessionProofs.** `TypeCorrect`. `LocalUseIsQuiet`: from `LeaseInv`, an acknowledgment of the current pause request exists only while the task sleeps in its wait, or has
  ended, without a client, and leaving the wait takes that request away first. `CurrentRefusal`: from `RefusalInv`, the bit and the client are cleared in one place, in this order. `RevokedRests`: from
  `KeysInv`, a revoked key is in RAM only between the answer that revoked it and the step that drops it, and in flash only until then or, marked, because it could not be erased; a start that reads it there ends what the theorem
  claims of that key, a start that finds it erased does not.
- **FriendPairingProofs.** `TypeCorrect`, `Consent`, `OneSession`, for any set of devices and nonces. The inductive invariant says what the state of an engine implies about its fields (`Phase`), that an engine's local
  agreement is in the history (`Agreed`), that a frame with a tag tells the truth about its sender's session and agreement (`Honest`), that engine, frame and consent speak of one owner per nonce (`Bound`), and
  that two engines that confirmed each other hold crossed nonces (`Crossed`). A nonce is never drawn again while anything refers to it (`Unused`), which is what makes an old frame harmless. `Greetings` (`GreetedOnce`) is proved on top of it: the counters of an acknowledged greeting and of a shown one are tied to the frames of their session only.

Only model-checked: everything under fairness (`SessionEnds`, `BoardHearsEnd`, `DecisionArrives`, `TransferEnds`, `LeavingEnds`, `Recovers`, `WindowEnds`, `PortalCloses`, `ConsentConnects`,
`HalfOpenEnds`), which is out of the prover's reach. Every invariant of a passing run is a theorem, and every action property. No recursive operator is declared anywhere, so no module is closed to proofs.

## 6. Disagreements between the code and what it says of itself

**OtaShutChannel** is a run that expects a violation (`transport_ble.cpp:862`): the data handler decides to hold credit back; the failing worker lifts the gate and leaves; then the
handler stores its decision, and nobody is left to lift it. `ota_service.cpp:249-251` describes lifting the gate as preventing exactly this.

The next ones are definitions in the modules that state what a comment or header says; no run has them. To see one violated, put its name under `INVARIANTS` or `PROPERTIES` of the run's .cfg.

| Definition | Run | What the code does |
|---|---|---|
| `NothingDropped` with `BackToBack = TRUE` (soonest with PCM only: `Codecs = {"pcm"}`, `DefaultCodec = "pcm"`, `BlockLen = 1`) | AudioFlow | `Arm` starts from zero while the board still plays the last reply, so the App is let past the end of the buffer (`audio_downlink.cpp:263`, `include/agent_link.h:377`) |
| `StallIsPeersFault` | UplinkBulk | the worker stores the stall flag after `ble_l2cap_send` has returned; the credit can have come in between, and the stream is given up for a stall that is over (`transport_ble.cpp:940`) |
| `ManifestIntact` | LinkSafety | after 0x1A the board's task sends the manifest while the host task answers the App's 0x34 with another, and the chunks mix (`agent_link.cpp:1230`) |
| `ForgetOpensEnrollment` | LinkSafety | a pairing that ends between the erase of the bonds and the disconnect leaves its bond behind, and no other phone can enroll (`transport_ble.cpp:1828`) |
| `FalseAfterCancellation` | CallSafety | a stream closed as cut short cancels the call and leaves `realtime_running` set (`cloud_realtime.cc:2253`, against `include/agent_link.h:303-306`) |
| `TokenOfKey` | CloudSafety | a key found revoked while signing in leaves its token in place, which `:424` clears on the other way out, and the client of the next key starts with it (`cloud_session.cc:445`) |
| `StoredHasJoined` | WifiJoin | an address obtained with the old credentials, still in the event queue when new ones are taken, makes the new ones be stored (`transport_wifi.cpp:242`, against `:9-10`) |
| `FullIsNotDeath` | VoiceStream | on the ESP32-C3 a full queue ends the session (`transport_ble.cpp:628-652`, against `include/agent_link_stream.h:116`) |

Seen while modelling; the models have them where a module covers them, outside the passing runs:

- OTA: with the mbuf pool empty in the data handler (fault `pool_host`) the rearm is lost and the backstop has nothing to retry (`transport_ble.cpp:859`). With two
  channels a rearm claimed for the old one is lost for the new (`:779`). An abort while the image is verified is accepted and has no effect; one that is late can hit the next
  session (`ota_service.cpp:479`, `include/agent_link_ota.h:67-68`). A session whose task cannot be created is announced to the board and never taken
  back (`:438`). With two sessions the gate can be lifted twice, one SDU too many (`:462`); the digest rejects such an image.
- Audio: a board that declares no buffer is assumed to hold five seconds (`audio_downlink.cpp:30`, `include/agent_link.h:379-385`). A PAUSE decided by Tick can follow the last RESUME of
  Disarm, and that last RESUME is sent once: if it is lost or overtaken the App stays paused until the next session (`agent_link.cpp:798-799`). Without a ticker
  Deliver still pauses and only the end of the session resumes. SetCodec answers success for a change it ignores (`audio_downlink.cpp:221-226`).
- Uplink: if no worker task can be created the start event has gone out and no end event follows (`transport_ble.cpp:1032`, against `:890-893`). The byte count of the end event includes bytes
  lost with the channel. `include/agent_link_stream.h` says that ESP_ERR_NO_MEM means "this chunk was dropped, not that the stream died"; AUDIO and IMAGE are truncated by it.
- Link: a battery level or a manifest pushed between encryption and subscription counts as sent, though the App hears nothing yet (`agent_link.cpp:1040`, `:342-343`).
  `agent_link_stop` leaves the connection up: an encryption change makes the link READY again and a disconnect resumes advertising (`include/agent_link.h:292`).
- Voice: VoiceStart finds a session active whose worker still drains, returns ESP_OK, and what is written then belongs to a session about to end (`transport_ble.cpp:715`). In the variant for
  other chips the worker goes on with the next chunk after "slice send failed" (`:704`): a hole in the sound, which the numbers show. A write accepted between the worker's last look at the queue and
  `active = false` is lost with ESP_OK. In the same variant VoiceStart empties the queue under the lock and sets `queued_bytes` to zero after it (`:717-722`): a write that passed the check of `active` in the old session
  and is pushed in between is in the queue and not in the count, which stays short for the session and wraps below zero when that chunk is popped; while it is wrapped nothing but a write that brings it
  back fits. The model has this (`StartEmpties`, `Fits`): the writes are refused with ESP_ERR_NO_MEM, so no property but the count suffers. `s_voice.task = nullptr` of an old worker races the creation of the next.
- Calls: a request crossed by `OnCloudState` leaves `realtime_running` set without a call, or a call without the flag (`transport_wifi.cpp:959`); `FlagsTellTruth` excludes it (`crossed`). A
  second request over MQTT that cannot be published, because the clock is not valid or the client is not there, clears `realtime_running` and says "failed" while the call offered for the first is queued or connected
  (`transport_wifi.cpp:945-949`, against `include/agent_link.h:303-306`, "True while a WiFi call is queued, connected"; `refused`); a grant that arrives then is refused (`:692`). A
  push-to-talk interruption between the End that is queued and the one that is sent leaves `s_mute` set (`cloud_realtime.cc:1180`, not modelled).
- Cloud: nobody looks at the result of `cloud_cred_clear` (`cloud_session.cc:205`, `:555`): if NVS cannot be erased, the next start or restart reads the revoked or forgotten key again and signs in with it, although "the device will
  ask for a new activation code" (`cloud_credential.cc:62`); a forgotten key that is still valid brings the old binding back. `RevokedKeyRests` excepts such a key. A key that cannot be stored ends the session task with `s_run` set (`cloud_session.cc:246`). A start before the stopped task has left fails, and `wifi_start` reports success (`:482`). A pause with
  `s_run` false returns at once though the task may be in a request (`:531`). `s_showing_refusal` stays set when the wait publishes NO_NETWORK (`:130`).
- WiFi: the portal's page stays at "connecting" when setup is pressed during a submission (`wifi_provision.cpp:375`). A failed `al_wifi_prov_start` is ignored: no portal and no attempt. A failure of the old
  credentials still in the queue is counted against the new ones. `wifi_stop` during local radio use leaves `s_local_radio` set.
- Friends: `SendCommand` puts commands at the front of its queue (`wifi_friends.cc:330`), so stop, stop, start can leave an old Stop behind the new Start: the engine is closed while the service says it
  was requested, and the next start is refused until another stop (`:341`). Not modelled. A greeting reported as failed may have arrived.

## 7. What is left out of the modelled components

- OtaUpgrade: the model and version gates and the argument checks of Start (a refusal changes nothing); the wording of 0x38.
- AudioDownlink: the sample arithmetic of `adpcm.h`; failed allocations of the staging buffers; the 16-bit saturation of the level; `SetBufferMs` at run time.
- BulkUplink: stream metadata and the 60-byte final header; `agent_link_stream_send`; a StartReset torn by a channel event.
- BleLink: the battery cache; events and readings the board pushes; connection parameters, PHY and data length; a second start after stop; status texts.
- RealtimeCall: direct grants; what is played (mute, reset, decoder, pacing); the ESP32-C3 variant without a media task; Opus packets; WebSocket framing; playback.
- CloudSession: the clock; the hysteresis of what is published after failures; kept HTTP connections; topics and payloads.
- WifiStation: preset credentials; failing driver calls; a portal that cannot be started; the pages, DNS and scan; `wifi_local_standalone.cc`, `wifi_ble.cpp`.
- FriendPairing: names, codes, signal strength, display events, the bound of six peers, the keys themselves; the command queue and radio lease of `wifi_friends.cc`.
- VoiceUplink: a start refused for want of heap or of a task; the pauses between tries; the flow report.

### Not modelled

HTTP client, chat and JSON (text in, text out; no state but the cached agent); control frames and dispatch (byte layout and table lookup, sequential); device identity and the Muse transport
(small, or a translation between two interfaces; see the plan); everything vendored (`muse_gadget/link`, `noise_core`, `minimp3`, drivers): the repository is not their reference; fonts and other data in C files (half of all lines);
boards, applications and their user interfaces, which only use the library: what they can do to it is the board of each module.
For these reasons the modules map a small share of the lines of the repository: they map the code that has state, threads or peers, and that code is nearly all in
`components/agent_link/src`.

## 8. Plan

Done, in this order: OtaUpgrade and AtomicInstall, AudioDownlink, BulkUplink, BleLink, RealtimeCall and LiveCall, CloudSession, WifiStation, FriendPairing, VoiceUplink.

Next, the most consequential first:

1. `WifiService`: the command queue and the radio lease of `wifi_friends.cc` over the pause of CloudSession.
2. `DeviceIdentity`: the migration of the UUID under power loss. `MuseVoice`: gadget callbacks against the voice task.
