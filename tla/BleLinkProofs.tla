---------------------------- MODULE BleLinkProofs ----------------------------
(***************************************************************************)
(* Proofs about BleLink, for any number of phones, connections, commands,  *)
(* replies under way and calls of the board: the types, the one owner, that *)
(* a deferred reply reaches the connection that asked, and that the App is *)
(* served in whatever order it encrypts, subscribes and exchanges the MTU. *)
(*                                                                         *)
(* The lemmas <Action>Type prove the types action by action.  The owner    *)
(* needs OwnersLink: whoever holds a connection that is not being          *)
(* terminated is the owner, if there is one, so that the only bond a       *)
(* pairing can add is the one there is.  Replies need ReplyInv: whatever   *)
(* carries the current generation belongs to the current connection, and   *)
(* between two connections nothing carries it, since the core has gone on  *)
(* to the next generation before the host task takes another event.        *)
(* AppServed needs ServedInv: how the flags of the transport, the state    *)
(* and the phase of the core and what the App has heard of the manifest go *)
(* together at every step of the host task and of a board's call beside it. *)
(***************************************************************************)
EXTENDS BleLink, SequenceTheorems, TLAPS

LEMMA Typed ==
  ASSUME TypeOK
  PROVE  /\ gap \in Gaps /\ (gap.up => gap.peer \in Peers)
         /\ adv \in BOOLEAN /\ bonds \subseteq Peers /\ ble \in Flags
         /\ core \in Cores /\ host \in Hosts /\ brd \in Brds
         /\ requests \subseteq Requests
         /\ replies \in Seq(Replies) /\ Len(replies) <= MaxPending
         /\ app \in Apps
         /\ faults \in 0..MaxFaults
BY DEF TypeOK

LEMMA HostMoves ==
  ASSUME host \in Hosts, NEW pc \in HostPcs, HostGoto(pc)
  PROVE  host' \in Hosts
BY DEF Hosts, HostGoto

LEMMA BrdMoves ==
  ASSUME brd \in Brds, NEW pc \in BrdPcs, BrdGoto(pc)
  PROVE  brd' \in Brds
BY DEF Brds, BrdGoto

LEMMA BrdCalls ==
  ASSUME brd \in Brds, NEW c, NEW pc \in BrdPcs, Call(c, pc)
  PROVE  brd' \in Brds
<1>1. (brd.stopped \/ c = "stop") \in BOOLEAN
  OBVIOUS
<1>2. brd.calls + 1 \in 0..MaxCalls /\ 0 \in 0..Chunks
  BY LinkAssumption DEF Call, Brds
<1> DEFINE stopped == brd.stopped \/ c = "stop"
<1>3. brd' = [brd EXCEPT !.pc = pc, !.idx = 0, !.calls = brd.calls + 1, !.stopped = stopped]
  BY DEF Call
<1> HIDE DEF stopped
<1>4. stopped \in BOOLEAN
  BY <1>1 DEF stopped
<1> QED BY <1>2, <1>3, <1>4 DEF Brds

LEMMA EmptyIsTyped == <<>> \in Seq(ChunksHeard)
OBVIOUS

LEMMA ResetType ==
  ASSUME core \in Cores
  PROVE  ResetLinkState \in Cores
<1>1. core.gen + 1 \in Nat
  BY DEF Cores
<1> QED BY <1>1 DEF Cores, ResetLinkState

LEMMA PhaseType ==
  ASSUME NEW c \in Cores, NEW ph \in {"setup", "connecting", "ready", "idle"}
  PROVE  [c EXCEPT !.phase = ph] \in Cores
BY DEF Cores

LEMMA AssembledType ==
  ASSUME app \in Apps, NEW chunk \in ChunksHeard
  PROVE  Assembled(chunk) \in Seq(ChunksHeard)
BY DEF Assembled, Apps

LEMMA AsmType ==
  ASSUME app \in Apps, NEW asm \in Seq(ChunksHeard)
  PROVE  [app EXCEPT !.asm = asm] \in Apps
BY DEF Apps

LEMMA SendChunkType ==
  ASSUME app \in Apps, NEW by \in {"host", "board"}, NEW idx \in 0..Chunks, SendChunk(by, idx)
  PROVE  app' \in Apps
<1>1. [by |-> by, idx |-> idx] \in ChunksHeard
  BY LinkAssumption DEF SendChunk, ChunksHeard
<1> QED BY <1>1, AssembledType, AsmType DEF SendChunk

LEMMA AnswerType ==
  ASSUME app \in Apps, NEW a \in Nat, NEW b \in Nat
  PROVE  [app EXCEPT !.answers = @ \cup {[asked |-> a, on |-> b]}] \in Apps
<1>1. app.answers \cup {[asked |-> a, on |-> b]} \in SUBSET [asked : Nat, on : Nat]
  BY DEF Apps
<1> DEFINE S == app.answers \cup {[asked |-> a, on |-> b]}
<1> HIDE DEF S
<1>2. S \in SUBSET [asked : Nat, on : Nat]
  BY <1>1 DEF S
<1>3. [app EXCEPT !.answers = S] \in Apps
  BY <1>2 DEF Apps
<1> QED BY <1>3 DEF S

LEMMA ConnectType ==
  ASSUME TypeOK, NEW p \in Peers, Connect(p)
  PROVE  TypeOK'
<1>1. gap' \in Gaps /\ (gap'.up => gap'.peer \in Peers)
  BY Typed, LinkAssumption DEF Connect, Gaps, Conns
<1>2. adv' \in BOOLEAN
  BY Typed, LinkAssumption DEF Connect
<1>3. ble' \in Flags
  BY Typed, LinkAssumption DEF Connect, Flags
<1> QED BY <1>1, <1>2, <1>3, Typed DEF Connect, TypeOK

LEMMA SecureType ==
  ASSUME TypeOK, Secure
  PROVE  TypeOK'
<1>1. gap' \in Gaps /\ (gap'.up => gap'.peer \in Peers)
  BY Typed, LinkAssumption DEF Secure, Gaps
<1>2. bonds' \subseteq Peers
  BY Typed, LinkAssumption DEF Secure
<1>3. host' \in Hosts
  BY Typed, HostMoves DEF Secure, HostPcs
<1> QED BY <1>1, <1>2, <1>3, Typed DEF Secure, TypeOK

LEMMA SecureFailsType ==
  ASSUME TypeOK, SecureFails
  PROVE  TypeOK'
<1>1. gap' \in Gaps /\ (gap'.up => gap'.peer \in Peers)
  BY Typed, LinkAssumption DEF SecureFails, Gaps
<1>2. ble' \in Flags
  BY Typed, LinkAssumption DEF SecureFails, Flags
<1> QED BY <1>1, <1>2, Typed DEF SecureFails, TypeOK

LEMMA EncChangeType ==
  ASSUME TypeOK, EncChange
  PROVE  TypeOK'
<1>1. ble' \in Flags
  BY Typed, LinkAssumption DEF EncChange, Flags
<1>2. host' \in Hosts
  BY Typed, HostMoves DEF EncChange, HostPcs
<1> QED BY <1>1, <1>2, Typed DEF EncChange, TypeOK

LEMMA StateUpType ==
  ASSUME TypeOK, StateUp
  PROVE  TypeOK'
<1>1. core' \in Cores
  BY Typed, LinkAssumption DEF StateUp, Cores
<1>2. host' \in Hosts
  BY Typed, HostMoves DEF StateUp, HostPcs
<1> QED BY <1>1, <1>2, Typed DEF StateUp, TypeOK

LEMMA ResetUpType ==
  ASSUME TypeOK, ResetUp
  PROVE  TypeOK'
<1>1. core' \in Cores
  BY Typed, ResetType, PhaseType DEF ResetUp
<1>2. host' \in Hosts
  BY Typed, HostMoves DEF ResetUp, HostPcs
<1> QED BY <1>1, <1>2, Typed DEF ResetUp, TypeOK

LEMMA ReadyIfSubscribedType ==
  ASSUME TypeOK, ReadyIfSubscribed
  PROVE  TypeOK'
<1>1. host' \in Hosts
  BY Typed, HostMoves DEF ReadyIfSubscribed, HostPcs
<1> QED BY <1>1, Typed DEF ReadyIfSubscribed, TypeOK

LEMMA SubscribeType ==
  ASSUME TypeOK, NEW on \in BOOLEAN, Subscribe(on)
  PROVE  TypeOK'
<1>1. ble' \in Flags
  BY Typed, LinkAssumption DEF Subscribe, Flags
<1>2. host' \in Hosts
  BY Typed, HostMoves DEF Subscribe, HostPcs
<1> QED BY <1>1, <1>2, Typed DEF Subscribe, TypeOK

LEMMA MtuType ==
  ASSUME TypeOK, Mtu
  PROVE  TypeOK'
<1>1. gap' \in Gaps /\ (gap'.up => gap'.peer \in Peers)
  BY Typed, LinkAssumption DEF Mtu, Gaps
<1>2. host' \in Hosts
  BY Typed, HostMoves DEF Mtu, HostPcs
<1> QED BY <1>1, <1>2, Typed DEF Mtu, TypeOK

LEMMA LinkReadyType ==
  ASSUME TypeOK, LinkReady
  PROVE  TypeOK'
<1>1. host' \in Hosts
  BY Typed, LinkAssumption DEF LinkReady, Hosts, HostPcs
<1> QED BY <1>1, Typed DEF LinkReady, TypeOK

LEMMA PublishReadyType ==
  ASSUME TypeOK, PublishReady
  PROVE  TypeOK'
<1>1. core' \in Cores
  BY Typed, LinkAssumption DEF PublishReady, Cores
<1>2. host' \in Hosts
  BY Typed, HostMoves DEF PublishReady, HostPcs
<1> QED BY <1>1, <1>2, Typed DEF PublishReady, TypeOK

LEMMA DisconnectType ==
  ASSUME TypeOK, Disconnect
  PROVE  TypeOK'
<1>1. gap' \in Gaps /\ (gap'.up => gap'.peer \in Peers)
  BY Typed, LinkAssumption DEF Disconnect, Gaps
<1>2. ble' \in Flags
  BY Typed, LinkAssumption DEF Disconnect, Flags
<1>3. app' \in Apps
  BY Typed, AsmType, EmptyIsTyped DEF Disconnect
<1>4. host' \in Hosts
  BY Typed, HostMoves DEF Disconnect, HostPcs
<1> QED BY <1>1, <1>2, <1>3, <1>4, Typed DEF Disconnect, TypeOK

LEMMA StateDownType ==
  ASSUME TypeOK, StateDown
  PROVE  TypeOK'
<1>1. core' \in Cores
  BY Typed, LinkAssumption DEF StateDown, Cores
<1>2. host' \in Hosts
  BY Typed, HostMoves DEF StateDown, HostPcs
<1> QED BY <1>1, <1>2, Typed DEF StateDown, TypeOK

LEMMA ResetDownType ==
  ASSUME TypeOK, ResetDown
  PROVE  TypeOK'
<1>1. core' \in Cores
  BY Typed, ResetType, PhaseType DEF ResetDown
<1>2. adv' \in BOOLEAN
  BY Typed, LinkAssumption DEF ResetDown
<1>3. host' \in Hosts
  BY Typed, HostMoves DEF ResetDown, HostPcs
<1> QED BY <1>1, <1>2, <1>3, Typed DEF ResetDown, TypeOK

LEMMA HostChunkType ==
  ASSUME TypeOK, HostChunk
  PROVE  TypeOK'
<1>1. app' \in Apps
  BY Typed, SendChunkType DEF HostChunk, Hosts
<1>2. host' \in Hosts
  <2>1. host.idx + 1 \in 0..Chunks
    BY Typed, LinkAssumption DEF HostChunk, SendChunk, Hosts
  <2>2. host' = [host EXCEPT !.idx = host.idx + 1]
    BY DEF HostChunk
  <2>3. host \in Hosts
    BY Typed
  <2> QED BY <2>1, <2>2, <2>3 DEF Hosts
<1> QED BY <1>1, <1>2, Typed DEF HostChunk, TypeOK

LEMMA HostChunkFailsType ==
  ASSUME TypeOK, HostChunkFails
  PROVE  TypeOK'
<1>1. faults' \in 0..MaxFaults
  BY Typed, LinkAssumption DEF HostChunkFails, ChunkFails
<1>2. host' \in Hosts
  BY Typed, HostMoves DEF HostChunkFails, HostPcs, AfterManifest
<1> QED BY <1>1, <1>2, Typed DEF HostChunkFails, TypeOK

LEMMA HostSentType ==
  ASSUME TypeOK, HostSent
  PROVE  TypeOK'
<1>1. core' \in Cores
  BY Typed, LinkAssumption DEF HostSent, Cores
<1>2. host' \in Hosts
  BY Typed, HostMoves DEF HostSent, HostPcs, AfterManifest
<1> QED BY <1>1, <1>2, Typed DEF HostSent, TypeOK

LEMMA BrdChunkType ==
  ASSUME TypeOK, BrdChunk
  PROVE  TypeOK'
<1>1. app' \in Apps
  BY Typed, SendChunkType DEF BrdChunk, Brds
<1>2. brd' \in Brds
  <2>1. brd.idx + 1 \in 0..Chunks
    BY Typed, LinkAssumption DEF BrdChunk, SendChunk, Brds
  <2>2. brd' = [brd EXCEPT !.idx = brd.idx + 1]
    BY DEF BrdChunk
  <2>3. brd \in Brds
    BY Typed
  <2> QED BY <2>1, <2>2, <2>3 DEF Brds
<1> QED BY <1>1, <1>2, Typed DEF BrdChunk, TypeOK

LEMMA BrdChunkFailsType ==
  ASSUME TypeOK, BrdChunkFails
  PROVE  TypeOK'
<1>1. faults' \in 0..MaxFaults
  BY Typed, LinkAssumption DEF BrdChunkFails, ChunkFails
<1>2. brd' \in Brds
  BY Typed, BrdMoves DEF BrdChunkFails, BrdPcs
<1> QED BY <1>1, <1>2, Typed DEF BrdChunkFails, TypeOK

LEMMA BrdSentType ==
  ASSUME TypeOK, BrdSent
  PROVE  TypeOK'
<1>1. core' \in Cores
  BY Typed, LinkAssumption DEF BrdSent, Cores
<1>2. brd' \in Brds
  BY Typed, BrdMoves DEF BrdSent, BrdPcs
<1> QED BY <1>1, <1>2, Typed DEF BrdSent, TypeOK

LEMMA FetchType ==
  ASSUME TypeOK, Fetch
  PROVE  TypeOK'
<1>1. host' \in Hosts
  BY Typed, LinkAssumption DEF Fetch, Hosts, HostPcs
<1> QED BY <1>1, Typed DEF Fetch, TypeOK

LEMMA ClaimType ==
  ASSUME TypeOK, NEW id \in 1..MaxRequests, Claim(id)
  PROVE  TypeOK'
<1>1. requests' \subseteq Requests
  <2>1. gap.id \in Nat /\ core.gen \in Nat
    BY Typed, LinkAssumption DEF Gaps, Cores
  <2>2. [id |-> id, conn |-> gap.id, gen |-> core.gen, open |-> TRUE] \in Requests
    BY <2>1 DEF Requests
  <2> QED BY <2>2, Typed DEF Claim
<1> QED BY <1>1, Typed DEF Claim, TypeOK

LEMMA ReplyCheckType ==
  ASSUME TypeOK, NEW r \in requests, ReplyCheck(r)
  PROVE  TypeOK'
<1>1. requests' \subseteq Requests
  BY Typed, LinkAssumption DEF ReplyCheck, Requests
<1>2. brd' \in Brds
  BY Typed, LinkAssumption DEF ReplyCheck, Brds, BrdPcs, Requests, Replies
<1> QED BY <1>1, <1>2, Typed DEF ReplyCheck, TypeOK

LEMMA QueueReplyType ==
  ASSUME TypeOK, QueueReply
  PROVE  TypeOK'
<1>1. replies' \in Seq(Replies) /\ Len(replies') <= MaxPending
  BY Typed, LinkAssumption DEF QueueReply, Brds
<1>2. brd' \in Brds
  BY Typed, LinkAssumption DEF QueueReply, Brds, BrdPcs, Replies, NoReply
<1> QED BY <1>1, <1>2, Typed DEF QueueReply, TypeOK

LEMMA SendDeferredReplyType ==
  ASSUME TypeOK, SendDeferredReply
  PROVE  TypeOK'
<1>1. replies' \in Seq(Replies) /\ Len(replies') <= MaxPending
  BY Typed, LinkAssumption DEF SendDeferredReply
<1>2. app' \in Apps
  <2>1. Head(replies) \in Replies
    BY Typed DEF SendDeferredReply
  <2>2. Head(replies).conn \in Nat /\ gap.id \in Nat
    BY <2>1, Typed, LinkAssumption DEF Replies, Gaps
  <2>3. [app EXCEPT !.answers = @ \cup {[asked |-> Head(replies).conn, on |-> gap.id]}] \in Apps
    BY <2>2, Typed, AnswerType
  <2> QED BY <2>3, Typed DEF SendDeferredReply
<1> QED BY <1>1, <1>2, Typed DEF SendDeferredReply, TypeOK

LEMMA ManifestChangedType ==
  ASSUME TypeOK, ManifestChanged
  PROVE  TypeOK'
<1>1. brd' \in Brds
  BY Typed, BrdCalls DEF ManifestChanged, BrdPcs
<1> QED BY <1>1, Typed DEF ManifestChanged, TypeOK

LEMMA ForgetBondsType ==
  ASSUME TypeOK, ForgetBonds
  PROVE  TypeOK'
<1>1. bonds' \subseteq Peers
  BY Typed, LinkAssumption DEF ForgetBonds
<1>2. brd' \in Brds
  BY Typed, BrdCalls DEF ForgetBonds, BrdPcs
<1> QED BY <1>1, <1>2, Typed DEF ForgetBonds, TypeOK

LEMMA ForgetAuthorizationType ==
  ASSUME TypeOK, ForgetAuthorization
  PROVE  TypeOK'
<1>1. ble' \in Flags
  BY Typed, LinkAssumption DEF ForgetAuthorization, Flags
<1>2. brd' \in Brds
  BY Typed, BrdMoves DEF ForgetAuthorization, BrdPcs
<1> QED BY <1>1, <1>2, Typed DEF ForgetAuthorization, TypeOK

LEMMA ForgetConnectionType ==
  ASSUME TypeOK, ForgetConnection
  PROVE  TypeOK'
<1>1. gap' \in Gaps /\ (gap'.up => gap'.peer \in Peers)
  BY Typed, LinkAssumption DEF ForgetConnection, Gaps
<1>2. brd' \in Brds
  BY Typed, LinkAssumption DEF ForgetConnection, Brds, BrdPcs, Gaps
<1> QED BY <1>1, <1>2, Typed DEF ForgetConnection, TypeOK

LEMMA StopAdvertisingType ==
  ASSUME TypeOK, StopAdvertising
  PROVE  TypeOK'
<1>1. adv' \in BOOLEAN
  BY Typed, LinkAssumption DEF StopAdvertising
<1>2. brd' \in Brds
  BY Typed, BrdCalls DEF StopAdvertising, BrdPcs
<1> QED BY <1>1, <1>2, Typed DEF StopAdvertising, TypeOK

LEMMA StopFlagsType ==
  ASSUME TypeOK, StopFlags
  PROVE  TypeOK'
<1>1. ble' \in Flags
  BY Typed, LinkAssumption DEF StopFlags, Flags
<1>2. brd' \in Brds
  BY Typed, BrdMoves DEF StopFlags, BrdPcs
<1> QED BY <1>1, <1>2, Typed DEF StopFlags, TypeOK

LEMMA StopStateType ==
  ASSUME TypeOK, StopState
  PROVE  TypeOK'
<1>1. core' \in Cores
  BY Typed, LinkAssumption DEF StopState, Cores
<1>2. brd' \in Brds
  BY Typed, BrdMoves DEF StopState, BrdPcs
<1> QED BY <1>1, <1>2, Typed DEF StopState, TypeOK

LEMMA StopResetType ==
  ASSUME TypeOK, StopReset
  PROVE  TypeOK'
<1>1. core' \in Cores
  BY Typed, ResetType, PhaseType DEF StopReset
<1>2. brd' \in Brds
  BY Typed, BrdMoves DEF StopReset, BrdPcs
<1> QED BY <1>1, <1>2, Typed DEF StopReset, TypeOK

LEMMA InitTypeOK == Init => TypeOK
<1> SUFFICES ASSUME Init PROVE TypeOK
  OBVIOUS
<1>1. gap \in Gaps /\ ~gap.up
  BY LinkAssumption DEF Init, Gaps
<1>2. core \in Cores /\ host \in Hosts /\ ble \in Flags
  BY LinkAssumption DEF Init, Cores, Hosts, HostPcs, Flags
<1>3. brd \in Brds
  BY LinkAssumption DEF Init, Brds, BrdPcs, Replies, NoReply
<1>4. app \in Apps
  BY DEF Init, Apps
<1>5. replies \in Seq(Replies) /\ Len(replies) <= MaxPending
  BY LinkAssumption DEF Init
<1>6. adv \in BOOLEAN /\ bonds \subseteq Peers /\ requests \subseteq Requests /\ faults \in 0..MaxFaults
  BY LinkAssumption DEF Init
<1> QED BY <1>1, <1>2, <1>3, <1>4, <1>5, <1>6 DEF TypeOK

\* Every action keeps the types.
LEMMA NextTypeOK == TypeOK /\ [Next]_vars => TypeOK'
<1> SUFFICES ASSUME TypeOK, [Next]_vars PROVE TypeOK'
  OBVIOUS
<1>1. ASSUME NEW p \in Peers, Connect(p) PROVE TypeOK'
  BY <1>1, ConnectType
<1>2. CASE Secure
  BY <1>2, SecureType
<1>3. CASE SecureFails
  BY <1>3, SecureFailsType
<1>4. CASE EncChange
  BY <1>4, EncChangeType
<1>5. CASE StateUp
  BY <1>5, StateUpType
<1>6. CASE ResetUp
  BY <1>6, ResetUpType
<1>7. CASE ReadyIfSubscribed
  BY <1>7, ReadyIfSubscribedType
<1>8. ASSUME NEW on \in BOOLEAN, Subscribe(on) PROVE TypeOK'
  BY <1>8, SubscribeType
<1>9. CASE Mtu
  BY <1>9, MtuType
<1>10. CASE LinkReady
  BY <1>10, LinkReadyType
<1>11. CASE PublishReady
  BY <1>11, PublishReadyType
<1>12. CASE Disconnect
  BY <1>12, DisconnectType
<1>13. CASE StateDown
  BY <1>13, StateDownType
<1>14. CASE ResetDown
  BY <1>14, ResetDownType
<1>15. CASE HostChunk
  BY <1>15, HostChunkType
<1>16. CASE HostChunkFails
  BY <1>16, HostChunkFailsType
<1>17. CASE HostSent
  BY <1>17, HostSentType
<1>18. CASE BrdChunk
  BY <1>18, BrdChunkType
<1>19. CASE BrdChunkFails
  BY <1>19, BrdChunkFailsType
<1>20. CASE BrdSent
  BY <1>20, BrdSentType
<1>21. CASE Fetch
  BY <1>21, FetchType
<1>22. ASSUME NEW id \in 1..MaxRequests, Claim(id) PROVE TypeOK'
  BY <1>22, ClaimType
<1>23. ASSUME NEW r \in requests, ReplyCheck(r) PROVE TypeOK'
  BY <1>23, ReplyCheckType
<1>24. CASE QueueReply
  BY <1>24, QueueReplyType
<1>25. CASE SendDeferredReply
  BY <1>25, SendDeferredReplyType
<1>26. CASE ManifestChanged
  BY <1>26, ManifestChangedType
<1>27. CASE ForgetBonds
  BY <1>27, ForgetBondsType
<1>28. CASE ForgetAuthorization
  BY <1>28, ForgetAuthorizationType
<1>29. CASE ForgetConnection
  BY <1>29, ForgetConnectionType
<1>30. CASE StopAdvertising
  BY <1>30, StopAdvertisingType
<1>31. CASE StopFlags
  BY <1>31, StopFlagsType
<1>32. CASE StopState
  BY <1>32, StopStateType
<1>33. CASE StopReset
  BY <1>33, StopResetType
<1>34. CASE UNCHANGED vars
  BY <1>34, Typed DEF vars, TypeOK
<1>35. CASE GapStep
  BY <1>35, <1>1, <1>2, <1>3, <1>4, <1>8, <1>9, <1>12 DEF GapStep
<1>36. CASE CoreStep
  BY <1>36, <1>5, <1>6, <1>7, <1>10, <1>11, <1>13, <1>14, <1>15, <1>16, <1>17 DEF CoreStep
<1>37. CASE CommandStep
  BY <1>37, <1>21, <1>22, <1>25 DEF CommandStep
<1>38. CASE BoardStep
  BY <1>38, <1>18, <1>19, <1>20, <1>23, <1>24, <1>26, <1>27, <1>28, <1>29, <1>30, <1>31, <1>32, <1>33 DEF BoardStep
<1> QED BY <1>34, <1>35, <1>36, <1>37, <1>38 DEF Next

\* TypeOK holds for any number of phones, connections, commands and replies: in particular no more
\* replies are under way than QueueCommandReply admits.
THEOREM LinkTypes == Spec => []TypeOK
BY InitTypeOK, NextTypeOK, PTL DEF Spec

-----------------------------------------------------------------------------
(* The owner *)

\* The phone of a connection that is not being terminated is the owner, once there is one.
OwnersLink == gap.up /\ ~gap.ending /\ bonds # {} => gap.peer \in bonds

LEMMA OwnersLinkStep ==
  ASSUME TypeOK, OwnersLink, [Next]_vars
  PROVE  OwnersLink' /\ (bonds # {} => bonds' \in {bonds, {}})
<1> DEFINE Goal == OwnersLink' /\ (bonds # {} => bonds' \in {bonds, {}})
<1>0. gap \in Gaps
  BY Typed
<1>1. ASSUME NEW p \in Peers, Connect(p) PROVE Goal
  <2>1. PICK roomy \in BOOLEAN :
          gap' = [id |-> gap.id + 1, peer |-> p, up |-> TRUE, secure |-> FALSE, mtu |-> "small",
                  ending |-> ~KnownOrFirstPeer(p), roomy |-> roomy]
    BY <1>1 DEF Connect
  <2>2. gap'.peer = p /\ gap'.ending = ~KnownOrFirstPeer(p) /\ bonds' = bonds
    BY <1>1, <2>1 DEF Connect
  <2> QED BY <2>2 DEF OwnersLink, KnownOrFirstPeer
<1>2. CASE Secure
  BY <1>2 DEF OwnersLink, Secure
<1>3. CASE SecureFails
  BY <1>3 DEF OwnersLink, SecureFails
<1>4. CASE Mtu
  BY <1>4 DEF OwnersLink, Mtu
<1>5. CASE Disconnect
  BY <1>5 DEF OwnersLink, Disconnect
<1>6. CASE ForgetBonds
  BY <1>6 DEF OwnersLink, ForgetBonds
<1>7. CASE ForgetConnection
  BY <1>7 DEF OwnersLink, ForgetConnection
<1>8. CASE UNCHANGED <<gap, bonds>>
  BY <1>8 DEF OwnersLink
<1>9. CASE GapStep
  BY <1>9, <1>1, <1>2, <1>3, <1>4, <1>5, <1>8
  DEF GapStep, EncChange, Subscribe
<1>10. CASE CoreStep
  BY <1>10, <1>8
  DEF CoreStep, StateUp, ResetUp, ReadyIfSubscribed, LinkReady, PublishReady, StateDown, ResetDown,
      HostChunk, HostChunkFails, HostSent
<1>11. CASE CommandStep
  BY <1>11, <1>8
  DEF CommandStep, Fetch, Claim, SendDeferredReply
<1>12. CASE BoardStep
  BY <1>12, <1>6, <1>7, <1>8
  DEF BoardStep, BrdChunk, BrdChunkFails, BrdSent, ReplyCheck, QueueReply, ManifestChanged,
      ForgetAuthorization, StopAdvertising, StopFlags, StopState, StopReset
<1> QED BY <1>8, <1>9, <1>10, <1>11, <1>12 DEF Next, vars

\* OneOwner holds for any number of phones and connections (KnownOrFirstPeer, SecurePeer,
\* agent_transport_ble_forget).
THEOREM SingleOwner == Spec => OneOwner
<1>1. Init => TypeOK /\ OwnersLink
  BY InitTypeOK DEF Init, OwnersLink
<1>2. TypeOK /\ OwnersLink /\ [Next]_vars => (TypeOK /\ OwnersLink)' /\ [bonds # {} => bonds' \in {bonds,
    {}}]_vars
  BY NextTypeOK, OwnersLinkStep
<1> QED BY <1>1, <1>2, PTL DEF Spec, OneOwner

-----------------------------------------------------------------------------
(* Deferred replies *)

\* The generation of a claimed command or a queued reply is not from the future; if it is this one,
\* this is the connection that asked.  Between two connections no reply is of this generation.
Current(r) ==
  /\ r.gen <= core.gen
  /\ r.gen = core.gen => r.conn = gap.id /\ (gap.up \/ ~HostAt("idle"))

\* Only in the middle of a disconnect is the host task busy without a connection.
HostOnLink == host.pc \notin {"idle", "down", "downreset"} => gap.up

AllCurrent ==
  /\ \A r \in requests : Current(r)
  /\ BrdAt("queue") => Current(brd.reply)
  /\ \A i \in 1..Len(replies) : Current(replies[i])

ReplyInv == TypeOK /\ HostOnLink /\ AllCurrent /\ ReplyToAsker

\* How a step moves the link: not at all, on to the next generation, or to a new connection.
Steady ==
  /\ core'.gen = core.gen /\ gap'.id = gap.id
  /\ gap.up \/ ~HostAt("idle") => gap'.up \/ ~HostAt("idle")'
Renewed == core'.gen = core.gen + 1
Opened == core' = core /\ HostAt("idle") /\ ~gap.up

LEMMA CurrentKept ==
  ASSUME NEW r, r.gen \in Nat, core.gen \in Nat, Current(r), Steady \/ Renewed \/ Opened
  PROVE  Current(r)'
<1>1. CASE Steady
  BY <1>1 DEF Steady, Current
<1>2. CASE Renewed
  BY <1>2 DEF Renewed, Current
<1>3. CASE Opened
  BY <1>3 DEF Opened, Current
<1> QED BY <1>1, <1>2, <1>3

LEMMA LinkMoves ==
  ASSUME TypeOK, HostOnLink, [Next]_vars
  PROVE  HostOnLink' /\ (Steady \/ Renewed \/ Opened)
<1> DEFINE Goal == HostOnLink' /\ (Steady \/ Renewed \/ Opened)
<1>0. gap \in Gaps /\ core \in Cores /\ host \in Hosts
  BY Typed
<1>1. ASSUME NEW p \in Peers, Connect(p) PROVE Goal
  BY <1>1 DEF Opened, Connect, HostOnLink
<1>2. CASE Secure
  BY <1>2 DEF Steady, Secure, HostOnLink
<1>3. CASE SecureFails
  BY <1>3 DEF Steady, SecureFails, HostOnLink
<1>4. CASE EncChange
  BY <1>4 DEF Steady, EncChange, HostOnLink, HostAt
<1>5. CASE StateUp
  BY <1>5 DEF Steady, StateUp, HostOnLink, HostAt
<1>6. CASE ResetUp
  BY <1>6 DEF Renewed, ResetLinkState, ResetUp, HostOnLink, HostAt
<1>7. CASE ReadyIfSubscribed
  BY <1>7 DEF Steady, ReadyIfSubscribed, HostOnLink, HostAt
<1>8. ASSUME NEW on \in BOOLEAN, Subscribe(on) PROVE Goal
  BY <1>8 DEF Steady, Subscribe, HostOnLink
<1>9. CASE Mtu
  BY <1>9 DEF Steady, Mtu, HostOnLink
<1>10. CASE LinkReady
  BY <1>10 DEF Steady, LinkReady, HostOnLink, HostAt
<1>11. CASE PublishReady
  BY <1>11 DEF Steady, PublishReady, HostOnLink, HostAt
<1>12. CASE Disconnect
  BY <1>12 DEF Steady, Disconnect, HostOnLink, HostAt, HostGoto
<1>13. CASE StateDown
  BY <1>13 DEF Steady, StateDown, HostOnLink, HostAt, HostGoto
<1>14. CASE ResetDown
  BY <1>14 DEF Renewed, ResetLinkState, ResetDown, HostOnLink, HostGoto
<1>15. CASE HostChunk
  BY <1>15 DEF Steady, HostChunk, HostOnLink, HostSends
<1>16. CASE HostChunkFails
  BY <1>16 DEF Steady, HostChunkFails, HostOnLink, AfterManifest, HostSends
<1>17. CASE HostSent
  BY <1>17 DEF Steady, HostSent, HostOnLink, AfterManifest, HostSends
<1>18. CASE BrdSent
  BY <1>18 DEF Steady, BrdSent, HostOnLink, HostAt
<1>19. CASE Fetch
  BY <1>19 DEF Steady, Fetch, HostOnLink, TakesCommands
<1>20. CASE ForgetConnection
  BY <1>20 DEF Steady, ForgetConnection, HostOnLink, HostAt
<1>21. CASE StopState
  BY <1>21 DEF Steady, StopState, HostOnLink, HostAt
<1>22. CASE StopReset
  BY <1>22 DEF Renewed, ResetLinkState, StopReset, HostOnLink
<1>23. CASE UNCHANGED <<gap, core, host>>
  BY <1>23 DEF Steady, HostOnLink, HostAt
<1>24. CASE GapStep
  BY <1>24, <1>1, <1>2, <1>3, <1>4, <1>8, <1>9, <1>12, <1>23
  DEF GapStep
<1>25. CASE CoreStep
  BY <1>25, <1>5, <1>6, <1>7, <1>10, <1>11, <1>13, <1>14, <1>15, <1>16, <1>17, <1>23
  DEF CoreStep
<1>26. CASE CommandStep
  BY <1>26, <1>19, <1>23
  DEF CommandStep, Claim, SendDeferredReply
<1>27. CASE BoardStep
  BY <1>27, <1>18, <1>20, <1>21, <1>22, <1>23
  DEF BoardStep, BrdChunk, BrdChunkFails, ReplyCheck, QueueReply, ManifestChanged, ForgetBonds,
      ForgetAuthorization, StopAdvertising, StopFlags
<1> QED BY <1>23, <1>24, <1>25, <1>26, <1>27 DEF Next, vars

LEMMA RequestsFrame == [Next]_vars => UNCHANGED requests \/ (\E id \in 1..MaxRequests : Claim(id))
    \/ (\E r \in requests : ReplyCheck(r))
<1> SUFFICES ASSUME [Next]_vars PROVE UNCHANGED requests \/ (\E id \in 1..MaxRequests : Claim(id))
    \/ (\E r \in requests : ReplyCheck(r))
  OBVIOUS
<1>1. CASE GapStep
  BY <1>1 DEF GapStep, Connect, Secure, SecureFails, EncChange, Subscribe, Mtu, Disconnect
<1>2. CASE CoreStep
  BY <1>2 DEF CoreStep, StateUp, ResetUp, ReadyIfSubscribed, LinkReady, PublishReady, StateDown, ResetDown, HostChunk,
     HostChunkFails, HostSent
<1>3. CASE CommandStep
  BY <1>3 DEF CommandStep, Fetch, SendDeferredReply
<1>4. CASE BoardStep
  BY <1>4 DEF BoardStep, BrdChunk, BrdChunkFails, BrdSent, QueueReply, ManifestChanged, ForgetBonds,
     ForgetAuthorization, ForgetConnection, StopAdvertising, StopFlags, StopState, StopReset
<1>5. CASE UNCHANGED vars
  BY <1>5 DEF vars
<1> QED BY <1>1, <1>2, <1>3, <1>4, <1>5 DEF Next

LEMMA RepliesFrame == [Next]_vars => UNCHANGED replies \/ QueueReply \/ SendDeferredReply
<1> SUFFICES ASSUME [Next]_vars PROVE UNCHANGED replies \/ QueueReply \/ SendDeferredReply
  OBVIOUS
<1>1. CASE GapStep
  BY <1>1 DEF GapStep, Connect, Secure, SecureFails, EncChange, Subscribe, Mtu, Disconnect
<1>2. CASE CoreStep
  BY <1>2 DEF CoreStep, StateUp, ResetUp, ReadyIfSubscribed, LinkReady, PublishReady, StateDown, ResetDown, HostChunk,
     HostChunkFails, HostSent
<1>3. CASE CommandStep
  BY <1>3 DEF CommandStep, Fetch, Claim
<1>4. CASE BoardStep
  BY <1>4 DEF BoardStep, BrdChunk, BrdChunkFails, BrdSent, ReplyCheck, ManifestChanged, ForgetBonds,
     ForgetAuthorization, ForgetConnection, StopAdvertising, StopFlags, StopState, StopReset
<1>5. CASE UNCHANGED vars
  BY <1>5 DEF vars
<1> QED BY <1>1, <1>2, <1>3, <1>4, <1>5 DEF Next

LEMMA AppFrame == [Next]_vars => UNCHANGED app \/ Disconnect \/ HostChunk \/ BrdChunk \/ SendDeferredReply
<1> SUFFICES ASSUME [Next]_vars PROVE UNCHANGED app \/ Disconnect \/ HostChunk \/ BrdChunk
    \/ SendDeferredReply
  OBVIOUS
<1>1. CASE GapStep
  BY <1>1 DEF GapStep, Connect, Secure, SecureFails, EncChange, Subscribe, Mtu
<1>2. CASE CoreStep
  BY <1>2 DEF CoreStep, StateUp, ResetUp, ReadyIfSubscribed, LinkReady, PublishReady, StateDown, ResetDown,
     HostChunkFails, HostSent
<1>3. CASE CommandStep
  BY <1>3 DEF CommandStep, Fetch, Claim
<1>4. CASE BoardStep
  BY <1>4 DEF BoardStep, BrdChunkFails, BrdSent, ReplyCheck, QueueReply, ManifestChanged, ForgetBonds,
     ForgetAuthorization, ForgetConnection, StopAdvertising, StopFlags, StopState, StopReset
<1>5. CASE UNCHANGED vars
  BY <1>5 DEF vars
<1> QED BY <1>1, <1>2, <1>3, <1>4, <1>5 DEF Next

LEMMA BrdFrame == [Next]_vars => UNCHANGED brd \/ BrdChunk \/ BrdChunkFails \/ BrdSent
    \/ (\E r \in requests : ReplyCheck(r)) \/ QueueReply \/ ManifestChanged \/ ForgetBonds
    \/ ForgetAuthorization \/ ForgetConnection \/ StopAdvertising \/ StopFlags \/ StopState \/ StopReset
<1> SUFFICES ASSUME [Next]_vars PROVE UNCHANGED brd \/ BrdChunk \/ BrdChunkFails \/ BrdSent
    \/ (\E r \in requests : ReplyCheck(r)) \/ QueueReply \/ ManifestChanged \/ ForgetBonds
    \/ ForgetAuthorization \/ ForgetConnection \/ StopAdvertising \/ StopFlags \/ StopState \/ StopReset
  OBVIOUS
<1>1. CASE GapStep
  BY <1>1 DEF GapStep, Connect, Secure, SecureFails, EncChange, Subscribe, Mtu, Disconnect
<1>2. CASE CoreStep
  BY <1>2 DEF CoreStep, StateUp, ResetUp, ReadyIfSubscribed, LinkReady, PublishReady, StateDown, ResetDown, HostChunk,
     HostChunkFails, HostSent
<1>3. CASE CommandStep
  BY <1>3 DEF CommandStep, Fetch, Claim, SendDeferredReply
<1>4. CASE BoardStep
  BY <1>4 DEF BoardStep
<1>5. CASE UNCHANGED vars
  BY <1>5 DEF vars
<1> QED BY <1>1, <1>2, <1>3, <1>4, <1>5 DEF Next

LEMMA GenerationTypes ==
  ASSUME TypeOK
  PROVE  /\ core.gen \in Nat /\ gap.id \in Nat
         /\ \A r \in requests : r.gen \in Nat
         /\ brd.reply.gen \in Nat
         /\ \A i \in 1..Len(replies) : replies[i] \in Replies /\ replies[i].gen \in Nat
<1>1. core.gen \in Nat /\ gap.id \in Nat
  BY Typed, LinkAssumption DEF Cores, Gaps
<1>2. \A r \in requests : r.gen \in Nat
  BY Typed DEF Requests
<1>3. brd.reply.gen \in Nat
  BY Typed DEF Brds, Replies
<1>4. \A i \in 1..Len(replies) : replies[i] \in Replies
  BY Typed
<1>5. \A r \in Replies : r.gen \in Nat
  BY DEF Replies
<1> QED BY <1>1, <1>2, <1>3, <1>4, <1>5

LEMMA RequestsCurrent ==
  ASSUME TypeOK, AllCurrent, HostOnLink, [Next]_vars
  PROVE  \A r \in requests' : Current(r)'
<1>1. \A r \in requests : Current(r)'
  BY GenerationTypes, LinkMoves, CurrentKept DEF AllCurrent
<1>2. ASSUME NEW id \in 1..MaxRequests, Claim(id) PROVE \A r \in requests' : Current(r)'
  <2>1. PICK new : /\ requests' = requests \cup {new}
                   /\ new.conn = gap.id /\ new.gen = core.gen
    <3> DEFINE n == [id |-> id, conn |-> gap.id, gen |-> core.gen, open |-> TRUE]
    <3>1. requests' = requests \cup {n}
      BY <1>2 DEF Claim
    <3>2. n.conn = gap.id /\ n.gen = core.gen
      OBVIOUS
    <3> HIDE DEF n
    <3> QED BY <3>1, <3>2
  <2>2. gap' = gap /\ core' = core /\ gap.up
    BY <1>2 DEF Claim, TakesCommands
  <2>3. Current(new)'
    BY <2>1, <2>2, GenerationTypes DEF Current
  <2> QED BY <2>1, <2>3, <1>1
<1>3. ASSUME NEW r \in requests, ReplyCheck(r) PROVE \A s \in requests' : Current(s)'
  <2> DEFINE done == [r EXCEPT !.open = FALSE]
  <2>1. requests' = (requests \ {r}) \cup {done}
    BY <1>3 DEF ReplyCheck
  <2>2. r \in Requests
    BY Typed
  <2>3. done.gen = r.gen /\ done.conn = r.conn
    BY <2>2 DEF Requests
  <2> HIDE DEF done
  <2>4. Current(done)'
    BY <1>1, <2>3 DEF Current
  <2> QED BY <2>1, <2>4, <1>1
<1> QED BY <1>1, <1>2, <1>3, RequestsFrame

LEMMA ReplyInHandCurrent ==
  ASSUME TypeOK, AllCurrent, HostOnLink, [Next]_vars
  PROVE  BrdAt("queue")' => Current(brd.reply)'
<1>0. brd \in Brds
  BY Typed
<1>1. \A x \in Replies : Current(x) => Current(x)'
  <2> TAKE x \in Replies
  <2>1. x.gen \in Nat
    BY DEF Replies
  <2> QED BY <2>1, GenerationTypes, LinkMoves, CurrentKept
<1>2. brd.reply \in Replies /\ core.gen \in Nat
  BY <1>0, GenerationTypes DEF Brds
<1>3. ASSUME BrdAt("queue"), UNCHANGED brd PROVE Current(brd.reply)'
  BY <1>1, <1>2, <1>3 DEF Current, AllCurrent
<1>4. ASSUME NEW r \in requests, ReplyCheck(r) PROVE BrdAt("queue")' => Current(brd.reply)'
  <2>1. core' = core /\ gap' = gap /\ host' = host
    BY <1>4 DEF ReplyCheck
  <2>2. Current(r) /\ r \in Requests
    BY Typed DEF AllCurrent
  <2>3. BrdAt("queue")' => brd'.reply = [conn |-> r.conn, gen |-> r.gen]
    BY <1>4 DEF ReplyCheck, BrdAt
  <2> QED BY <2>1, <2>2, <2>3 DEF Current, HostAt
<1>5. CASE UNCHANGED brd
  BY <1>3, <1>5 DEF BrdAt
<1>6. ASSUME brd'.pc # "queue" PROVE BrdAt("queue")' => Current(brd.reply)'
  BY <1>6 DEF BrdAt
<1>7. ASSUME BrdChunk PROVE brd'.pc # "queue"
  BY <1>7 DEF BrdChunk, BrdAt
<1>8. ASSUME BrdChunkFails PROVE brd'.pc # "queue"
  BY <1>8 DEF BrdChunkFails, BrdGoto
<1>9. ASSUME BrdSent PROVE brd'.pc # "queue"
  BY <1>9 DEF BrdSent, BrdGoto
<1>10. ASSUME QueueReply PROVE brd'.pc # "queue"
  BY <1>10 DEF QueueReply
<1>11. ASSUME ManifestChanged PROVE brd'.pc # "queue"
  BY <1>11 DEF ManifestChanged, Call
<1>12. ASSUME ForgetBonds PROVE brd'.pc # "queue"
  BY <1>12 DEF ForgetBonds, Call
<1>13. ASSUME ForgetAuthorization PROVE brd'.pc # "queue"
  BY <1>13 DEF ForgetAuthorization, BrdGoto
<1>14. ASSUME ForgetConnection PROVE brd'.pc # "queue"
  BY <1>14 DEF ForgetConnection
<1>15. ASSUME StopAdvertising PROVE brd'.pc # "queue"
  BY <1>15 DEF StopAdvertising, Call
<1>16. ASSUME StopFlags PROVE brd'.pc # "queue"
  BY <1>16 DEF StopFlags, BrdGoto
<1>17. ASSUME StopState PROVE brd'.pc # "queue"
  BY <1>17 DEF StopState, BrdGoto
<1>18. ASSUME StopReset PROVE brd'.pc # "queue"
  BY <1>18 DEF StopReset, BrdGoto
<1> QED BY <1>4, <1>5, <1>6, <1>7, <1>8, <1>9, <1>10, <1>11, <1>12, <1>13, <1>14, <1>15, <1>16, <1>17, <1>18, BrdFrame

LEMMA RepliesCurrent ==
  ASSUME TypeOK, AllCurrent, HostOnLink, [Next]_vars
  PROVE  \A i \in 1..Len(replies') : Current(replies[i])'
<1>0. replies \in Seq(Replies) /\ Len(replies) \in Nat /\ core.gen \in Nat /\ brd \in Brds
  BY Typed, GenerationTypes
<1>1. \A x \in Replies : Current(x) => Current(x)'
  <2> TAKE x \in Replies
  <2>1. x.gen \in Nat
    BY DEF Replies
  <2> QED BY <2>1, GenerationTypes, LinkMoves, CurrentKept
<1>2. \A i \in 1..Len(replies) : replies[i] \in Replies /\ Current(replies[i])
  BY GenerationTypes DEF AllCurrent
<1>3. CASE UNCHANGED replies
  BY <1>1, <1>2, <1>3 DEF Current
<1>4. ASSUME QueueReply PROVE \A i \in 1..Len(replies') : Current(replies[i])'
  <2>1. core' = core /\ gap' = gap /\ host' = host
    BY <1>4 DEF QueueReply
  <2>2. Current(brd.reply) /\ brd.reply \in Replies
    BY <1>0, <1>4 DEF QueueReply, AllCurrent, Brds
  <2>3. replies' = replies \/ replies' = Append(replies, brd.reply)
    BY <1>4 DEF QueueReply
  <2>4. CASE replies' = Append(replies, brd.reply)
    <3>1. \A i \in 1..Len(replies') : replies'[i] \in Replies /\ Current(replies'[i])
      BY <1>2, <2>2, <2>4
    <3> QED BY <2>1, <3>1 DEF Current, HostAt
  <2> QED BY <1>3, <2>3, <2>4
<1>5. ASSUME SendDeferredReply PROVE \A i \in 1..Len(replies') : Current(replies[i])'
  <2>1. core' = core /\ gap' = gap /\ host' = host /\ replies # <<>> /\ replies' = Tail(replies)
    BY <1>5 DEF SendDeferredReply
  <2>2. \A i \in 1..Len(replies') : Current(replies'[i])
    BY <1>2, <2>1
  <2> QED BY <2>1, <2>2 DEF Current, HostAt
<1> QED BY <1>3, <1>4, <1>5, RepliesFrame

LEMMA AnswersRight ==
  ASSUME ReplyInv, [Next]_vars
  PROVE  ReplyToAsker'
<1>0. app \in Apps
  BY Typed DEF ReplyInv
<1>1. CASE UNCHANGED app
  BY <1>1 DEF ReplyInv, ReplyToAsker
<1>2. ASSUME SendDeferredReply PROVE ReplyToAsker'
  <2> DEFINE r == Head(replies)
  <2>1. replies # <<>> /\ r = replies[1] /\ 1 \in 1..Len(replies)
    BY <1>2, Typed DEF SendDeferredReply, ReplyInv
  <2>2. Current(r)
    BY <2>1 DEF ReplyInv, AllCurrent
  <2>3. r.gen = core.gen => r.conn = gap.id
    BY <2>2 DEF Current
  <2>4. \/ app' = app
        \/ r.gen = core.gen /\ app' = [app EXCEPT !.answers = @ \cup {[asked |-> r.conn, on |-> gap.id]}]
    BY <1>2 DEF SendDeferredReply, MayAnswer
  <2> HIDE DEF r
  <2>5. CASE r.gen = core.gen /\ app' = [app EXCEPT !.answers = @ \cup {[asked |-> r.conn, on |-> gap.id]}]
    <3>1. app'.answers = app.answers \cup {[asked |-> r.conn, on |-> gap.id]}
      BY <2>5 DEF Apps
    <3> QED BY <2>3, <2>5, <3>1 DEF ReplyInv, ReplyToAsker
  <2> QED BY <1>1, <2>4, <2>5
<1>3. ASSUME app'.answers = app.answers PROVE ReplyToAsker'
  BY <1>3 DEF ReplyInv, ReplyToAsker
<1>4. ASSUME Disconnect PROVE app'.answers = app.answers
  BY <1>4 DEF Disconnect, Apps
<1>5. ASSUME NEW by, NEW idx, SendChunk(by, idx) PROVE app'.answers = app.answers
  BY <1>5 DEF SendChunk, Apps
<1>6. ASSUME HostChunk PROVE app'.answers = app.answers
  BY <1>5, <1>6 DEF HostChunk
<1>7. ASSUME BrdChunk PROVE app'.answers = app.answers
  BY <1>5, <1>7 DEF BrdChunk
<1> QED BY <1>1, <1>2, <1>3, <1>4, <1>6, <1>7, AppFrame

\* ReplyToAsker holds for any number of phones, connections, commands and replies under way
\* (agent_link_command_reply, QueueCommandReply, SendDeferredReply).
THEOREM RepliesToAsker == Spec => []ReplyToAsker
<1>1. Init => ReplyInv
  <2> SUFFICES ASSUME Init PROVE ReplyInv
    OBVIOUS
  <2>1. TypeOK
    BY InitTypeOK
  <2>2. HostOnLink /\ ReplyToAsker
    BY DEF Init, HostOnLink, ReplyToAsker
  <2>3. AllCurrent
    BY DEF Init, AllCurrent, BrdAt
  <2> QED BY <2>1, <2>2, <2>3 DEF ReplyInv
<1>2. ReplyInv /\ [Next]_vars => ReplyInv'
  <2> SUFFICES ASSUME ReplyInv, [Next]_vars PROVE ReplyInv'
    OBVIOUS
  <2>1. TypeOK'
    BY NextTypeOK DEF ReplyInv
  <2>2. HostOnLink'
    BY LinkMoves DEF ReplyInv
  <2>3. AllCurrent'
    BY RequestsCurrent, ReplyInHandCurrent, RepliesCurrent DEF ReplyInv, AllCurrent
  <2>4. ReplyToAsker'
    BY AnswersRight
  <2> QED BY <2>1, <2>2, <2>3, <2>4 DEF ReplyInv
<1>3. ReplyInv => ReplyToAsker
  BY DEF ReplyInv
<1> QED BY <1>1, <1>2, <1>3, PTL DEF Spec

-----------------------------------------------------------------------------
(* The App is served *)

\* What the board's task is in the middle of shows in what it has called.
BoardCalled ==
  /\ brd.calls = 0 => ~brd.stopped /\ brd.pc \in {"idle", "queue"}
  /\ brd.pc \in {"stopflags", "stopstate", "stopreset"} => brd.stopped

\* The flags of the transport speak of the connection there is.
FlagsOnLink ==
  /\ ble.connected = gap.up
  /\ ble.authorized => gap.up
  /\ host.pc \in {"down", "downreset"} => ~gap.up

\* From the moment the core is told that the link is up until it goes down its state is READY, and the phase follows
\* as soon as the App has subscribed.
ReadyOnLink ==
  /\ host.pc \in {"upreset", "secured", "ready", "manifest", "publish", "fetch"} => core.state = "ready"
  /\ host.pc \in {"idle", "enc"} /\ ble.authorized => core.state = "ready"
  /\ host.pc \in {"ready", "manifest", "publish", "fetch"} => ble.subscribed
  /\ host.pc \in {"idle", "enc"} /\ ble.authorized /\ ble.subscribed => core.phase = "ready"
  /\ host.pc = "fetch" => core.phase = "ready"

\* No notification failed and the App can take the manifest: it has been sent.
SentOnLink ==
  host.pc \in {"idle", "enc", "fetch", "publish"} /\ ble.authorized /\ ble.subscribed /\ MtuFits /\ faults = 0
    => core.sent

\* With the board's task out of the way the App has heard what the host task has sent.
Heard ==
  brd.calls = 0 /\ faults = 0 =>
    /\ core.sent => MtuFits /\ host.pc # "manifest"
    /\ core.sent /\ host.pc \notin {"down", "downreset"} => gap.up
    /\ core.sent /\ host.pc \notin {"fetch", "down", "downreset"} => Len(app.asm) = Chunks
    /\ host.pc = "fetch" => ble.authorized
    /\ host.pc \in {"manifest", "fetch"} /\ host.idx > 0 => MtuFits /\ Len(app.asm) = host.idx

ServedInv == BoardCalled /\ (~brd.stopped => FlagsOnLink /\ ReadyOnLink /\ SentOnLink /\ Heard)

LEMMA FaultsCount ==
  ASSUME TypeOK
  PROVE  faults \in Nat /\ (\A idx : ChunkFails(idx) /\ faults' = 0 => faults = 0 /\ ~(Fits(idx) /\ CanNotify))
BY Typed, LinkAssumption DEF ChunkFails

LEMMA ChunkHeard ==
  ASSUME TypeOK, ble.subscribed, HostChunk
  PROVE  /\ host'.pc = host.pc /\ host'.idx = host.idx + 1 /\ host.idx \in Nat
         /\ (host.idx = 0 => MtuFits) /\ ble.authorized
         /\ host.idx > 0 /\ Len(app.asm) = host.idx => Len(app'.asm) = host'.idx
         /\ host.idx = 0 => Len(app'.asm) = host'.idx
<1>1. host \in Hosts /\ app \in Apps /\ app.asm \in Seq(ChunksHeard) /\ host.idx \in Nat
  BY Typed, LinkAssumption DEF Hosts, Apps
<1>2. host'.pc = host.pc /\ host'.idx = host.idx + 1 /\ (host.idx = 0 => MtuFits) /\ ble.authorized
  BY <1>1 DEF HostChunk, SendChunk, Fits, CanNotify
<1> DEFINE chunk == [by |-> "host", idx |-> host.idx]
<1>3. app'.asm = Assembled(chunk)
  BY <1>1 DEF HostChunk, SendChunk, Apps
<1>4. chunk.idx = host.idx
  OBVIOUS
<1> HIDE DEF chunk
<1>5. CASE host.idx = 0
  BY <1>1, <1>2, <1>3, <1>4, <1>5 DEF Assembled
<1>6. CASE host.idx > 0 /\ Len(app.asm) = host.idx
  <2>1. Assembled(chunk) = Append(app.asm, chunk)
    BY <1>1, <1>4, <1>6 DEF Assembled
  <2> QED BY <1>1, <1>2, <1>3, <1>6, <2>1
<1> QED BY <1>1, <1>2, <1>5, <1>6

LEMMA BoardCalledStep ==
  ASSUME TypeOK, BoardCalled, [Next]_vars
  PROVE  BoardCalled'
<1> DEFINE Goal == BoardCalled'
<1>0. brd \in Brds
  BY Typed
<1>1. CASE BrdChunk
  BY <1>1 DEF BoardCalled, BrdChunk
<1>2. CASE BrdChunkFails
  BY <1>2 DEF BoardCalled, BrdChunkFails, BrdGoto
<1>3. CASE BrdSent
  BY <1>3 DEF BoardCalled, BrdSent, BrdGoto
<1>4. ASSUME NEW r \in requests, ReplyCheck(r) PROVE Goal
  BY <1>4 DEF BoardCalled, ReplyCheck
<1>5. CASE QueueReply
  BY <1>5 DEF BoardCalled, QueueReply
<1>6. CASE ManifestChanged
  BY <1>0, <1>6 DEF BoardCalled, ManifestChanged, Call, Brds
<1>7. CASE ForgetBonds
  BY <1>0, <1>7 DEF BoardCalled, ForgetBonds, Call, Brds
<1>8. CASE ForgetAuthorization
  BY <1>8 DEF BoardCalled, ForgetAuthorization, BrdAt, BrdGoto
<1>9. CASE ForgetConnection
  BY <1>9 DEF BoardCalled, ForgetConnection
<1>10. CASE StopAdvertising
  <2>1. brd.calls \in Nat /\ brd.calls + 1 # 0
    BY <1>0, LinkAssumption DEF Brds
  <2>2. brd'.calls = brd.calls + 1 /\ brd'.stopped /\ brd'.pc = "stopflags"
    BY <1>0, <1>10 DEF StopAdvertising, Call, Brds
  <2> QED BY <2>1, <2>2 DEF BoardCalled
<1>11. CASE StopFlags
  BY <1>11 DEF BoardCalled, StopFlags, BrdAt, BrdGoto
<1>12. CASE StopState
  BY <1>12 DEF BoardCalled, StopState, BrdAt, BrdGoto
<1>13. CASE StopReset
  BY <1>13 DEF BoardCalled, StopReset, BrdGoto, ResetLinkState
<1>14. CASE UNCHANGED <<brd>>
  BY <1>14 DEF BoardCalled
<1>15. CASE GapStep
  BY <1>15, <1>14 DEF GapStep, Connect, Secure, SecureFails, EncChange, Subscribe, Mtu, Disconnect
<1>16. CASE CoreStep
  BY <1>16, <1>14 DEF CoreStep, StateUp, ResetUp, ReadyIfSubscribed, LinkReady, PublishReady, StateDown, ResetDown,
     HostChunk, HostChunkFails, HostSent
<1>17. CASE CommandStep
  BY <1>17, <1>14 DEF CommandStep, Fetch, Claim, SendDeferredReply
<1>18. CASE BoardStep
  BY <1>18, <1>4, <1>5, <1>6, <1>1, <1>2, <1>3, <1>7, <1>8, <1>9, <1>10, <1>11, <1>12, <1>13 DEF BoardStep
<1> QED BY <1>14, <1>15, <1>16, <1>17, <1>18 DEF Next, vars

LEMMA FlagsOnLinkStep ==
  ASSUME TypeOK, HostOnLink, ServedInv, [Next]_vars
  PROVE  ~brd'.stopped => FlagsOnLink'
<1> DEFINE Goal == ~brd'.stopped => FlagsOnLink'
<1>0. gap \in Gaps /\ ble \in Flags /\ host \in Hosts /\ brd \in Brds
  BY Typed
<1>1. ASSUME NEW p \in Peers, Connect(p) PROVE Goal
  BY <1>1 DEF FlagsOnLink, Connect, HostAt
<1>2. CASE Secure
  BY <1>0, <1>2 DEF FlagsOnLink, ServedInv, Secure, HostGoto, Gaps, Hosts
<1>3. CASE SecureFails
  BY <1>0, <1>3 DEF FlagsOnLink, ServedInv, SecureFails, Gaps, Flags
<1>4. CASE EncChange
  BY <1>4 DEF FlagsOnLink, HostOnLink, ServedInv, EncChange, HostAt, HostGoto
<1>5. CASE StateUp
  BY <1>5 DEF FlagsOnLink, ServedInv, StateUp, HostGoto
<1>6. CASE ResetUp
  BY <1>6 DEF FlagsOnLink, ServedInv, ResetUp, HostGoto, ResetLinkState
<1>7. CASE ReadyIfSubscribed
  BY <1>7 DEF FlagsOnLink, ServedInv, ReadyIfSubscribed, HostGoto
<1>8. ASSUME NEW on \in BOOLEAN, Subscribe(on) PROVE Goal
  BY <1>0, <1>8 DEF FlagsOnLink, ServedInv, Subscribe, HostGoto, Flags, Hosts
<1>9. CASE Mtu
  BY <1>0, <1>9 DEF FlagsOnLink, ServedInv, Mtu, HostGoto, Gaps, Hosts
<1>10. CASE LinkReady
  BY <1>10 DEF FlagsOnLink, ServedInv, LinkReady
<1>11. CASE PublishReady
  BY <1>11 DEF FlagsOnLink, ServedInv, PublishReady, HostGoto
<1>12. CASE Disconnect
  BY <1>12 DEF FlagsOnLink, Disconnect
<1>13. CASE StateDown
  BY <1>13 DEF FlagsOnLink, ServedInv, StateDown, HostAt
<1>14. CASE ResetDown
  BY <1>14 DEF FlagsOnLink, ServedInv, ResetDown, HostGoto, ResetLinkState
<1>15. CASE HostChunk
  BY <1>15 DEF FlagsOnLink, ServedInv, HostChunk
<1>16. CASE HostChunkFails
  BY <1>16 DEF FlagsOnLink, ServedInv, HostChunkFails, HostGoto, HostSends, AfterManifest
<1>17. CASE HostSent
  BY <1>17 DEF FlagsOnLink, ServedInv, HostSent, HostGoto, HostSends, AfterManifest
<1>18. CASE BrdChunk
  BY <1>18 DEF FlagsOnLink, ServedInv, BrdChunk
<1>19. CASE BrdChunkFails
  BY <1>19 DEF FlagsOnLink, ServedInv, BrdChunkFails, BrdGoto
<1>20. CASE BrdSent
  BY <1>20 DEF FlagsOnLink, ServedInv, BrdSent, BrdGoto
<1>21. CASE Fetch
  BY <1>21 DEF FlagsOnLink, ServedInv, Fetch, TakesCommands
<1>22. ASSUME NEW r \in requests, ReplyCheck(r) PROVE Goal
  BY <1>22 DEF FlagsOnLink, ServedInv, ReplyCheck
<1>23. CASE QueueReply
  BY <1>23 DEF FlagsOnLink, ServedInv, QueueReply
<1>24. CASE ManifestChanged
  BY <1>0, <1>24 DEF FlagsOnLink, ServedInv, ManifestChanged, Call, Brds
<1>25. CASE ForgetBonds
  BY <1>0, <1>25 DEF FlagsOnLink, ServedInv, ForgetBonds, Call, Brds
<1>26. CASE ForgetAuthorization
  BY <1>26 DEF FlagsOnLink, ServedInv, ForgetAuthorization, BrdGoto
<1>27. CASE ForgetConnection
  BY <1>27 DEF FlagsOnLink, ServedInv, ForgetConnection
<1>28. CASE StopAdvertising
  BY <1>0, <1>28 DEF StopAdvertising, Call, Brds
<1>29. CASE StopFlags
  BY <1>29 DEF ServedInv, BoardCalled, StopFlags, BrdAt, BrdGoto
<1>30. CASE StopState
  BY <1>30 DEF ServedInv, BoardCalled, StopState, BrdAt, BrdGoto
<1>31. CASE StopReset
  BY <1>31 DEF ServedInv, BoardCalled, StopReset, BrdAt, BrdGoto, ResetLinkState
<1>32. CASE UNCHANGED <<gap, ble, host, brd>>
  BY <1>32 DEF FlagsOnLink, ServedInv
<1>33. CASE GapStep
  BY <1>33, <1>1, <1>2, <1>3, <1>4, <1>8, <1>9, <1>12 DEF GapStep
<1>34. CASE CoreStep
  BY <1>34, <1>5, <1>6, <1>7, <1>10, <1>11, <1>13, <1>14, <1>15, <1>16, <1>17 DEF CoreStep
<1>35. CASE CommandStep
  BY <1>35, <1>21, <1>32 DEF CommandStep, Claim, SendDeferredReply
<1>36. CASE BoardStep
  BY <1>36, <1>22, <1>23, <1>24, <1>18, <1>19, <1>20, <1>25, <1>26, <1>27, <1>28, <1>29, <1>30, <1>31 DEF BoardStep
<1> QED BY <1>32, <1>33, <1>34, <1>35, <1>36 DEF Next, vars

LEMMA ReadyOnLinkStep ==
  ASSUME TypeOK, HostOnLink, ServedInv, [Next]_vars
  PROVE  ~brd'.stopped => ReadyOnLink'
<1> DEFINE Goal == ~brd'.stopped => ReadyOnLink'
<1>0. ble \in Flags /\ core \in Cores /\ host \in Hosts /\ brd \in Brds
  BY Typed
<1>1. ASSUME NEW p \in Peers, Connect(p) PROVE Goal
  BY <1>1 DEF ReadyOnLink, Connect, HostAt
<1>2. CASE Secure
  BY <1>2 DEF ReadyOnLink, ServedInv, Secure, HostAt, HostGoto
<1>3. CASE SecureFails
  BY <1>3 DEF ReadyOnLink, SecureFails, HostAt
<1>4. CASE EncChange
  BY <1>4 DEF ReadyOnLink, ServedInv, EncChange, HostAt, HostGoto
<1>5. CASE StateUp
  BY <1>5 DEF ReadyOnLink, StateUp, HostGoto
<1>6. CASE ResetUp
  BY <1>6 DEF ReadyOnLink, ServedInv, ResetUp, HostAt, HostGoto, ResetLinkState
<1>7. CASE ReadyIfSubscribed
  BY <1>7 DEF ReadyOnLink, ServedInv, ReadyIfSubscribed, HostAt, HostGoto
<1>8. ASSUME NEW on \in BOOLEAN, Subscribe(on) PROVE Goal
  BY <1>8 DEF ReadyOnLink, ServedInv, Subscribe, HostAt, HostGoto
<1>9. CASE Mtu
  BY <1>9 DEF ReadyOnLink, ServedInv, Mtu, HostAt, HostGoto
<1>10. CASE LinkReady
  BY <1>10 DEF ReadyOnLink, ServedInv, LinkReady, HostAt
<1>11. CASE PublishReady
  BY <1>11 DEF ReadyOnLink, ServedInv, PublishReady, HostAt
<1>12. CASE Disconnect
  BY <1>12 DEF ReadyOnLink, Disconnect, HostGoto
<1>13. CASE StateDown
  BY <1>13 DEF ReadyOnLink, StateDown, HostGoto
<1>14. CASE ResetDown
  BY <1>14 DEF FlagsOnLink, ReadyOnLink, ServedInv, ResetDown, HostAt, HostGoto, ResetLinkState
<1>15. CASE HostChunk
  BY <1>15 DEF ReadyOnLink, ServedInv, HostChunk
<1>16. CASE HostChunkFails
  BY <1>16 DEF ReadyOnLink, ServedInv, HostChunkFails, HostAt, HostGoto, HostSends, AfterManifest
<1>17. CASE HostSent
  BY <1>17 DEF ReadyOnLink, ServedInv, HostSent, HostAt, HostGoto, HostSends, AfterManifest
<1>18. CASE BrdChunk
  BY <1>18 DEF ReadyOnLink, ServedInv, BrdChunk
<1>19. CASE BrdChunkFails
  BY <1>19 DEF ReadyOnLink, ServedInv, BrdChunkFails, BrdGoto
<1>20. CASE BrdSent
  BY <1>20 DEF ReadyOnLink, ServedInv, BrdSent, BrdGoto
<1>21. CASE Fetch
  BY <1>21 DEF ReadyOnLink, ServedInv, Fetch, HostAt, TakesCommands
<1>22. ASSUME NEW r \in requests, ReplyCheck(r) PROVE Goal
  BY <1>22 DEF ReadyOnLink, ServedInv, ReplyCheck
<1>23. CASE QueueReply
  BY <1>23 DEF ReadyOnLink, ServedInv, QueueReply
<1>24. CASE ManifestChanged
  BY <1>0, <1>24 DEF ReadyOnLink, ServedInv, ManifestChanged, Call, Brds
<1>25. CASE ForgetBonds
  BY <1>0, <1>25 DEF ReadyOnLink, ServedInv, ForgetBonds, Call, Brds
<1>26. CASE ForgetAuthorization
  BY <1>26 DEF ReadyOnLink, ServedInv, ForgetAuthorization, BrdGoto
<1>27. CASE ForgetConnection
  BY <1>27 DEF ReadyOnLink, ServedInv, ForgetConnection
<1>28. CASE StopAdvertising
  BY <1>0, <1>28 DEF StopAdvertising, Call, Brds
<1>29. CASE StopFlags
  BY <1>29 DEF ServedInv, BoardCalled, StopFlags, BrdAt, BrdGoto
<1>30. CASE StopState
  BY <1>30 DEF ServedInv, BoardCalled, StopState, BrdAt, BrdGoto
<1>31. CASE StopReset
  BY <1>31 DEF ServedInv, BoardCalled, StopReset, BrdAt, BrdGoto, ResetLinkState
<1>32. CASE UNCHANGED <<ble, core, host, brd>>
  BY <1>32 DEF ReadyOnLink, ServedInv
<1>33. CASE GapStep
  BY <1>33, <1>1, <1>2, <1>3, <1>4, <1>8, <1>9, <1>12 DEF GapStep
<1>34. CASE CoreStep
  BY <1>34, <1>5, <1>6, <1>7, <1>10, <1>11, <1>13, <1>14, <1>15, <1>16, <1>17 DEF CoreStep
<1>35. CASE CommandStep
  BY <1>35, <1>21, <1>32 DEF CommandStep, Claim, SendDeferredReply
<1>36. CASE BoardStep
  BY <1>36, <1>22, <1>23, <1>24, <1>18, <1>19, <1>20, <1>25, <1>26, <1>27, <1>28, <1>29, <1>30, <1>31 DEF BoardStep
<1> QED BY <1>32, <1>33, <1>34, <1>35, <1>36 DEF Next, vars

LEMMA SentOnLinkStep ==
  ASSUME TypeOK, HostOnLink, ServedInv, [Next]_vars
  PROVE  ~brd'.stopped => SentOnLink'
<1> DEFINE Goal == ~brd'.stopped => SentOnLink'
<1> USE DEF MtuFits
<1>0. gap \in Gaps /\ ble \in Flags /\ core \in Cores /\ host \in Hosts /\ brd \in Brds
  BY Typed
<1>1. ASSUME NEW p \in Peers, Connect(p) PROVE Goal
  BY <1>1 DEF SentOnLink, Connect
<1>2. CASE Secure
  BY <1>2 DEF SentOnLink, ServedInv, Secure, HostAt
<1>3. CASE SecureFails
  BY <1>3 DEF SentOnLink, SecureFails
<1>4. CASE EncChange
  BY <1>4 DEF SentOnLink, ServedInv, EncChange, HostAt, HostGoto
<1>5. CASE StateUp
  BY <1>5 DEF SentOnLink, StateUp, HostGoto
<1>6. CASE ResetUp
  BY <1>6 DEF SentOnLink, ResetUp, HostGoto, ResetLinkState
<1>7. CASE ReadyIfSubscribed
  BY <1>7 DEF SentOnLink, ReadyIfSubscribed, HostGoto
<1>8. ASSUME NEW on \in BOOLEAN, Subscribe(on) PROVE Goal
  BY <1>8 DEF SentOnLink, Subscribe, HostGoto
<1>9. CASE Mtu
  BY <1>9 DEF SentOnLink, Mtu, HostGoto
<1>10. CASE LinkReady
  BY <1>10 DEF SentOnLink, LinkReady
<1>11. CASE PublishReady
  BY <1>11 DEF SentOnLink, ServedInv, PublishReady, HostAt
<1>12. CASE Disconnect
  BY <1>12 DEF SentOnLink, Disconnect
<1>13. CASE StateDown
  BY <1>13 DEF SentOnLink, StateDown, HostGoto
<1>14. CASE ResetDown
  BY <1>14 DEF SentOnLink, FlagsOnLink, ServedInv, ResetDown, HostAt, ResetLinkState
<1>15. CASE HostChunk
  BY <1>15 DEF SentOnLink, ServedInv, HostChunk
<1>16. CASE HostChunkFails
  <2>1. faults' = 0 => faults = 0 /\ ~(Fits(host.idx) /\ CanNotify)
    BY <1>16, FaultsCount DEF HostChunkFails
  <2>2. host'.pc = AfterManifest /\ host.pc \in {"manifest", "fetch"} /\ gap' = gap /\ ble' = ble /\ brd' = brd
    BY <1>16 DEF HostChunkFails, HostGoto, HostSends
  <2>3. ~brd.stopped => ble.connected = gap.up /\ gap.up
    BY <2>2 DEF ServedInv, FlagsOnLink, HostOnLink
  <2> QED BY <2>1, <2>2, <2>3 DEF SentOnLink, Fits, CanNotify
<1>17. CASE HostSent
  BY <1>17 DEF SentOnLink, HostSent
<1>18. CASE BrdChunk
  BY <1>18 DEF SentOnLink, ServedInv, BrdChunk
<1>19. CASE BrdChunkFails
  <2>1. faults' = 0 => faults = 0
    BY <1>19, FaultsCount DEF BrdChunkFails
  <2>2. brd'.stopped = brd.stopped
    BY <1>19 DEF BrdChunkFails, BrdGoto
  <2> QED BY <1>19, <2>1, <2>2 DEF ServedInv, SentOnLink, BrdChunkFails
<1>20. CASE BrdSent
  BY <1>20 DEF SentOnLink, BrdSent
<1>21. CASE Fetch
  BY <1>21 DEF SentOnLink, ServedInv, Fetch, HostAt, TakesCommands
<1>22. ASSUME NEW r \in requests, ReplyCheck(r) PROVE Goal
  BY <1>22 DEF SentOnLink, ServedInv, ReplyCheck
<1>23. CASE QueueReply
  BY <1>23 DEF SentOnLink, ServedInv, QueueReply
<1>24. CASE ManifestChanged
  BY <1>0, <1>24 DEF SentOnLink, ServedInv, ManifestChanged, Call, Brds
<1>25. CASE ForgetBonds
  BY <1>0, <1>25 DEF SentOnLink, ServedInv, ForgetBonds, Call, Brds
<1>26. CASE ForgetAuthorization
  BY <1>26 DEF SentOnLink, ForgetAuthorization
<1>27. CASE ForgetConnection
  BY <1>27 DEF SentOnLink, ServedInv, ForgetConnection
<1>28. CASE StopAdvertising
  BY <1>0, <1>28 DEF StopAdvertising, Call, Brds
<1>29. CASE StopFlags
  BY <1>29 DEF ServedInv, BoardCalled, StopFlags, BrdAt, BrdGoto
<1>30. CASE StopState
  BY <1>30 DEF ServedInv, BoardCalled, StopState, BrdAt, BrdGoto
<1>31. CASE StopReset
  BY <1>31 DEF ServedInv, BoardCalled, StopReset, BrdAt, BrdGoto, ResetLinkState
<1>32. CASE UNCHANGED <<gap, ble, core, host, faults, brd>>
  BY <1>32 DEF SentOnLink, ServedInv
<1>33. CASE GapStep
  BY <1>33, <1>1, <1>2, <1>3, <1>4, <1>8, <1>9, <1>12 DEF GapStep
<1>34. CASE CoreStep
  BY <1>34, <1>5, <1>6, <1>7, <1>10, <1>11, <1>13, <1>14, <1>15, <1>16, <1>17 DEF CoreStep
<1>35. CASE CommandStep
  BY <1>35, <1>21, <1>32 DEF CommandStep, Claim, SendDeferredReply
<1>36. CASE BoardStep
  BY <1>36, <1>22, <1>23, <1>24, <1>18, <1>19, <1>20, <1>25, <1>26, <1>27, <1>28, <1>29, <1>30, <1>31 DEF BoardStep
<1> QED BY <1>32, <1>33, <1>34, <1>35, <1>36 DEF Next, vars

LEMMA HeardStep ==
  ASSUME TypeOK, HostOnLink, ServedInv, [Next]_vars
  PROVE  ~brd'.stopped => Heard'
<1> DEFINE Goal == ~brd'.stopped => Heard'
<1> USE DEF MtuFits
<1>0. gap \in Gaps /\ ble \in Flags /\ core \in Cores /\ host \in Hosts /\ brd \in Brds /\ app \in Apps
  BY Typed
<1>1. ASSUME NEW p \in Peers, Connect(p) PROVE Goal
  BY <1>1 DEF Heard, ServedInv, Connect, HostAt
<1>2. CASE Secure
  BY <1>2 DEF Heard, ServedInv, Secure, HostAt, HostGoto
<1>3. CASE SecureFails
  BY <1>3 DEF Heard, ServedInv, SecureFails, HostAt
<1>4. CASE EncChange
  BY <1>4 DEF Heard, ServedInv, EncChange, HostAt, HostGoto
<1>5. CASE StateUp
  BY <1>5 DEF Heard, ServedInv, StateUp, HostAt, HostGoto
<1>6. CASE ResetUp
  BY <1>6 DEF Heard, ResetUp, HostGoto, ResetLinkState
<1>7. CASE ReadyIfSubscribed
  BY <1>7 DEF Heard, ServedInv, ReadyIfSubscribed, HostAt, HostGoto
<1>8. ASSUME NEW on \in BOOLEAN, Subscribe(on) PROVE Goal
  BY <1>8 DEF Heard, ServedInv, Subscribe, HostAt, HostGoto
<1>9. CASE Mtu
  <2>1. gap'.mtu = "large" /\ gap'.up = gap.up /\ host.pc = "idle" /\ host'.pc \in {"idle", "ready"}
    BY <1>0, <1>9 DEF Mtu, HostAt, HostGoto, Gaps, Hosts
  <2>2. UNCHANGED <<ble, core, brd, app, faults>>
    BY <1>9 DEF Mtu
  <2> QED BY <2>1, <2>2 DEF Heard, ServedInv
<1>10. CASE LinkReady
  BY <1>10 DEF Heard, ServedInv, LinkReady, HostAt
<1>11. CASE PublishReady
  BY <1>11 DEF Heard, ServedInv, PublishReady, HostAt, HostGoto
<1>12. CASE Disconnect
  BY <1>12 DEF Heard, ServedInv, Disconnect, HostGoto, Apps
<1>13. CASE StateDown
  BY <1>13 DEF Heard, ServedInv, StateDown, HostGoto
<1>14. CASE ResetDown
  BY <1>14 DEF Heard, ResetDown, HostGoto, ResetLinkState
<1>15. CASE HostChunk
  <2>1. ASSUME ~brd.stopped, brd.calls = 0, faults = 0 PROVE Heard'
    <3>1. host.pc \in {"manifest", "fetch"} /\ ble.subscribed
      BY <1>15, <2>1 DEF HostChunk, HostSends, ServedInv, ReadyOnLink
    <3> QED BY <1>15, <2>1, <3>1, ChunkHeard DEF HostChunk, ServedInv, Heard
  <2> QED BY <1>15, <2>1 DEF HostChunk, Heard
<1>16. CASE HostChunkFails
  <2>1. ASSUME ~brd.stopped, brd.calls = 0, faults' = 0 PROVE Heard'
    <3>1. faults = 0 /\ ~(Fits(host.idx) /\ CanNotify)
      BY <1>16, <2>1, FaultsCount DEF HostChunkFails
    <3>2. host'.pc = AfterManifest /\ host.pc \in {"manifest", "fetch"}
      BY <1>16 DEF HostChunkFails, HostGoto, HostSends
    <3>3. ble.connected /\ (host.pc = "fetch" => ble.authorized)
      BY <2>1, <3>1, <3>2 DEF ServedInv, Heard, FlagsOnLink, HostOnLink
    <3>4. ~core.sent
      BY <2>1, <3>1, <3>2, <3>3 DEF ServedInv, Heard, Fits, CanNotify
    <3> QED BY <1>16, <3>2, <3>4 DEF Heard, HostChunkFails, AfterManifest
  <2> QED BY <1>16, <2>1 DEF HostChunkFails, Heard
<1>17. CASE HostSent
  <2>1. ASSUME ~brd.stopped, brd.calls = 0, faults = 0 PROVE Heard'
    <3>1. host.pc \in {"manifest", "fetch"} /\ host.idx = Chunks /\ host.idx > 0
      BY <1>17, LinkAssumption DEF HostSent, HostSends
    <3>2. MtuFits /\ Len(app.asm) = Chunks /\ gap.up
      BY <2>1, <3>1 DEF ServedInv, Heard, HostOnLink
    <3>3. host'.pc \in {"publish", "idle"} /\ UNCHANGED <<gap, app>>
      BY <1>17 DEF HostSent, HostGoto, AfterManifest
    <3> QED BY <3>2, <3>3 DEF Heard
  <2> QED BY <1>17, <2>1 DEF HostSent, Heard
<1>18. CASE BrdChunk
  BY <1>18 DEF Heard, ServedInv, BoardCalled, BrdChunk, BrdAt, Apps
<1>19. CASE BrdChunkFails
  BY <1>19 DEF Heard, ServedInv, BoardCalled, BrdChunkFails, BrdAt, BrdGoto
<1>20. CASE BrdSent
  BY <1>20 DEF Heard, ServedInv, BoardCalled, BrdSent, BrdAt, BrdGoto
<1>21. CASE Fetch
  <2>1. host'.pc = "fetch" /\ host'.idx = 0 /\ ble.authorized /\ host.pc = "idle"
    BY <1>21 DEF Fetch, TakesCommands, HostAt
  <2> QED BY <1>21, <2>1 DEF ServedInv, Heard, Fetch
<1>22. ASSUME NEW r \in requests, ReplyCheck(r) PROVE Goal
  BY <1>22 DEF Heard, ServedInv, ReplyCheck
<1>23. CASE QueueReply
  BY <1>23 DEF Heard, ServedInv, QueueReply
<1>24. CASE SendDeferredReply
  BY <1>24 DEF Heard, ServedInv, SendDeferredReply, MayAnswer, Apps
<1>25. CASE ManifestChanged
  BY <1>0, <1>25 DEF Heard, ManifestChanged, Call, Brds
<1>26. CASE ForgetBonds
  BY <1>0, <1>26 DEF Heard, ForgetBonds, Call, Brds
<1>27. CASE ForgetAuthorization
  BY <1>27 DEF Heard, ServedInv, BoardCalled, ForgetAuthorization, BrdAt, BrdGoto
<1>28. CASE ForgetConnection
  BY <1>28 DEF Heard, ServedInv, ForgetConnection
<1>29. CASE StopAdvertising
  BY <1>0, <1>29 DEF StopAdvertising, Call, Brds
<1>30. CASE StopFlags
  BY <1>30 DEF ServedInv, BoardCalled, StopFlags, BrdAt, BrdGoto
<1>31. CASE StopState
  BY <1>31 DEF Heard, ServedInv, StopState, BrdGoto
<1>32. CASE StopReset
  BY <1>32 DEF Heard, ServedInv, StopReset, BrdGoto, ResetLinkState
<1>33. CASE UNCHANGED <<gap, ble, core, host, brd, app, faults>>
  BY <1>33 DEF Heard, ServedInv
<1>34. CASE GapStep
  BY <1>34, <1>1, <1>2, <1>3, <1>4, <1>8, <1>9, <1>12 DEF GapStep
<1>35. CASE CoreStep
  BY <1>35, <1>5, <1>6, <1>7, <1>10, <1>11, <1>13, <1>14, <1>15, <1>16, <1>17 DEF CoreStep
<1>36. CASE CommandStep
  BY <1>36, <1>21, <1>24, <1>33 DEF CommandStep, Claim
<1>37. CASE BoardStep
  BY <1>37, <1>22, <1>23, <1>25, <1>18, <1>19, <1>20, <1>26, <1>27, <1>28, <1>29, <1>30, <1>31, <1>32 DEF BoardStep
<1> QED BY <1>33, <1>34, <1>35, <1>36, <1>37 DEF Next, vars

\* Once the App has encrypted the link, subscribed and exchanged the MTU, in any order, the core knows that the link is
\* ready and has sent the manifest, and the App has heard it, but for failed notifications and what the board pushed:
\* for any number of phones, connections, manifest chunks and calls (OnLinkReady, SetLinkState, SendManifest).
THEOREM AppIsServed == Spec => []AppServed
<1> DEFINE Inv == TypeOK /\ HostOnLink /\ ServedInv
<1>1. Init => Inv
  <2> SUFFICES ASSUME Init PROVE Inv
    OBVIOUS
  <2>1. TypeOK
    BY InitTypeOK
  <2>2. HostOnLink /\ BoardCalled
    BY DEF Init, HostOnLink, BoardCalled
  <2>3. FlagsOnLink /\ ReadyOnLink /\ SentOnLink /\ Heard
    BY DEF Init, FlagsOnLink, ReadyOnLink, SentOnLink, Heard
  <2> QED BY <2>1, <2>2, <2>3 DEF ServedInv
<1>2. Inv /\ [Next]_vars => Inv'
  <2> SUFFICES ASSUME Inv, [Next]_vars PROVE Inv'
    OBVIOUS
  <2>1. TypeOK' /\ HostOnLink'
    BY NextTypeOK, LinkMoves
  <2>2. BoardCalled'
    BY BoardCalledStep DEF ServedInv
  <2>3. ~brd'.stopped => FlagsOnLink' /\ ReadyOnLink' /\ SentOnLink' /\ Heard'
    BY FlagsOnLinkStep, ReadyOnLinkStep, SentOnLinkStep, HeardStep
  <2> QED BY <2>1, <2>2, <2>3 DEF ServedInv
<1>3. Inv => AppServed
  BY DEF ServedInv, ReadyOnLink, SentOnLink, Heard, AppServed, HostAt
<1> QED BY <1>1, <1>2, <1>3, PTL DEF Spec

=============================================================================
