------------------------- MODULE CloudSessionProofs -------------------------
(***************************************************************************)
(* Proofs about CloudSession, for every bound on events.                   *)
(*                                                                         *)
(* TypeOK is inductive by itself.  PauseMeansQuiet and RefusalIsCurrent    *)
(* follow from LeaseInv and RefusalInv: where the session task must be     *)
(* while a pause holds, and whose refusal may be waiting.  RevokedKeyRests *)
(* follows from KeysInv: a key the platform reported revoked is still held *)
(* only while the reply that said so waits to be handled, and stored after *)
(* that only if erasing it failed.                                         *)
(***************************************************************************)
EXTENDS CloudSession, TLAPS

\* What a step of the session task leaves alone, spelled out.
LEMMA LinkSame ==
  ASSUME UNCHANGED link
  PROVE  /\ run' = run /\ alive' = alive /\ pause' = pause /\ app' = app /\ nvs' = nvs
         /\ unerased' = unerased /\ wiping' = wiping /\ net' = net /\ plat' = plat /\ events' = events
BY DEF link

\* What a step of another task of the device leaves alone, spelled out.
LEMMA OthersSame ==
  ASSUME UNCHANGED Others
  PROVE  /\ ses' = ses /\ alive' = alive /\ key' = key /\ token' = token /\ client' = client
         /\ refused' = refused /\ net' = net /\ status' = status /\ plat' = plat /\ reply' = reply
BY DEF Others

\* What a step of the network, the platform or the console leaves alone, spelled out.
LEMMA DeviceSame ==
  ASSUME UNCHANGED Device
  PROVE  /\ ses' = ses /\ run' = run /\ alive' = alive /\ pause' = pause /\ app' = app /\ key' = key
         /\ nvs' = nvs /\ unerased' = unerased /\ wiping' = wiping /\ token' = token /\ client' = client
         /\ refused' = refused /\ status' = status
BY DEF Device

\* An event counts towards the bound and never past it.
LEMMA EventType ==
  ASSUME events \in 0..MaxEvents, Event
  PROVE  events' \in 0..MaxEvents
BY SessionAssumption DEF Event

\* Erasing the stored key, with success or without.
LEMMA EraseType ==
  ASSUME TypeOK, EraseKey
  PROVE  /\ nvs' \in Nat /\ unerased' \in BOOLEAN /\ events' \in 0..MaxEvents
         /\ nvs' = 0 \/ (nvs' = nvs /\ unerased')
<1>1. nvs \in Nat /\ events \in 0..MaxEvents
  BY DEF TypeOK
<1>2. CASE nvs' = 0 /\ unerased' = FALSE /\ UNCHANGED events
  BY <1>1, <1>2
<1>3. CASE nvs' = nvs /\ unerased' = TRUE /\ Event
  BY <1>1, <1>3, EventType
<1> QED BY <1>2, <1>3 DEF EraseKey

\* A reply that is handled may clear the key or keep it.
LEMMA KeyType ==
  ASSUME TypeOK, KeepKey \/ ClearKey
  PROVE  key' \in Nat /\ nvs' \in Nat /\ unerased' \in BOOLEAN /\ events' \in 0..MaxEvents
BY EraseType DEF TypeOK, KeepKey, ClearKey

\* The session task moves without touching the key it sent or the pause it read.
LEMMA GotoType ==
  ASSUME ses \in Sessions, NEW pc \in Pcs, Goto(pc)
  PROVE  ses' \in Sessions /\ ses'.pc = pc /\ ses'.sent = ses.sent /\ ses'.seen = ses.seen
BY DEF Sessions, Goto

\* A request carries the key held when it is sent, and has no reply yet.
LEMMA SendType ==
  ASSUME ses \in Sessions, key \in Nat, NEW pc \in Pcs, Send(pc)
  PROVE  /\ ses' \in Sessions /\ ses'.pc = pc /\ ses'.sent = key /\ ses'.seen = ses.seen
         /\ reply' = Pending /\ Pending \in Replies
BY DEF Sessions, Send, Pending, Replies

\* The absent token is one of the tokens.
LEMMA NoTokenType == NoToken \in Tokens
BY DEF NoToken, Tokens

\* Setting the flags of the token, and dropping it, keep it well typed.
LEMMA TokenFlags ==
  ASSUME token \in TokenStates, NEW b \in BOOLEAN, NEW c \in BOOLEAN
  PROVE  /\ [token EXCEPT !.ok = b] \in TokenStates /\ [token EXCEPT !.cool = b] \in TokenStates
         /\ [token EXCEPT !.ok = b, !.cool = c] \in TokenStates
         /\ [token EXCEPT !.ok = b, !.tok = NoToken] \in TokenStates
         /\ [ok |-> b, tok |-> NoToken, cool |-> c] \in TokenStates
BY NoTokenType DEF TokenStates

\* The numbers of a pause are naturals.
LEMMA PauseTyped ==
  ASSUME pause \in Pauses
  PROVE  pause.req \in Nat /\ pause.ack \in Nat /\ pause.gen \in Nat /\ pause.gen + 1 \in Nat
BY DEF Pauses

\* Every way the code sets the numbers of a pause keeps it well typed.
LEMMA PauseFields ==
  ASSUME pause \in Pauses, NEW n \in Nat
  PROVE  /\ [pause EXCEPT !.req = n] \in Pauses /\ [pause EXCEPT !.ack = n] \in Pauses
         /\ [pause EXCEPT !.gen = n, !.req = n] \in Pauses /\ [pause EXCEPT !.req = 0, !.ack = 0] \in Pauses
         /\ [req |-> 0, ack |-> 0, gen |-> pause.gen] \in Pauses
BY DEF Pauses

\* What the platform remembers of the device, field by field.
LEMMA PlatformTyped ==
  ASSUME plat \in Platforms
  PROVE  /\ plat.valid \in Nat /\ plat.issued \in Nat /\ plat.issued + 1 \in Nat
         /\ plat.revoked \in SUBSET Nat /\ plat.code \in BOOLEAN
BY DEF Platforms

\* Every way the platform and its console change that memory keeps it well typed.
LEMMA PlatformFields ==
  ASSUME plat \in Platforms, NEW b \in BOOLEAN, NEW n \in Nat, NEW R \in SUBSET Nat
  PROVE  /\ [plat EXCEPT !.agent = b] \in Platforms
         /\ [plat EXCEPT !.valid = 0] \in Platforms
         /\ [plat EXCEPT !.revoked = R, !.code = b] \in Platforms
         /\ [plat EXCEPT !.valid = n, !.issued = n, !.code = b] \in Platforms
         /\ [plat EXCEPT !.revoked = {}] \in Platforms /\ [plat EXCEPT !.revoked = R] \in Platforms
<1>1. [plat EXCEPT !.agent = b] \in Platforms
  BY DEF Platforms
<1>2. [plat EXCEPT !.valid = 0] \in Platforms /\ [plat EXCEPT !.revoked = {}] \in Platforms
      /\ [plat EXCEPT !.revoked = R] \in Platforms
  BY DEF Platforms
<1>3. [plat EXCEPT !.revoked = R, !.code = b] \in Platforms
  BY DEF Platforms
<1>4. [plat EXCEPT !.valid = n, !.issued = n, !.code = b] \in Platforms
  BY DEF Platforms
<1> QED BY <1>1, <1>2, <1>3, <1>4

\* Both truth values are Boolean.
LEMMA Truths == TRUE \in BOOLEAN /\ FALSE \in BOOLEAN
OBVIOUS

\* No step of any task, of the network or of the platform breaks a type.
LEMMA TypeStep == TypeOK /\ [Next]_vars => TypeOK'
<1> SUFFICES ASSUME TypeOK, Next PROVE TypeOK'
  BY DEF TypeOK, vars
<1>a. /\ ses \in Sessions
  /\ run \in BOOLEAN /\ alive \in BOOLEAN /\ (alive <=> ses.pc # "dead")
  /\ pause \in Pauses /\ app \in {"idle", "waiting", "local", "unpaused"}
  /\ key \in Nat /\ nvs \in Nat /\ unerased \in BOOLEAN /\ wiping \in BOOLEAN
  /\ token \in TokenStates /\ client \in Tokens /\ refused \in Tokens
  /\ net \in BOOLEAN /\ status \in Statuses
  /\ plat \in Platforms /\ reply \in Replies
  /\ events \in 0..MaxEvents
  BY DEF TypeOK
<1> USE NoTokenType, LinkSame, OthersSame, DeviceSame, EventType, GotoType, SendType, Truths
<1>1. CASE Top
  BY <1>a, <1>1 DEF Top, TypeOK, At, Pending, Pcs, Statuses
<1>2. CASE End
  BY <1>a, <1>2, ZenonT(40) DEF End, TypeOK, At, Pending, Pcs, Statuses
<1>3. ASSUME NEW loop \in {"claim", "online"}, AwaitNet(loop) PROVE TypeOK'
  <2>1. client' \in Tokens /\ refused' \in Tokens
    BY <1>a, <1>3 DEF AwaitNet, StopMqtt
  <2>2. ses' \in Sessions /\ ses'.pc # "dead"
    BY <1>a, <1>3 DEF AwaitNet, Sessions, Pcs
  <2> QED BY <1>a, <1>3, <2>1, <2>2 DEF AwaitNet, TypeOK, At, NetReady, StopMqtt, Pending, Pcs, Statuses
<1>4. ASSUME NEW loop \in {"claim", "online"}, Leaves(loop) PROVE TypeOK'
  BY <1>a, <1>4 DEF Leaves, TypeOK, At, Pending, Pcs, Statuses
<1>5. ASSUME NEW loop \in {"claim", "online"}, GoesOn(loop) PROVE TypeOK'
  BY <1>a, <1>5 DEF GoesOn, TypeOK, At, NetReady, Proceed, Pending, Pcs, Statuses
<1>6. CASE WaitReads
  <2>1. ses' \in Sessions /\ ses'.pc # "dead"
    <3>1. [ses EXCEPT !.pc = "ack", !.seen = pause.req] \in Sessions
      BY <1>a, PauseTyped DEF Sessions, Pcs
    <3>2. [ses EXCEPT !.pc = "wake"] \in Sessions
      BY <1>a DEF Sessions, Pcs
    <3>3. [ses EXCEPT !.pc = "ack", !.seen = pause.req].pc = "ack" /\ [ses EXCEPT !.pc = "wake"].pc = "wake"
      BY <1>a DEF Sessions
    <3> QED BY <1>6, <3>1, <3>2, <3>3 DEF WaitReads, Goto
  <2> QED BY <1>a, <1>6, <2>1, LinkSame DEF WaitReads, At, TypeOK
<1>7. CASE WaitAcks
  <2>1. pause' \in Pauses
    BY <1>a, <1>7, PauseFields DEF WaitAcks, Sessions
  <2> QED BY <1>a, <1>7, <2>1 DEF WaitAcks, TypeOK, At, Pending, Pcs, Statuses
<1>8. CASE WaitEnds
  <2>1. pause' \in Pauses
    BY <1>a, <1>8, PauseFields DEF WaitEnds
  <2> QED BY <1>a, <1>8, <2>1 DEF WaitEnds, TypeOK, At, Proceed, Pending, Pcs, Statuses
<1>9. CASE CodeReply
  BY <1>a, <1>9 DEF CodeReply, TypeOK, At, Answered, Reply, Pending, Pcs, Statuses
<1>10. CASE Poll
  BY <1>a, <1>10 DEF Poll, TypeOK, At, NetReady, Pending, Pcs, Statuses
<1>11. CASE BindReply
  <2>1. key' \in Nat
    BY <1>a, <1>11 DEF BindReply, Replies
  <2> QED BY <1>a, <1>11, <2>1 DEF BindReply, TypeOK, At, Answered, Reply, Pending, Pcs, Statuses
<1>12. CASE StoreKey
  <2>1. nvs' \in Nat /\ unerased' \in BOOLEAN
    BY <1>a, <1>12 DEF StoreKey
  <2> QED BY <1>a, <1>12, <2>1 DEF StoreKey, TypeOK, At, Pending, Pcs, Statuses
<1>13. CASE StoreFails
  BY <1>a, <1>13 DEF StoreFails, TypeOK, At, Pending, Pcs, Statuses
<1>14. CASE AuthReply
  <2>1. key' \in Nat /\ nvs' \in Nat /\ unerased' \in BOOLEAN /\ events' \in 0..MaxEvents
    <3>1. KeepKey \/ ClearKey
      BY <1>14 DEF AuthReply
    <3> QED BY <3>1, KeyType
  <2>2. ses' \in Sessions /\ ses'.pc # "dead" /\ ses.pc # "dead"
    BY <1>a, <1>14, GotoType DEF AuthReply, Answered, At, Pcs
  <2>3. status' \in Statuses
    BY <1>a, <1>14 DEF AuthReply, Statuses
  <2> QED BY <1>a, <1>14, <2>1, <2>2, <2>3 DEF AuthReply, RestOfLink, TypeOK
<1>15. CASE StayLeaves
  <2>1. token' \in TokenStates
    BY <1>a, <1>15, TokenFlags DEF StayLeaves, Leave
  <2>2. client' \in Tokens /\ refused' \in Tokens
    BY <1>a, <1>15 DEF StayLeaves, StopMqtt, Leave
  <2> QED BY <1>a, <1>15, <2>1, <2>2 DEF StayLeaves, TypeOK, At, NetReady, StopMqtt, Leave, Pending, Pcs, Statuses
<1>16. CASE AskToken
  BY <1>a, <1>16 DEF AskToken, TypeOK, At, NetReady, Pending, Pcs, Statuses
<1>17. CASE NoAsk
  BY <1>a, <1>17 DEF NoAsk, TypeOK, At, NetReady, Pending, Pcs, Statuses
<1>18. CASE TokenReply
  <2>1. /\ run' \in BOOLEAN /\ alive' = alive /\ pause' = pause /\ app' = app /\ wiping' = wiping
        /\ net' = net /\ plat' = plat /\ reply' = reply
    BY <1>a, <1>18 DEF TokenReply, RestOfLink
  <2>2. ses' \in Sessions /\ ses'.pc # "dead" /\ ses.pc # "dead"
    BY <1>a, <1>18, GotoType DEF TokenReply, Answered, At, Pcs
  <2>3. client' \in Tokens /\ refused' \in Tokens
    BY <1>a, <1>18 DEF TokenReply, StopMqtt, KeepMqtt
  <2>4. key' \in Nat /\ nvs' \in Nat /\ unerased' \in BOOLEAN /\ events' \in 0..MaxEvents
    <3>1. KeepKey \/ ClearKey
      BY <1>18 DEF TokenReply
    <3> QED BY <3>1, KeyType
  <2>5. status' \in Statuses
    BY <1>a, <1>18 DEF TokenReply, Statuses
  <2>6. token' \in TokenStates
    <3>1. \A id \in 1..3 : [ok |-> TRUE, tok |-> [id |-> id, key |-> reply.key], cool |-> FALSE] \in TokenStates
      BY <1>a DEF TokenStates, Tokens, Replies
    <3> QED BY <1>a, <1>18, <3>1, TokenFlags DEF TokenReply
  <2> QED BY <1>a, <2>1, <2>2, <2>3, <2>4, <2>5, <2>6 DEF TypeOK
<1>19. CASE StartMqtt
  <2>1. client' \in Tokens
    BY <1>a, <1>19 DEF StartMqtt, TokenStates
  <2> QED BY <1>a, <1>19, <2>1 DEF StartMqtt, TypeOK, At, Pending, Pcs, Statuses
<1>20. CASE StartMqttFails
  <2>1. token' \in TokenStates
    BY <1>a, <1>20, TokenFlags DEF StartMqttFails
  <2> QED BY <1>a, <1>20, <2>1 DEF StartMqttFails, TypeOK, At, Pending, Pcs, Statuses
<1>21. CASE Heartbeat
  BY <1>a, <1>21 DEF Heartbeat, TypeOK, At, Pending, Pcs, Statuses
<1>22. CASE Reauth
  BY <1>a, <1>22 DEF Reauth, TypeOK, At, Pending, Pcs, Statuses
<1>23. CASE NotDue
  BY <1>a, <1>23 DEF NotDue, TypeOK, At, Pending, Pcs, Statuses
<1>24. CASE PollReply
  <2>1. /\ run' \in BOOLEAN /\ alive' = alive /\ pause' = pause /\ app' = app /\ wiping' = wiping
        /\ net' = net /\ plat' = plat /\ reply' = reply
    BY <1>a, <1>24 DEF PollReply, RestOfLink
  <2>2. ses' \in Sessions /\ ses'.pc # "dead" /\ ses.pc # "dead"
    BY <1>a, <1>24, GotoType DEF PollReply, Answered, At, Pcs, Leave
  <2>3. client' \in Tokens /\ refused' \in Tokens
    BY <1>a, <1>24 DEF PollReply, StopMqtt, KeepMqtt, Leave
  <2>4. key' \in Nat /\ nvs' \in Nat /\ unerased' \in BOOLEAN /\ events' \in 0..MaxEvents
    <3>1. KeepKey \/ ClearKey
      BY <1>24 DEF PollReply
    <3> QED BY <3>1, KeyType
  <2>5. status' \in Statuses
    BY <1>a, <1>24 DEF PollReply, Statuses
  <2>6. token' \in TokenStates
    BY <1>a, <1>24, TokenFlags DEF PollReply, Leave
  <2> QED BY <1>a, <2>1, <2>2, <2>3, <2>4, <2>5, <2>6 DEF TypeOK
<1>25. CASE Nap
  <2>1. token' \in TokenStates
    BY <1>a, <1>25, TokenFlags DEF Nap
  <2>2. client' \in Tokens /\ refused' \in Tokens
    BY <1>a, <1>25 DEF Nap, StopMqtt
  <2> QED BY <1>a, <1>25, <2>1, <2>2, ZenonT(40) DEF Nap, TypeOK, At, StopMqtt, Pending, Pcs, Statuses
<1>26. CASE CoolOver
  <2>1. token' \in TokenStates
    BY <1>a, <1>26, TokenFlags DEF CoolOver
  <2> QED BY <1>a, <1>26, <2>1 DEF CoolOver, TypeOK, Pending, Pcs, Statuses
<1>27. CASE NetUp
  BY <1>a, <1>27 DEF NetUp, TypeOK, Pending, Pcs, Statuses
<1>28. CASE OnMqttRefused
  BY <1>a, <1>28 DEF OnMqttRefused, TypeOK, Pending, Refuse, Pcs, Statuses
<1>29. CASE Answer
  <2>1. reply' \in Replies
    <3>1. ses.sent \in Nat
      BY <1>a DEF Sessions
    <3>2. Verdict \in {"ok", "bound", "claimed", "waiting", "expired", "silent", "revoked", "no_agent"}
      BY DEF Verdict
    <3> HIDE DEF Verdict
    <3> QED BY <1>29, <3>1, <3>2, <1>a, PlatformTyped DEF Answer, Replies
  <2>2. plat' \in Platforms
    <3> DEFINE R == IF Verdict = "revoked" THEN plat.revoked \union {ses.sent} ELSE plat.revoked
               c == plat.code \/ (At("code") /\ Verdict = "ok")
    <3>1. plat' = [plat EXCEPT !.revoked = R, !.code = c]
      BY <1>29 DEF Answer
    <3>2. R \in SUBSET Nat
      BY <1>a, PlatformTyped DEF Sessions
    <3>3. c \in BOOLEAN
      OBVIOUS
    <3> HIDE DEF R, c
    <3> QED BY <1>a, <3>1, <3>2, <3>3, PlatformFields
  <2> QED BY <1>a, <1>29, <2>1, <2>2, DeviceSame DEF Answer, TypeOK
<1>30. CASE Claim
  <2>1. plat' \in Platforms
    BY <1>a, <1>30, PlatformTyped, PlatformFields DEF Claim
  <2> QED BY <1>a, <1>30, <2>1, DeviceSame DEF Claim, TypeOK
<1>31. CASE Unbind
  <2>1. plat' \in Platforms
    BY <1>a, <1>31, PlatformFields DEF Unbind
  <2> QED BY <1>a, <1>31, <2>1 DEF Unbind, TypeOK, Pending, Pcs, Statuses
<1>32. CASE Attach
  <2>1. plat' \in Platforms
    BY <1>a, <1>32, PlatformFields DEF Attach
  <2> QED BY <1>a, <1>32, <2>1 DEF Attach, TypeOK, Pending, Pcs, Statuses
<1>33. CASE NetDown
  <2>1. net' \in BOOLEAN
    BY <1>a, <1>33 DEF NetDown
  <2> QED BY <1>a, <1>33, <2>1 DEF NetDown, TypeOK, Pending, Pcs, Statuses
<1>34. CASE NoAnswer
  <2>1. reply' \in Replies
    BY <1>a, <1>34 DEF NoAnswer, Replies
  <2> QED BY <1>a, <1>34, <2>1 DEF NoAnswer, TypeOK, At, InRequest, Pending, Pcs, Statuses
<1>35. CASE Detach
  <2>1. plat' \in Platforms
    BY <1>a, <1>35, PlatformFields DEF Detach
  <2> QED BY <1>a, <1>35, <2>1 DEF Detach, TypeOK, Pending, Pcs, Statuses
<1>36. CASE Revoke
  <2>1. plat' \in Platforms
    BY <1>a, <1>36, PlatformFields DEF Revoke
  <2> QED BY <1>a, <1>36, <2>1 DEF Revoke, TypeOK, Pending, Pcs, Statuses
<1>37. CASE RefusedInError
  BY <1>a, <1>37 DEF RefusedInError, TypeOK, Pending, Refuse, Pcs, Statuses
<1>38. CASE Pause
  <2>1. pause' \in Pauses
    BY <1>a, <1>38, PauseTyped, PauseFields DEF Pause, Ticket
  <2> QED BY <1>a, <1>38, <2>1, OthersSame, EventType DEF Pause, TypeOK
<1>39. CASE PauseAcked
  BY <1>a, <1>39 DEF PauseAcked, TypeOK, Pending, Pcs, Statuses
<1>40. CASE PauseGivesUp
  <2>1. pause' \in Pauses
    BY <1>a, <1>40, PauseFields DEF PauseGivesUp
  <2> QED BY <1>a, <1>40, <2>1 DEF PauseGivesUp, TypeOK, Pending, Pcs, Statuses
<1>41. CASE Resume
  <2>1. pause' \in Pauses
    BY <1>a, <1>41, PauseFields DEF Resume
  <2> QED BY <1>a, <1>41, <2>1 DEF Resume, TypeOK, Pending, Pcs, Statuses
<1>42. CASE Forget
  <2>1. wiping' \in BOOLEAN
    BY <1>a, <1>42 DEF Forget
  <2>2. events' \in 0..MaxEvents
    BY <1>a, <1>42 DEF Forget
  <2> QED BY <1>a, <1>42, <2>1, <2>2 DEF Forget, TypeOK, Pending, Pcs, Statuses
<1>43. CASE Forgotten
  <2>1. wiping' \in BOOLEAN
    BY <1>a, <1>43 DEF Forgotten
  <2> QED BY <1>a, <1>43, <2>1, EraseType DEF Forgotten, TypeOK, Pending, Pcs, Statuses
<1>44. CASE Stop
  <2>1. run' \in BOOLEAN
    BY <1>a, <1>44 DEF Stop
  <2>2. events' \in 0..MaxEvents
    BY <1>a, <1>44 DEF Stop
  <2> QED BY <1>a, <1>44, <2>1, <2>2 DEF Stop, TypeOK, Pending, Pcs, Statuses
<1>45. CASE Start
  <2>1. ses' \in Sessions /\ ses'.pc # "dead"
    BY <1>a, <1>45 DEF Start, Pcs
  <2>2. run' \in BOOLEAN /\ alive' \in BOOLEAN /\ alive'
    BY <1>a, <1>45 DEF Start
  <2>3. pause' \in Pauses
    BY <1>a, <1>45, PauseFields DEF Start
  <2>4. token' \in TokenStates
    BY <1>a, <1>45, TokenFlags DEF Start
  <2>5. plat' \in Platforms
    <3> DEFINE R == IF unerased THEN plat.revoked \ {nvs} ELSE plat.revoked
    <3>1. plat' = [plat EXCEPT !.revoked = R] /\ R \in SUBSET Nat
      BY <1>a, <1>45, PlatformTyped DEF Start
    <3> HIDE DEF R
    <3> QED BY <1>a, <3>1, PlatformFields
  <2> QED BY <1>a, <1>45, <2>1, <2>2, <2>3, <2>4, <2>5 DEF Start, TypeOK, Pending, Pcs, Statuses
<1>46. CASE Reboot
  <2>1. ses' \in Sessions /\ ses'.pc # "dead"
    BY <1>a, <1>46 DEF Reboot, Sessions, Pcs
  <2>2. run' \in BOOLEAN /\ alive' \in BOOLEAN /\ alive'
    BY <1>a, <1>46 DEF Reboot
  <2>3. wiping' \in BOOLEAN /\ net' \in BOOLEAN
    BY <1>a, <1>46 DEF Reboot
  <2>4. pause' \in Pauses
    BY <1>a, <1>46, PauseFields DEF Reboot
  <2>5. token' \in TokenStates
    BY <1>a, <1>46, TokenFlags DEF Reboot
  <2>6. plat' \in Platforms
    BY <1>a, <1>46, PlatformFields DEF Reboot
  <2>7. reply' \in Replies
    BY <1>a, <1>46 DEF Reboot, Replies, Pending
  <2>8. status' \in Statuses
    BY <1>a, <1>46 DEF Reboot, Statuses
  <2>9. events' \in 0..MaxEvents
    BY <1>a, <1>46 DEF Reboot
  <2> QED BY <1>a, <1>46, <2>1, <2>2, <2>3, <2>4, <2>5, <2>6, <2>7, <2>8, <2>9 DEF Reboot, TypeOK, Pending, Pcs,
      Statuses
<1> QED BY <1>1, <1>2, <1>3, <1>4, <1>5, <1>6, <1>7, <1>8, <1>9, <1>10, <1>11, <1>12, <1>13, <1>14, <1>15, <1>16,
    <1>17, <1>18, <1>19, <1>20, <1>21, <1>22, <1>23, <1>24, <1>25, <1>26, <1>27, <1>28, <1>29, <1>30, <1>31, <1>32,
    <1>33, <1>34, <1>35, <1>36, <1>37, <1>38, <1>39, <1>40, <1>41, <1>42, <1>43, <1>44, <1>45, <1>46 DEF Next,
    Session, World, Mishap

-----------------------------------------------------------------------------
\* Where the session task may be while an MQTT client runs: inside StayOnline.
Serving == {"stay", "token", "mqtt", "polls", "beat", "again", "reauth", "nap"}

\* No client, and the session task waits for the network, is gone, or is on its way to one of these.
Quiet == client = NoToken /\ (ses.pc \in {"wait", "ack", "dead"} \/ (~run /\ ses.pc \in {"wake", "top", "end"}))

\* The ticket of a pause is never ahead of its generation; while the caller holds its ticket, or
\* could take the acknowledgement it sees, the session is quiet; clients exist in StayOnline only.
LeaseInv ==
  /\ pause.ack <= pause.gen /\ pause.req <= pause.gen /\ ses.seen <= pause.gen
  /\ client # NoToken => ses.pc \in Serving
  /\ app \in {"waiting", "local"} => pause.req = pause.gen /\ pause.gen # 0
  /\ app = "local" \/ (app = "waiting" /\ pause.ack = pause.gen) => Quiet

\* A refusal is of the client that runs, and the client runs with the token held.
RefusalInv ==
  /\ refused # NoToken => refused = client
  /\ client # NoToken /\ token.ok => client = token.tok

\* The session task has been told that its key is revoked and has not acted on it.
Handling == InRequest /\ reply.kind = "revoked"

\* Revoked keys are old keys; one is held only while the task is being told of it, and stored until then or because
\* it could not be erased.
KeysInv ==
  /\ 0 \notin plat.revoked /\ \A k \in plat.revoked : k <= plat.issued
  /\ key <= plat.issued /\ nvs <= plat.issued /\ ses.sent <= plat.issued /\ plat.valid <= plat.issued
  /\ plat.valid \notin plat.revoked
  /\ key \in plat.revoked => Handling
  /\ nvs \in plat.revoked => Handling \/ unerased
  /\ reply.kind = "claimed" /\ At("bind") => reply.key \notin plat.revoked /\ reply.key <= plat.issued
  /\ At("code") \/ At("bind") => reply.kind # "revoked"
  /\ RevokedKeyRests

\* No step breaks LeaseInv: in particular no acknowledgement of an earlier pause answers a later one.
LEMMA LeaseInvStep == TypeOK /\ LeaseInv /\ [Next]_vars => LeaseInv'
<1> SUFFICES ASSUME TypeOK, LeaseInv, Next PROVE LeaseInv'
  BY DEF LeaseInv, Quiet, Serving, vars, NetReady, At, InRequest
<1>a. /\ ses \in Sessions
  /\ run \in BOOLEAN /\ alive \in BOOLEAN /\ (alive <=> ses.pc # "dead")
  /\ pause \in Pauses /\ app \in {"idle", "waiting", "local", "unpaused"}
  /\ key \in Nat /\ nvs \in Nat /\ unerased \in BOOLEAN /\ wiping \in BOOLEAN
  /\ token \in TokenStates /\ client \in Tokens /\ refused \in Tokens
  /\ net \in BOOLEAN /\ status \in Statuses
  /\ plat \in Platforms /\ reply \in Replies
  /\ events \in 0..MaxEvents
  BY DEF TypeOK
<1> USE LinkSame, OthersSame, DeviceSame, GotoType, SendType, PauseTyped
<1>1. CASE Top
  BY <1>a, <1>1 DEF Top, LeaseInv, Quiet, Serving, At, Pcs, Sessions, Pauses
<1>2. CASE End
  BY <1>a, <1>2 DEF End, LeaseInv, Quiet, Serving, At, Pcs, Sessions, Pauses
<1>3. ASSUME NEW loop \in {"claim", "online"}, AwaitNet(loop) PROVE LeaseInv'
  BY <1>a, <1>3 DEF AwaitNet, LeaseInv, Quiet, Serving, At, NetReady, StopMqtt, Pcs, Sessions, Pauses
<1>4. ASSUME NEW loop \in {"claim", "online"}, Leaves(loop) PROVE LeaseInv'
  BY <1>a, <1>4 DEF Leaves, LeaseInv, Quiet, Serving, At, Pcs, Sessions, Pauses
<1>5. ASSUME NEW loop \in {"claim", "online"}, GoesOn(loop) PROVE LeaseInv'
  BY <1>a, <1>5 DEF GoesOn, LeaseInv, Quiet, Serving, At, NetReady, Proceed, Pcs, Sessions, Pauses
<1>6. CASE WaitReads
  <2>1. /\ pause' = pause /\ app' = app /\ run' = run /\ client' = client
        /\ ses.pc = "wait"
    BY <1>6 DEF WaitReads, At
  <2>2. CASE run /\ ~NetReady
    <3>1. ses' = [ses EXCEPT !.pc = "ack", !.seen = pause.req]
      BY <1>6, <2>2 DEF WaitReads
    <3>2. ses'.pc = "ack" /\ ses'.seen = pause.req
      BY <1>a, <3>1 DEF Sessions
    <3> QED BY <2>1, <3>2, PauseTyped, <1>a DEF LeaseInv, Quiet, Serving
  <2>3. CASE ~(run /\ ~NetReady)
    <3>1. ses'.pc = "wake" /\ ses'.seen = ses.seen
      BY <1>a, <1>6, <2>3 DEF WaitReads, Pcs
    <3>2. app = "local" \/ (app = "waiting" /\ pause.ack = pause.gen) => ~run
      BY <1>a, <2>3 DEF LeaseInv, NetReady
    <3> QED BY <2>1, <3>1, <3>2 DEF LeaseInv, Quiet, Serving
  <2> QED BY <2>2, <2>3
<1>7. CASE WaitAcks
  BY <1>a, <1>7 DEF WaitAcks, LeaseInv, Quiet, Serving, At, Pcs, Sessions, Pauses
<1>8. CASE WaitEnds
  BY <1>a, <1>8 DEF WaitEnds, LeaseInv, Quiet, Serving, At, Proceed, Pcs, Sessions, Pauses
<1>9. CASE CodeReply
  BY <1>a, <1>9 DEF CodeReply, LeaseInv, Quiet, Serving, At, Answered, Reply, Pcs, Sessions, Pauses
<1>10. CASE Poll
  BY <1>a, <1>10 DEF Poll, LeaseInv, Quiet, Serving, At, NetReady, Pcs, Sessions, Pauses
<1>11. CASE BindReply
  BY <1>a, <1>11 DEF BindReply, LeaseInv, Quiet, Serving, At, Answered, Reply, Pcs, Sessions, Pauses
<1>12. CASE StoreKey
  BY <1>a, <1>12 DEF StoreKey, LeaseInv, Quiet, Serving, At, Pcs, Sessions, Pauses
<1>13. CASE StoreFails
  BY <1>a, <1>13 DEF StoreFails, LeaseInv, Quiet, Serving, At, Pcs, Sessions, Pauses
<1>14. CASE AuthReply
  BY <1>a, <1>14 DEF AuthReply, LeaseInv, Quiet, Serving, At, ClearKey, KeepKey, RestOfLink, Answered, Reply, Pcs,
      Sessions, Pauses
<1>15. CASE StayLeaves
  BY <1>a, <1>15 DEF StayLeaves, LeaseInv, Quiet, Serving, At, NetReady, StopMqtt, Leave, Pcs, Sessions, Pauses
<1>16. CASE AskToken
  BY <1>a, <1>16 DEF AskToken, LeaseInv, Quiet, Serving, At, NetReady, Pcs, Sessions, Pauses
<1>17. CASE NoAsk
  BY <1>a, <1>17 DEF NoAsk, LeaseInv, Quiet, Serving, At, NetReady, Pcs, Sessions, Pauses
<1>18. CASE TokenReply
  BY <1>a, <1>18 DEF TokenReply, LeaseInv, Quiet, Serving, At, StopMqtt, KeepMqtt, ClearKey, KeepKey, RestOfLink,
      Answered, Reply, Pcs, Sessions, Pauses
<1>19. CASE StartMqtt
  BY <1>a, <1>19 DEF StartMqtt, LeaseInv, Quiet, Serving, At, Pcs, Sessions, Pauses
<1>20. CASE StartMqttFails
  BY <1>a, <1>20 DEF StartMqttFails, LeaseInv, Quiet, Serving, At, Pcs, Sessions, Pauses
<1>21. CASE Heartbeat
  BY <1>a, <1>21 DEF Heartbeat, LeaseInv, Quiet, Serving, At, Pcs, Sessions, Pauses
<1>22. CASE Reauth
  BY <1>a, <1>22 DEF Reauth, LeaseInv, Quiet, Serving, At, Pcs, Sessions, Pauses
<1>23. CASE NotDue
  BY <1>a, <1>23 DEF NotDue, LeaseInv, Quiet, Serving, At, Pcs, Sessions, Pauses
<1>24. CASE PollReply
  BY <1>a, <1>24 DEF PollReply, LeaseInv, Quiet, Serving, At, StopMqtt, KeepMqtt, Leave, ClearKey, KeepKey,
      RestOfLink, Answered, Reply, Pcs, Sessions, Pauses
<1>25. CASE Nap
  BY <1>a, <1>25 DEF Nap, LeaseInv, Quiet, Serving, At, StopMqtt, Pcs, Sessions, Pauses
<1>26. CASE CoolOver
  BY <1>a, <1>26 DEF CoolOver, LeaseInv, Quiet, Serving, Pcs, Sessions, Pauses
<1>27. CASE NetUp
  BY <1>a, <1>27 DEF NetUp, LeaseInv, Quiet, Serving, Pcs, Sessions, Pauses
<1>28. CASE OnMqttRefused
  BY <1>a, <1>28 DEF OnMqttRefused, LeaseInv, Quiet, Serving, Refuse, Pcs, Sessions, Pauses
<1>29. CASE Answer
  BY <1>a, <1>29 DEF Answer, LeaseInv, Quiet, Serving, At, InRequest, Pcs, Sessions, Pauses
<1>30. CASE Claim
  BY <1>a, <1>30 DEF Claim, LeaseInv, Quiet, Serving, Pcs, Sessions, Pauses
<1>31. CASE Unbind
  BY <1>a, <1>31 DEF Unbind, LeaseInv, Quiet, Serving, Pcs, Sessions, Pauses
<1>32. CASE Attach
  BY <1>a, <1>32 DEF Attach, LeaseInv, Quiet, Serving, Pcs, Sessions, Pauses
<1>33. CASE NetDown
  BY <1>a, <1>33 DEF NetDown, LeaseInv, Quiet, Serving, Pcs, Sessions, Pauses
<1>34. CASE NoAnswer
  BY <1>a, <1>34 DEF NoAnswer, LeaseInv, Quiet, Serving, At, InRequest, Pcs, Sessions, Pauses
<1>35. CASE Detach
  BY <1>a, <1>35 DEF Detach, LeaseInv, Quiet, Serving, Pcs, Sessions, Pauses
<1>36. CASE Revoke
  BY <1>a, <1>36 DEF Revoke, LeaseInv, Quiet, Serving, Pcs, Sessions, Pauses
<1>37. CASE RefusedInError
  BY <1>a, <1>37 DEF RefusedInError, LeaseInv, Quiet, Serving, Refuse, Pcs, Sessions, Pauses
<1>38. CASE Pause
  <2>1. ses' = ses /\ client' = client /\ run' = run /\ app = "idle"
    BY <1>38 DEF Pause
  <2>2. CASE run
    <3>1. pause' = [pause EXCEPT !.gen = pause.gen + 1, !.req = pause.gen + 1] /\ app' = "waiting"
      BY <1>38, <2>2 DEF Pause, Ticket
    <3>2. pause'.gen = pause.gen + 1 /\ pause'.req = pause.gen + 1 /\ pause'.ack = pause.ack
      BY <1>a, <3>1 DEF Pauses
    <3>3. ses.seen \in Nat
      BY <1>a DEF Sessions
    <3> QED BY <1>a, <2>1, <3>1, <3>2, <3>3, PauseTyped DEF LeaseInv
  <2>3. CASE ~run
    <3>1. pause' = pause /\ app' = "unpaused"
      BY <1>38, <2>3 DEF Pause
    <3> QED BY <2>1, <3>1 DEF LeaseInv
  <2> QED BY <2>2, <2>3
<1>39. CASE PauseAcked
  BY <1>a, <1>39 DEF PauseAcked, LeaseInv, Quiet, Serving, Pcs, Sessions, Pauses
<1>40. CASE PauseGivesUp
  BY <1>a, <1>40 DEF PauseGivesUp, LeaseInv, Quiet, Serving, Pcs, Sessions, Pauses
<1>41. CASE Resume
  BY <1>a, <1>41 DEF Resume, LeaseInv, Quiet, Serving, Pcs, Sessions, Pauses
<1>42. CASE Forget
  BY <1>a, <1>42 DEF Forget, LeaseInv, Quiet, Serving, Pcs, Sessions, Pauses
<1>43. CASE Forgotten
  BY <1>a, <1>43 DEF Forgotten, LeaseInv, Quiet, Serving, Pcs, Sessions, Pauses
<1>44. CASE Stop
  BY <1>a, <1>44 DEF Stop, LeaseInv, Quiet, Serving, Pcs, Sessions, Pauses
<1>45. CASE Start
  BY <1>a, <1>45 DEF Start, LeaseInv, Quiet, Serving, Pcs, Sessions, Pauses
<1>46. CASE Reboot
  BY <1>a, <1>46 DEF Reboot, LeaseInv, Quiet, Serving, Pcs, Sessions, Pauses
<1> QED BY <1>1, <1>2, <1>3, <1>4, <1>5, <1>6, <1>7, <1>8, <1>9, <1>10, <1>11, <1>12, <1>13, <1>14, <1>15, <1>16,
    <1>17, <1>18, <1>19, <1>20, <1>21, <1>22, <1>23, <1>24, <1>25, <1>26, <1>27, <1>28, <1>29, <1>30, <1>31, <1>32,
    <1>33, <1>34, <1>35, <1>36, <1>37, <1>38, <1>39, <1>40, <1>41, <1>42, <1>43, <1>44, <1>45, <1>46 DEF Next,
    Session, World, Mishap

\* No step breaks RefusalInv: a client and its refusal go together.
LEMMA RefusalInvStep == TypeOK /\ LeaseInv /\ RefusalInv /\ [Next]_vars => RefusalInv'
<1> SUFFICES ASSUME TypeOK, LeaseInv, RefusalInv, Next PROVE RefusalInv'
  BY DEF RefusalInv, vars, NetReady, At, InRequest
<1>a. /\ ses \in Sessions
  /\ run \in BOOLEAN /\ alive \in BOOLEAN /\ (alive <=> ses.pc # "dead")
  /\ pause \in Pauses /\ app \in {"idle", "waiting", "local", "unpaused"}
  /\ key \in Nat /\ nvs \in Nat /\ unerased \in BOOLEAN /\ wiping \in BOOLEAN
  /\ token \in TokenStates /\ client \in Tokens /\ refused \in Tokens
  /\ net \in BOOLEAN /\ status \in Statuses
  /\ plat \in Platforms /\ reply \in Replies
  /\ events \in 0..MaxEvents
  BY DEF TypeOK
<1> USE LinkSame, OthersSame, DeviceSame, GotoType, SendType, PauseTyped
<1>1. CASE Top
  BY <1>a, <1>1 DEF Top, RefusalInv, At, Pcs, Sessions, Pauses
<1>2. CASE End
  BY <1>a, <1>2 DEF End, RefusalInv, At, Pcs, Sessions, Pauses
<1>3. ASSUME NEW loop \in {"claim", "online"}, AwaitNet(loop) PROVE RefusalInv'
  BY <1>a, <1>3 DEF AwaitNet, RefusalInv, At, NetReady, StopMqtt, Pcs, Sessions, Pauses
<1>4. ASSUME NEW loop \in {"claim", "online"}, Leaves(loop) PROVE RefusalInv'
  BY <1>a, <1>4 DEF Leaves, RefusalInv, At, Pcs, Sessions, Pauses
<1>5. ASSUME NEW loop \in {"claim", "online"}, GoesOn(loop) PROVE RefusalInv'
  BY <1>a, <1>5 DEF GoesOn, RefusalInv, At, NetReady, Proceed, Pcs, Sessions, Pauses
<1>6. CASE WaitReads
  BY <1>a, <1>6 DEF WaitReads, RefusalInv, At, NetReady, Pcs, Sessions, Pauses
<1>7. CASE WaitAcks
  BY <1>a, <1>7 DEF WaitAcks, RefusalInv, At, Pcs, Sessions, Pauses
<1>8. CASE WaitEnds
  BY <1>a, <1>8 DEF WaitEnds, RefusalInv, At, Proceed, Pcs, Sessions, Pauses
<1>9. CASE CodeReply
  BY <1>a, <1>9 DEF CodeReply, RefusalInv, At, Answered, Reply, Pcs, Sessions, Pauses
<1>10. CASE Poll
  BY <1>a, <1>10 DEF Poll, RefusalInv, At, NetReady, Pcs, Sessions, Pauses
<1>11. CASE BindReply
  BY <1>a, <1>11 DEF BindReply, RefusalInv, At, Answered, Reply, Pcs, Sessions, Pauses
<1>12. CASE StoreKey
  BY <1>a, <1>12 DEF StoreKey, RefusalInv, At, Pcs, Sessions, Pauses
<1>13. CASE StoreFails
  BY <1>a, <1>13 DEF StoreFails, RefusalInv, At, Pcs, Sessions, Pauses
<1>14. CASE AuthReply
  BY <1>a, <1>14 DEF AuthReply, RefusalInv, At, ClearKey, KeepKey, RestOfLink, Answered, Reply, Pcs, Sessions, Pauses
<1>15. CASE StayLeaves
  BY <1>a, <1>15 DEF StayLeaves, RefusalInv, At, NetReady, StopMqtt, Leave, Pcs, Sessions, Pauses
<1>16. CASE AskToken
  BY <1>a, <1>16 DEF AskToken, RefusalInv, At, NetReady, Pcs, Sessions, Pauses
<1>17. CASE NoAsk
  BY <1>a, <1>17 DEF NoAsk, RefusalInv, At, NetReady, Pcs, Sessions, Pauses
<1>18. CASE TokenReply
  BY <1>a, <1>18 DEF TokenReply, RefusalInv, At, StopMqtt, KeepMqtt, ClearKey, KeepKey, RestOfLink, Answered, Reply,
      Pcs, Sessions, Pauses
<1>19. CASE StartMqtt
  BY <1>a, <1>19 DEF StartMqtt, RefusalInv, At, Pcs, Sessions, Pauses
<1>20. CASE StartMqttFails
  BY <1>a, <1>20 DEF StartMqttFails, RefusalInv, At, Pcs, Sessions, Pauses
<1>21. CASE Heartbeat
  BY <1>a, <1>21 DEF Heartbeat, RefusalInv, At, Pcs, Sessions, Pauses
<1>22. CASE Reauth
  BY <1>a, <1>22 DEF Reauth, RefusalInv, At, Pcs, Sessions, Pauses
<1>23. CASE NotDue
  BY <1>a, <1>23 DEF NotDue, RefusalInv, At, Pcs, Sessions, Pauses
<1>24. CASE PollReply
  BY <1>a, <1>24 DEF PollReply, RefusalInv, At, StopMqtt, KeepMqtt, Leave, ClearKey, KeepKey, RestOfLink, Answered,
      Reply, Pcs, Sessions, Pauses
<1>25. CASE Nap
  BY <1>a, <1>25 DEF Nap, RefusalInv, At, StopMqtt, Pcs, Sessions, Pauses
<1>26. CASE CoolOver
  BY <1>a, <1>26 DEF CoolOver, RefusalInv, Pcs, Sessions, Pauses
<1>27. CASE NetUp
  BY <1>a, <1>27 DEF NetUp, RefusalInv, Pcs, Sessions, Pauses
<1>28. CASE OnMqttRefused
  BY <1>a, <1>28 DEF OnMqttRefused, RefusalInv, Refuse, Pcs, Sessions, Pauses
<1>29. CASE Answer
  BY <1>a, <1>29 DEF Answer, RefusalInv, At, InRequest, Pcs, Sessions, Pauses
<1>30. CASE Claim
  BY <1>a, <1>30 DEF Claim, RefusalInv, Pcs, Sessions, Pauses
<1>31. CASE Unbind
  BY <1>a, <1>31 DEF Unbind, RefusalInv, Pcs, Sessions, Pauses
<1>32. CASE Attach
  BY <1>a, <1>32 DEF Attach, RefusalInv, Pcs, Sessions, Pauses
<1>33. CASE NetDown
  BY <1>a, <1>33 DEF NetDown, RefusalInv, Pcs, Sessions, Pauses
<1>34. CASE NoAnswer
  BY <1>a, <1>34 DEF NoAnswer, RefusalInv, At, InRequest, Pcs, Sessions, Pauses
<1>35. CASE Detach
  BY <1>a, <1>35 DEF Detach, RefusalInv, Pcs, Sessions, Pauses
<1>36. CASE Revoke
  BY <1>a, <1>36 DEF Revoke, RefusalInv, Pcs, Sessions, Pauses
<1>37. CASE RefusedInError
  BY <1>a, <1>37 DEF RefusedInError, RefusalInv, Refuse, Pcs, Sessions, Pauses
<1>38. CASE Pause
  BY <1>a, <1>38 DEF Pause, RefusalInv, Ticket, Pcs, Sessions, Pauses
<1>39. CASE PauseAcked
  BY <1>a, <1>39 DEF PauseAcked, RefusalInv, Pcs, Sessions, Pauses
<1>40. CASE PauseGivesUp
  BY <1>a, <1>40 DEF PauseGivesUp, RefusalInv, Pcs, Sessions, Pauses
<1>41. CASE Resume
  BY <1>a, <1>41 DEF Resume, RefusalInv, Pcs, Sessions, Pauses
<1>42. CASE Forget
  BY <1>a, <1>42 DEF Forget, RefusalInv, Pcs, Sessions, Pauses
<1>43. CASE Forgotten
  BY <1>a, <1>43 DEF Forgotten, RefusalInv, Pcs, Sessions, Pauses
<1>44. CASE Stop
  BY <1>a, <1>44 DEF Stop, RefusalInv, Pcs, Sessions, Pauses
<1>45. CASE Start
  BY <1>a, <1>45 DEF Start, RefusalInv, Pcs, Sessions, Pauses
<1>46. CASE Reboot
  BY <1>a, <1>46 DEF Reboot, RefusalInv, Pcs, Sessions, Pauses
<1> QED BY <1>1, <1>2, <1>3, <1>4, <1>5, <1>6, <1>7, <1>8, <1>9, <1>10, <1>11, <1>12, <1>13, <1>14, <1>15, <1>16,
    <1>17, <1>18, <1>19, <1>20, <1>21, <1>22, <1>23, <1>24, <1>25, <1>26, <1>27, <1>28, <1>29, <1>30, <1>31, <1>32,
    <1>33, <1>34, <1>35, <1>36, <1>37, <1>38, <1>39, <1>40, <1>41, <1>42, <1>43, <1>44, <1>45, <1>46 DEF Next,
    Session, World, Mishap

\* What is read back after a change of the platform's memory.
LEMMA PlatformReads ==
  ASSUME plat \in Platforms, NEW b, NEW n, NEW R
  PROVE  /\ [plat EXCEPT !.valid = 0].valid = 0 /\ [plat EXCEPT !.valid = 0].issued = plat.issued
         /\ [plat EXCEPT !.valid = 0].revoked = plat.revoked
         /\ [plat EXCEPT !.revoked = R, !.code = b].revoked = R
         /\ [plat EXCEPT !.revoked = R, !.code = b].valid = plat.valid
         /\ [plat EXCEPT !.revoked = R, !.code = b].issued = plat.issued
         /\ [plat EXCEPT !.valid = n, !.issued = n, !.code = b].valid = n
         /\ [plat EXCEPT !.valid = n, !.issued = n, !.code = b].issued = n
         /\ [plat EXCEPT !.valid = n, !.issued = n, !.code = b].revoked = plat.revoked
         /\ [plat EXCEPT !.revoked = {}].revoked = {} /\ [plat EXCEPT !.revoked = {}].valid = plat.valid
         /\ [plat EXCEPT !.revoked = {}].issued = plat.issued
         /\ [plat EXCEPT !.revoked = R].revoked = R /\ [plat EXCEPT !.revoked = R].valid = plat.valid
         /\ [plat EXCEPT !.revoked = R].issued = plat.issued
BY DEF Platforms

\* What the online part of the session task leaves alone, spelled out.
LEMMA RestKeepsKeys ==
  ASSUME TypeOK, KeysInv, plat' = plat, ses'.sent = ses.sent, ~InRequest',
         key' \in Nat, nvs' \in Nat, key' <= plat.issued, nvs' <= plat.issued,
         key' \notin plat.revoked, nvs' \in plat.revoked => unerased'
  PROVE  KeysInv'
BY DEF KeysInv, InRequest, At, Handling, RevokedKeyRests

\* A request sent outside Handling carries no revoked key.
LEMMA SendKeepsKeys ==
  ASSUME TypeOK, KeysInv, plat' = plat, ~InRequest, NEW pc \in Pcs, Send(pc),
         UNCHANGED <<key, nvs, unerased>>
  PROVE  KeysInv'
<1>1. ses'.sent = key /\ reply' = Pending /\ Pending.kind = "pending"
  BY SendType DEF TypeOK, Pending
<1>2. key \notin plat.revoked /\ (nvs \in plat.revoked => unerased)
  BY DEF KeysInv, Handling
<1> QED BY <1>1, <1>2 DEF KeysInv, At, Handling, RevokedKeyRests

\* KeysInv survives a step that touches no key.
LEMMA KeysKept ==
  ASSUME TypeOK, KeysInv, UNCHANGED <<key, nvs, unerased>>, ~Handling
  PROVE  /\ key' \in Nat /\ nvs' \in Nat /\ key' <= plat.issued /\ nvs' <= plat.issued
         /\ key' \notin plat.revoked /\ (nvs' \in plat.revoked => unerased')
BY DEF TypeOK, KeysInv

\* KeysInv survives a step that clears the key and its stored copy.
LEMMA KeysCleared ==
  ASSUME TypeOK, KeysInv, ClearKey
  PROVE  /\ key' \in Nat /\ nvs' \in Nat /\ key' <= plat.issued /\ nvs' <= plat.issued
         /\ key' \notin plat.revoked /\ (nvs' \in plat.revoked => unerased')
BY PlatformTyped, EraseType DEF TypeOK, KeysInv, ClearKey

\* No step breaks KeysInv: HandleRevoked drops the key, and its stored copy or leaves it marked.
LEMMA KeysInvStep == TypeOK /\ KeysInv /\ [Next]_vars => KeysInv'
<1> SUFFICES ASSUME TypeOK, KeysInv, Next PROVE KeysInv'
  BY DEF KeysInv, Handling, RevokedKeyRests, vars, NetReady, At, InRequest
<1>a. /\ ses \in Sessions
  /\ run \in BOOLEAN /\ alive \in BOOLEAN /\ (alive <=> ses.pc # "dead")
  /\ pause \in Pauses /\ app \in {"idle", "waiting", "local", "unpaused"}
  /\ key \in Nat /\ nvs \in Nat /\ unerased \in BOOLEAN /\ wiping \in BOOLEAN
  /\ token \in TokenStates /\ client \in Tokens /\ refused \in Tokens
  /\ net \in BOOLEAN /\ status \in Statuses
  /\ plat \in Platforms /\ reply \in Replies
  /\ events \in 0..MaxEvents
  BY DEF TypeOK
<1> USE LinkSame, OthersSame, DeviceSame, GotoType, SendType, PauseTyped
<1>1. CASE Top
  BY <1>a, <1>1 DEF Top, KeysInv, Handling, RevokedKeyRests, At, InRequest, Pcs, Sessions, Pauses
<1>2. CASE End
  BY <1>a, <1>2 DEF End, KeysInv, Handling, RevokedKeyRests, At, InRequest, Pcs, Sessions, Pauses
<1>3. ASSUME NEW loop \in {"claim", "online"}, AwaitNet(loop) PROVE KeysInv'
  BY <1>a, <1>3 DEF AwaitNet, KeysInv, Handling, RevokedKeyRests, At, NetReady, InRequest, StopMqtt, Pcs, Sessions,
      Pauses
<1>4. ASSUME NEW loop \in {"claim", "online"}, Leaves(loop) PROVE KeysInv'
  BY <1>a, <1>4 DEF Leaves, KeysInv, Handling, RevokedKeyRests, At, InRequest, Pcs, Sessions, Pauses
<1>5. ASSUME NEW loop \in {"claim", "online"}, GoesOn(loop) PROVE KeysInv'
  <2>1. ~InRequest /\ plat' = plat /\ UNCHANGED <<key, nvs, unerased>>
    BY <1>5, LinkSame DEF GoesOn, At, InRequest
  <2>2. \E pc \in {"code", "auth"} : Send(pc)
    BY <1>5 DEF GoesOn, Proceed
  <2> QED BY <2>1, <2>2, SendKeepsKeys DEF Pcs
<1>6. CASE WaitReads
  <2>1. ~InRequest /\ plat' = plat /\ UNCHANGED <<key, nvs, unerased>> /\ ~Handling
    BY <1>6, LinkSame DEF WaitReads, At, InRequest, Handling
  <2>2. ses'.sent = ses.sent /\ ~InRequest'
    <3>1. CASE run /\ ~NetReady
      BY <1>a, <1>6, <3>1 DEF WaitReads, Sessions, InRequest
    <3>2. CASE ~(run /\ ~NetReady)
      BY <1>a, <1>6, <3>2 DEF WaitReads, Goto, Sessions, InRequest
    <3> QED BY <3>1, <3>2
  <2> QED BY <2>1, <2>2, KeysKept, RestKeepsKeys
<1>7. CASE WaitAcks
  BY <1>a, <1>7 DEF WaitAcks, KeysInv, Handling, RevokedKeyRests, At, InRequest, Pcs, Sessions, Pauses
<1>8. CASE WaitEnds
  <2>1. ~InRequest /\ plat' = plat /\ UNCHANGED <<key, nvs, unerased>>
    BY <1>8 DEF WaitEnds, At, InRequest
  <2>2. CASE run
    <3>1. \E pc \in {"code", "auth"} : Send(pc)
      BY <1>8, <2>2 DEF WaitEnds, Proceed
    <3> QED BY <2>1, <3>1, SendKeepsKeys DEF Pcs
  <2>3. CASE ~run
    <3>1. \E pc \in {"end", "top"} : Goto(pc)
      BY <1>8, <2>3 DEF WaitEnds
    <3>2. ses'.sent = ses.sent /\ ~InRequest'
      BY <1>a, <3>1, GotoType DEF Pcs, InRequest
    <3>3. ~Handling
      BY <2>1 DEF Handling
    <3> QED BY <2>1, <3>2, <3>3, KeysKept, RestKeepsKeys
  <2> QED BY <2>2, <2>3
<1>9. CASE CodeReply
  BY <1>a, <1>9 DEF CodeReply, KeysInv, Handling, RevokedKeyRests, At, InRequest, Answered, Reply, Pcs, Sessions,
      Pauses
<1>10. CASE Poll
  <2>1. ~InRequest /\ plat' = plat /\ UNCHANGED <<key, nvs, unerased>>
    BY <1>10, LinkSame DEF Poll, At, InRequest
  <2>2. CASE run /\ NetReady
    BY <1>10, <2>1, <2>2, SendKeepsKeys DEF Poll, Pcs
  <2>3. CASE ~(run /\ NetReady)
    <3>1. \E pc \in {"end", "claim"} : Goto(pc)
      BY <1>10, <2>3 DEF Poll
    <3>2. ses'.sent = ses.sent /\ ~InRequest'
      BY <1>a, <3>1, GotoType DEF Pcs, InRequest
    <3>3. ~Handling
      BY <2>1 DEF Handling
    <3> QED BY <2>1, <3>2, <3>3, KeysKept, RestKeepsKeys
  <2> QED BY <2>2, <2>3
<1>11. CASE BindReply
  BY <1>a, <1>11 DEF BindReply, KeysInv, Handling, RevokedKeyRests, At, InRequest, Answered, Reply, Pcs, Sessions,
      Pauses
<1>12. CASE StoreKey
  BY <1>a, <1>12 DEF StoreKey, KeysInv, Handling, RevokedKeyRests, At, InRequest, Pcs, Sessions, Pauses
<1>13. CASE StoreFails
  BY <1>a, <1>13 DEF StoreFails, KeysInv, Handling, RevokedKeyRests, At, InRequest, Pcs, Sessions, Pauses
<1>14. CASE AuthReply
  <2>1. plat' = plat
    BY <1>14 DEF AuthReply, RestOfLink
  <2>2. \E pc \in {"stay", "top", "online"} : Goto(pc)
    BY <1>14 DEF AuthReply
  <2>3. ses'.sent = ses.sent /\ ~InRequest'
    BY <1>a, <2>2, GotoType DEF Pcs, InRequest
  <2>4. ClearKey \/ (KeepKey /\ ~Handling)
    BY <1>14 DEF AuthReply, Reply, Handling
  <2> QED BY <2>1, <2>3, <2>4, KeysKept, KeysCleared, RestKeepsKeys DEF KeepKey
<1>15. CASE StayLeaves
  BY <1>a, <1>15 DEF StayLeaves, KeysInv, Handling, RevokedKeyRests, At, NetReady, InRequest, StopMqtt, Leave, Pcs,
      Sessions, Pauses
<1>16. CASE AskToken
  BY <1>a, <1>16 DEF AskToken, KeysInv, Handling, RevokedKeyRests, At, NetReady, InRequest, Pcs, Sessions, Pauses
<1>17. CASE NoAsk
  BY <1>a, <1>17 DEF NoAsk, KeysInv, Handling, RevokedKeyRests, At, NetReady, InRequest, Pcs, Sessions, Pauses
<1>18. CASE TokenReply
  <2>1. plat' = plat
    BY <1>18 DEF TokenReply, RestOfLink
  <2>2. \E pc \in {"mqtt", "online"} : Goto(pc)
    BY <1>18 DEF TokenReply
  <2>3. ses'.sent = ses.sent /\ ~InRequest'
    BY <1>a, <2>2, GotoType DEF Pcs, InRequest
  <2>4. ClearKey \/ (KeepKey /\ ~Handling)
    BY <1>18 DEF TokenReply, Reply, Handling
  <2> QED BY <2>1, <2>3, <2>4, KeysKept, KeysCleared, RestKeepsKeys DEF KeepKey
<1>19. CASE StartMqtt
  BY <1>a, <1>19 DEF StartMqtt, KeysInv, Handling, RevokedKeyRests, At, InRequest, Pcs, Sessions, Pauses
<1>20. CASE StartMqttFails
  BY <1>a, <1>20 DEF StartMqttFails, KeysInv, Handling, RevokedKeyRests, At, InRequest, Pcs, Sessions, Pauses
<1>21. CASE Heartbeat
  BY <1>a, <1>21 DEF Heartbeat, KeysInv, Handling, RevokedKeyRests, At, InRequest, Pcs, Sessions, Pauses
<1>22. CASE Reauth
  BY <1>a, <1>22 DEF Reauth, KeysInv, Handling, RevokedKeyRests, At, InRequest, Pcs, Sessions, Pauses
<1>23. CASE NotDue
  BY <1>a, <1>23 DEF NotDue, KeysInv, Handling, RevokedKeyRests, At, InRequest, Pcs, Sessions, Pauses
<1>24. CASE PollReply
  <2>1. plat' = plat
    BY <1>24 DEF PollReply, RestOfLink
  <2>2. \E pc \in {"online", "again", "nap"} : Goto(pc)
    BY <1>24 DEF PollReply, Leave
  <2>3. ses'.sent = ses.sent /\ ~InRequest'
    BY <1>a, <2>2, GotoType DEF Pcs, InRequest
  <2>4. ClearKey \/ (KeepKey /\ ~Handling)
    BY <1>24 DEF PollReply, Reply, Handling
  <2> QED BY <2>1, <2>3, <2>4, KeysKept, KeysCleared, RestKeepsKeys DEF KeepKey
<1>25. CASE Nap
  BY <1>a, <1>25 DEF Nap, KeysInv, Handling, RevokedKeyRests, At, InRequest, StopMqtt, Pcs, Sessions, Pauses
<1>26. CASE CoolOver
  BY <1>a, <1>26 DEF CoolOver, KeysInv, Handling, RevokedKeyRests, At, InRequest, Pcs, Sessions, Pauses
<1>27. CASE NetUp
  BY <1>a, <1>27 DEF NetUp, KeysInv, Handling, RevokedKeyRests, At, InRequest, Pcs, Sessions, Pauses
<1>28. CASE OnMqttRefused
  BY <1>a, <1>28 DEF OnMqttRefused, KeysInv, Handling, RevokedKeyRests, At, InRequest, Refuse, Pcs, Sessions, Pauses
<1>29. CASE Answer
  <2> DEFINE R == IF Verdict = "revoked" THEN plat.revoked \union {ses.sent} ELSE plat.revoked
             c == plat.code \/ (At("code") /\ Verdict = "ok")
             claimed == IF Verdict = "claimed" THEN plat.valid ELSE ses.sent
  <2>1. /\ ses' = ses /\ UNCHANGED <<key, nvs, unerased>> /\ InRequest /\ reply = Pending
        /\ reply' = [kind |-> Verdict, key |-> claimed] /\ plat' = [plat EXCEPT !.revoked = R, !.code = c]
    BY <1>29, DeviceSame DEF Answer
  <2>2. plat'.revoked = R /\ plat'.valid = plat.valid /\ plat'.issued = plat.issued
    BY <1>a, <2>1, PlatformReads
  <2>3. reply'.kind = Verdict /\ reply'.key = claimed /\ (reply' # Pending \/ Verdict = "pending")
    BY <2>1 DEF Pending
  <2>4. /\ Verdict # "pending"
        /\ At("code") \/ At("bind") => Verdict # "revoked"
        /\ Verdict = "revoked" => ses.sent # 0 /\ ses.sent # plat.valid
    BY DEF Verdict, At
  <2>5. key \notin plat.revoked /\ (nvs \in plat.revoked => unerased)
    BY <2>1 DEF KeysInv, Handling, Pending
  <2> HIDE DEF Verdict
  <2>6. /\ 0 \notin R /\ (\A k \in R : k <= plat.issued) /\ plat.valid \notin R
        /\ key \in R => Verdict = "revoked"
        /\ nvs \in R => Verdict = "revoked" \/ unerased
    BY <2>4, <2>5 DEF KeysInv
  <2>7. Verdict = "claimed" => claimed = plat.valid
    OBVIOUS
  <2> HIDE DEF R, c, claimed
  <2> QED BY <2>1, <2>2, <2>3, <2>4, <2>6, <2>7 DEF KeysInv, Handling, InRequest, At, RevokedKeyRests, Pending
<1>30. CASE Claim
  <2>1. /\ ses' = ses /\ UNCHANGED <<key, nvs, unerased>> /\ reply' = reply
        /\ plat' = [plat EXCEPT !.valid = plat.issued + 1, !.issued = plat.issued + 1, !.code = FALSE]
    BY <1>30, DeviceSame DEF Claim
  <2>2. plat'.valid = plat.issued + 1 /\ plat'.issued = plat.issued + 1 /\ plat'.revoked = plat.revoked
    BY <1>a, <2>1, PlatformReads
  <2>3. plat.issued \in Nat /\ plat.revoked \in SUBSET Nat /\ ses.sent \in Nat /\ reply.key \in Nat
    BY <1>a, PlatformTyped DEF Sessions, Replies
  <2>4. plat.issued + 1 \notin plat.revoked
    BY <2>3 DEF KeysInv
  <2>5. \A k \in plat.revoked : k <= plat.issued + 1
    BY <2>3 DEF KeysInv
  <2>up. \A k \in Nat : k <= plat.issued => k <= plat.issued + 1
    BY <2>3
  <2>k. /\ key \in Nat /\ nvs \in Nat
        /\ key <= plat.issued /\ nvs <= plat.issued /\ ses.sent <= plat.issued
    BY <1>a DEF KeysInv
  <2>6. /\ key <= plat.issued + 1 /\ nvs <= plat.issued + 1 /\ ses.sent <= plat.issued + 1
        /\ (reply.key <= plat.issued => reply.key <= plat.issued + 1)
    BY <2>3, <2>k, <2>up
  <2>7. (Handling <=> Handling') /\ (RevokedKeyRests => RevokedKeyRests')
    BY <2>1, <2>2 DEF Handling, InRequest, At, RevokedKeyRests, Pending
  <2>8. At("code") \/ At("bind") => reply.kind # "revoked"
    BY DEF KeysInv
  <2>9. reply.kind = "claimed" /\ At("bind") => reply.key \notin plat.revoked /\ reply.key <= plat.issued
    BY DEF KeysInv
  <2>10. 0 \notin plat.revoked /\ (key \in plat.revoked => Handling)
        /\ (nvs \in plat.revoked => Handling \/ unerased) /\ RevokedKeyRests
    BY DEF KeysInv
  <2>11. plat.issued + 1 <= plat.issued + 1
    BY <2>3
  <2> QED BY <2>1, <2>2, <2>4, <2>5, <2>6, <2>7, <2>8, <2>9, <2>10, <2>11 DEF KeysInv, At
<1>31. CASE Unbind
  <2>1. /\ ses' = ses /\ UNCHANGED <<key, nvs, unerased>> /\ reply' = reply /\ plat' = [plat EXCEPT !.valid = 0]
    BY <1>31, DeviceSame DEF Unbind
  <2>2. plat'.valid = 0 /\ plat'.issued = plat.issued /\ plat'.revoked = plat.revoked /\ 0 <= plat.issued
    BY <1>a, <2>1, PlatformReads, PlatformTyped
  <2> QED BY <2>1, <2>2 DEF KeysInv, Handling, InRequest, At, RevokedKeyRests
<1>32. CASE Attach
  BY <1>a, <1>32 DEF Attach, KeysInv, Handling, RevokedKeyRests, At, InRequest, Pcs, Sessions, Pauses
<1>33. CASE NetDown
  BY <1>a, <1>33 DEF NetDown, KeysInv, Handling, RevokedKeyRests, At, InRequest, Pcs, Sessions, Pauses
<1>34. CASE NoAnswer
  <2>1. ses' = ses /\ UNCHANGED <<key, nvs, unerased>> /\ plat' = plat /\ InRequest /\ reply = Pending
    BY <1>34, DeviceSame DEF NoAnswer
  <2>2. reply'.kind \in {"silent", "expired"} /\ reply' # Pending
    BY <1>34 DEF NoAnswer, Pending
  <2>3. key \notin plat.revoked /\ (nvs \in plat.revoked => unerased)
    BY <2>1 DEF KeysInv, Handling, Pending
  <2> QED BY <2>1, <2>2, <2>3 DEF KeysInv, Handling, InRequest, At, RevokedKeyRests
<1>35. CASE Detach
  BY <1>a, <1>35 DEF Detach, KeysInv, Handling, RevokedKeyRests, At, InRequest, Pcs, Sessions, Pauses
<1>36. CASE Revoke
  <2>1. /\ ses' = ses /\ UNCHANGED <<key, nvs, unerased>> /\ reply' = reply /\ plat' = [plat EXCEPT !.valid = 0]
    BY <1>36, DeviceSame DEF Revoke
  <2>2. plat'.valid = 0 /\ plat'.issued = plat.issued /\ plat'.revoked = plat.revoked /\ 0 <= plat.issued
    BY <1>a, <2>1, PlatformReads, PlatformTyped
  <2> QED BY <2>1, <2>2 DEF KeysInv, Handling, InRequest, At, RevokedKeyRests
<1>37. CASE RefusedInError
  BY <1>a, <1>37 DEF RefusedInError, KeysInv, Handling, RevokedKeyRests, At, InRequest, Refuse, Pcs, Sessions, Pauses
<1>38. CASE Pause
  BY <1>a, <1>38 DEF Pause, KeysInv, Handling, RevokedKeyRests, At, InRequest, Ticket, Pcs, Sessions, Pauses
<1>39. CASE PauseAcked
  BY <1>a, <1>39 DEF PauseAcked, KeysInv, Handling, RevokedKeyRests, At, InRequest, Pcs, Sessions, Pauses
<1>40. CASE PauseGivesUp
  BY <1>a, <1>40 DEF PauseGivesUp, KeysInv, Handling, RevokedKeyRests, At, InRequest, Pcs, Sessions, Pauses
<1>41. CASE Resume
  BY <1>a, <1>41 DEF Resume, KeysInv, Handling, RevokedKeyRests, At, InRequest, Pcs, Sessions, Pauses
<1>42. CASE Forget
  <2>1. ses' = ses /\ key' = 0 /\ UNCHANGED <<nvs, unerased>> /\ plat' = plat /\ reply' = reply /\ 0 <= plat.issued
    BY <1>a, <1>42, PlatformTyped DEF Forget
  <2> QED BY <2>1 DEF KeysInv, Handling, InRequest, At, RevokedKeyRests
<1>43. CASE Forgotten
  <2>1. ses' = ses /\ key' = key /\ plat' = plat /\ reply' = reply /\ 0 <= plat.issued
        /\ (nvs' = 0 \/ (nvs' = nvs /\ unerased'))
    BY <1>a, <1>43, OthersSame, PlatformTyped, EraseType DEF Forgotten
  <2> QED BY <2>1 DEF KeysInv, Handling, InRequest, At, RevokedKeyRests
<1>44. CASE Stop
  BY <1>a, <1>44 DEF Stop, KeysInv, Handling, RevokedKeyRests, At, InRequest, Pcs, Sessions, Pauses
<1>45. CASE Start
  <2> DEFINE R == IF unerased THEN plat.revoked \ {nvs} ELSE plat.revoked
  <2>1. /\ ses.pc = "dead" /\ ses'.pc = "top" /\ ses'.sent = ses.sent /\ key' = nvs /\ nvs' = nvs
        /\ plat' = [plat EXCEPT !.revoked = R]
    BY <1>a, <1>45, GotoType DEF Start, Pcs
  <2>2. plat'.revoked = R /\ plat'.valid = plat.valid /\ plat'.issued = plat.issued
    BY <1>a, <2>1, PlatformReads
  <2>3. nvs \notin R /\ R \subseteq plat.revoked
    BY <2>1 DEF KeysInv, Handling, InRequest
  <2> HIDE DEF R
  <2> QED BY <2>1, <2>2, <2>3 DEF KeysInv, Handling, InRequest, At, RevokedKeyRests
<1>46. CASE Reboot
  <2>1. /\ ses'.pc = "top" /\ ses'.sent = 0 /\ key' = nvs /\ nvs' = nvs
        /\ plat' = [plat EXCEPT !.revoked = {}]
    BY <1>46 DEF Reboot
  <2>2. plat'.valid = plat.valid /\ plat'.issued = plat.issued /\ plat'.revoked = {} /\ 0 <= plat.issued
    BY <1>a, <2>1, PlatformReads, PlatformTyped
  <2> QED BY <2>1, <2>2 DEF KeysInv, Handling, InRequest, At, RevokedKeyRests
<1> QED BY <1>1, <1>2, <1>3, <1>4, <1>5, <1>6, <1>7, <1>8, <1>9, <1>10, <1>11, <1>12, <1>13, <1>14, <1>15, <1>16,
    <1>17, <1>18, <1>19, <1>20, <1>21, <1>22, <1>23, <1>24, <1>25, <1>26, <1>27, <1>28, <1>29, <1>30, <1>31, <1>32,
    <1>33, <1>34, <1>35, <1>36, <1>37, <1>38, <1>39, <1>40, <1>41, <1>42, <1>43, <1>44, <1>45, <1>46 DEF Next,
    Session, World, Mishap

-----------------------------------------------------------------------------
(* The theorems *)

\* The device starts with nothing: no key, no client, no pause, no revoked key.
LEMMA InitInv == Init => TypeOK /\ LeaseInv /\ RefusalInv /\ KeysInv
<1> SUFFICES ASSUME Init PROVE TypeOK /\ LeaseInv /\ RefusalInv /\ KeysInv
  OBVIOUS
<1>1. ses \in Sessions /\ (alive <=> ses.pc # "dead") /\ reply \in Replies
  BY DEF Init, Sessions, Pcs, Replies, Pending
<1>b. /\ run \in BOOLEAN /\ alive \in BOOLEAN /\ unerased \in BOOLEAN /\ wiping \in BOOLEAN /\ net \in BOOLEAN
  BY Truths DEF Init
<1>2. token \in TokenStates
  BY NoTokenType DEF Init, TokenStates
<1>3. plat \in Platforms /\ pause \in Pauses
  BY DEF Init, Platforms, Pauses
<1>4. TypeOK
  BY <1>1, <1>b, <1>2, <1>3, NoTokenType, SessionAssumption DEF Init, TypeOK, Statuses
<1>5. LeaseInv /\ RefusalInv
  BY DEF Init, LeaseInv, RefusalInv
<1>6. KeysInv
  BY DEF Init, KeysInv, Handling, InRequest, At, Pending, RevokedKeyRests
<1> QED BY <1>4, <1>5, <1>6

\* Types hold in every reachable state, and the session task exists exactly until its function returns.
THEOREM TypeCorrect == Spec => []TypeOK
BY InitInv, TypeStep, PTL DEF Spec

\* The three invariants hold in every reachable state.
LEMMA Invariance == Spec => [](TypeOK /\ LeaseInv /\ RefusalInv /\ KeysInv)
BY InitInv, TypeStep, LeaseInvStep, RefusalInvStep, KeysInvStep, PTL DEF Spec

\* While the caller of cloud_session_pause holds the radio, the session has no client and no request
\* in flight, however many pauses timed out or were resumed before (cloud_session.cc, WaitForNet).
THEOREM LocalUseIsQuiet == Spec => []PauseMeansQuiet
<1>1. LeaseInv => PauseMeansQuiet
  BY DEF LeaseInv, Quiet, PauseMeansQuiet, InRequest
<1> QED BY <1>1, Invariance, PTL

\* A refusal that waits for the session task is of the client that runs now, which was started with
\* the token held now, and that task exists (OnMqttRefused, cloud_mqtt_stop before the bit is cleared).
THEOREM CurrentRefusal == Spec => []RefusalIsCurrent
<1>1. TypeOK /\ LeaseInv /\ RefusalInv => RefusalIsCurrent
  BY DEF TypeOK, LeaseInv, RefusalInv, RefusalIsCurrent, Serving
<1> QED BY <1>1, Invariance, PTL

\* A key the platform has reported revoked is in no request sent later, whatever is forgotten, stopped, started or
\* interrupted in between, until the device is restarted or a start reads it again because erasing it had failed: every
\* path drops the key from RAM, and nothing but a start brings back what is stored (HandleRevoked, cloud_cred_load).
THEOREM RevokedRests == Spec => []RevokedKeyRests
<1>1. KeysInv => RevokedKeyRests
  BY DEF KeysInv
<1> QED BY <1>1, Invariance, PTL

=============================================================================
