---------------------------- MODULE CloudSession ----------------------------
(***************************************************************************)
(* The cloud session of the WiFi backend: cloud_session.cc with the key of *)
(* cloud_credential.cc.  One task claims the device, signs it in, keeps    *)
(* the MQTT client running and renews its token; other tasks pause it for  *)
(* local radio use, forget the key, stop and start it; the MQTT client     *)
(* reports refusals from its own task.                                     *)
(*                                                                         *)
(* A request over HTTPS is two steps, sending it and acting on its reply;  *)
(* what the platform and its console do happens in between.  A key is the  *)
(* number the platform issued it under, a token remembers its key.         *)
(*                                                                         *)
(* Left out: the clock (a retry delay is over some time later, a renewal   *)
(* may be due at any pass), the hysteresis of PublishFailure.              *)
(***************************************************************************)
EXTENDS Naturals

CONSTANTS
  MaxEvents \* bound: pauses, and what goes wrong or is interfered with, together

ASSUME SessionAssumption == MaxEvents \in Nat

VARIABLES
  ses,     \* session task: pc, where WaitForNet returns to, key sent, pause request read
  run,     \* s_run
  alive,   \* s_task is set
  pause,   \* s_pause_request, s_pause_ack, s_pause_generation
  app,     \* the task in cloud_session_pause, and whether the radio it holds was stopped, not paused
  key,     \* s_auth, 0 when not bound
  nvs,     \* the stored key
  unerased,\* erasing it failed, and no start has read it since
  wiping,  \* another task is inside cloud_cred_clear
  token,   \* s_token_ok, *s_token, and whether s_token_retry lies ahead
  client,  \* the token the MQTT client was started with
  refused, \* kNotifyMqttRefused, and for which token
  net,     \* s_cfg.net_ready()
  status,  \* s_status.state
  plat,    \* platform: the device's valid key, keys issued and reported revoked (as the device
           \* can know); a code waits; an agent is attached
  reply,   \* of the request in flight
  events

vars == <<ses, run, alive, pause, app, key, nvs, unerased, wiping, token, client, refused, net, status, plat, reply,
          events>>
\* What the session task mostly leaves alone.
link == <<run, alive, pause, app, nvs, unerased, wiping, net, plat, events>>

NoToken == [id |-> 0, key |-> 0]
Tokens == [id : 0..3, key : Nat]
Pending == [kind |-> "pending", key |-> 0]

At(pc) == ses.pc = pc
Goto(pc) == ses' = [ses EXCEPT !.pc = pc]
NetReady == pause.req = 0 /\ net
InRequest == ses.pc \in {"code", "bind", "auth", "token", "beat", "reauth"}
Event == events < MaxEvents /\ events' = events + 1

Init ==
  /\ ses = [pc |-> "top", back |-> "claim", sent |-> 0, seen |-> 0]
  /\ run = TRUE /\ alive = TRUE
  /\ pause = [req |-> 0, ack |-> 0, gen |-> 0]
  /\ app = "idle"
  /\ key = 0 /\ nvs = 0 /\ unerased = FALSE /\ wiping = FALSE
  /\ token = [ok |-> FALSE, tok |-> NoToken, cool |-> FALSE]
  /\ client = NoToken /\ refused = NoToken
  /\ net = FALSE
  /\ status = "idle"
  /\ plat = [valid |-> 0, issued |-> 0, revoked |-> {}, code |-> FALSE, agent |-> FALSE]
  /\ reply = Pending
  /\ events = 0

-----------------------------------------------------------------------------
(* The session task: waiting for the network *)

\* Mutant: the bit is not cleared after the client is gone.
StopMqttKeepsBit == client' = NoToken /\ UNCHANGED refused

\* cloud_mqtt_stop joins the client's task, which may report a refusal until then; the bit goes last.
StopMqtt == client' = NoToken /\ refused' = NoToken
KeepMqtt == UNCHANGED <<client, refused>>

Send(pc) ==
  /\ ses' = [ses EXCEPT !.pc = pc, !.sent = key]
  /\ reply' = Pending

Top ==
  /\ At("top")
  /\ \/ ~run /\ Goto("end")
     \/ run /\ Goto(IF key = 0 THEN "claim" ELSE "online")
  /\ UNCHANGED <<link, key, token, client, refused, status, reply>>

End ==
  /\ At("end")
  /\ alive' = FALSE
  /\ Goto("dead")
  /\ UNCHANGED <<run, pause, app, key, nvs, unerased, wiping, token, client, refused, net, status, plat, reply, events>>

\* The head of ClaimLoop and of OnlineLoop, and WaitForNet's first test.
AwaitNet(loop) ==
  /\ At(loop) /\ run /\ (loop = "online" => key # 0)
  /\ ~NetReady
  /\ StopMqtt
  /\ status' = "no_network"
  /\ ses' = [ses EXCEPT !.pc = "wait", !.back = loop]
  /\ UNCHANGED <<link, key, token, reply>>

Leaves(loop) ==
  /\ At(loop) /\ (~run \/ (loop = "online" /\ key = 0))
  /\ Goto(IF loop = "claim" THEN "end" ELSE "top")
  /\ UNCHANGED <<link, key, token, client, refused, status, reply>>

\* One round of WaitForNet's loop: the request is read, then acknowledged.
WaitReads ==
  /\ At("wait")
  /\ IF run /\ ~NetReady THEN ses' = [ses EXCEPT !.pc = "ack", !.seen = pause.req] ELSE Goto("wake")
  /\ UNCHANGED <<link, key, token, client, refused, status, reply>>

WaitAcks ==
  /\ At("ack")
  /\ pause' = [pause EXCEPT !.ack = ses.seen]
  /\ Goto("wait")
  /\ UNCHANGED <<run, alive, app, key, nvs, unerased, wiping, token, client, refused, net, status, plat, reply, events>>

\* What ClaimLoop and OnlineLoop do once WaitForNet has returned.
Proceed(loop) ==
  IF loop = "claim" THEN Send("code") /\ UNCHANGED status
  ELSE Send("auth") /\ status' = IF status \in {"no_agent", "fault"} THEN status ELSE "bound"

WaitEnds ==
  /\ At("wake")
  /\ pause' = [pause EXCEPT !.ack = 0]
  /\ IF run THEN Proceed(ses.back) ELSE Goto(IF ses.back = "claim" THEN "end" ELSE "top") /\ UNCHANGED <<status, reply>>
  /\ UNCHANGED <<run, alive, app, key, nvs, unerased, wiping, token, client, refused, net, plat, events>>

GoesOn(loop) ==
  /\ At(loop) /\ run /\ (loop = "online" => key # 0)
  /\ NetReady
  /\ Proceed(loop)
  /\ UNCHANGED <<link, key, token, client, refused>>

-----------------------------------------------------------------------------
(* The session task: claiming *)

Answered(pc) == At(pc) /\ reply.kind # "pending"
Reply(kind) == reply.kind = kind

CodeReply ==
  /\ Answered("code")
  /\ \/ Reply("ok") /\ status' = "claiming" /\ Goto("poll")
     \/ Reply("bound") /\ status' = "already_bound" /\ Goto("claim")
     \/ Reply("silent") /\ status' = "fault" /\ Goto("claim")
  /\ UNCHANGED <<link, key, token, client, refused, reply>>

Poll ==
  /\ At("poll")
  /\ IF run /\ NetReady THEN Send("bind") ELSE Goto(IF run THEN "claim" ELSE "end") /\ UNCHANGED reply
  /\ UNCHANGED <<link, key, token, client, refused, status>>

BindReply ==
  /\ Answered("bind")
  /\ IF Reply("claimed") THEN key' = reply.key /\ Goto("store")
     ELSE UNCHANGED key /\ Goto(IF Reply("expired") THEN "claim" ELSE "poll")
  /\ UNCHANGED <<link, token, client, refused, status, reply>>

\* StoreStr reads the key where cloud_cred_clear may just have cleared it.
StoreKey ==
  /\ At("store")
  /\ nvs' = key /\ unerased' = FALSE
  /\ Goto("online")
  /\ UNCHANGED <<run, alive, pause, app, key, wiping, token, client, refused, net, status, plat, reply, events>>

StoreFails ==
  /\ At("store") /\ Event
  /\ Goto("end")
  /\ UNCHANGED <<run, alive, pause, app, key, nvs, unerased, wiping, token, client, refused, net, status, plat, reply>>

-----------------------------------------------------------------------------
(* The session task: online *)

\* StoreStr(nullptr); no caller looks at its result.
EraseKey ==
  \/ nvs' = 0 /\ unerased' = FALSE /\ UNCHANGED events
  \/ nvs # 0 /\ UNCHANGED nvs /\ unerased' = TRUE /\ Event

\* HandleRevoked.
ClearKey == key' = 0 /\ EraseKey
KeepKey == UNCHANGED <<key, nvs, unerased, events>>
RestOfLink == UNCHANGED <<run, alive, pause, app, wiping, net, plat>>

AuthReply ==
  /\ Answered("auth")
  /\ \/ Reply("ok") /\ status' = "online" /\ Goto("stay") /\ KeepKey
     \/ Reply("revoked") /\ UNCHANGED status /\ Goto("top") /\ ClearKey
     \/ Reply("no_agent") /\ status' = "no_agent" /\ Goto("online") /\ KeepKey
     \/ Reply("silent") /\ status' = "fault" /\ Goto("online") /\ KeepKey
  /\ UNCHANGED <<token, client, refused, reply>> /\ RestOfLink

\* StayOnline returns.
Leave(keyGone) ==
  /\ StopMqtt
  /\ token' = [token EXCEPT !.ok = @ /\ ~keyGone]
  /\ Goto("online")

\* StayOnline, from the head of its loop to the request for a token.
StayLeaves ==
  /\ At("stay") /\ (~run \/ key = 0 \/ ~NetReady)
  /\ Leave(run /\ key = 0)
  /\ UNCHANGED <<link, key, status, reply>>

AskToken ==
  /\ At("stay") /\ run /\ key # 0 /\ NetReady
  /\ ~token.cool
  /\ Send("token")
  /\ UNCHANGED <<link, key, token, client, refused, status>>

NoAsk ==
  /\ At("stay") /\ run /\ key # 0 /\ NetReady
  /\ token.ok \/ token.cool
  /\ Goto("mqtt")
  /\ UNCHANGED <<link, key, token, client, refused, status, reply>>

\* FetchToken, and what StayOnline does with its result.
TokenReply ==
  /\ Answered("token")
  /\ \/ /\ Reply("ok")
        /\ \E id \in 1..3 \ {token.tok.id, client.id, refused.id} :
             token' = [ok |-> TRUE, tok |-> [id |-> id, key |-> reply.key], cool |-> FALSE]
        /\ StopMqtt /\ KeepKey /\ UNCHANGED status /\ Goto("mqtt")
     \/ /\ Reply("silent")
        /\ token' = [ok |-> FALSE, tok |-> NoToken, cool |-> TRUE]
        /\ KeepMqtt /\ KeepKey /\ UNCHANGED status /\ Goto("mqtt")
     \/ /\ Reply("no_agent")
        /\ token' = [token EXCEPT !.ok = FALSE, !.tok = NoToken]
        /\ status' = "no_agent" /\ StopMqtt /\ KeepKey /\ Goto("online")
     \/ /\ Reply("revoked")
        /\ token' = [token EXCEPT !.ok = FALSE, !.tok = NoToken]
        /\ StopMqtt /\ ClearKey /\ UNCHANGED status /\ Goto("online")
  /\ UNCHANGED reply /\ RestOfLink

\* cloud_mqtt_start, when there is a token and no client yet.
StartMqtt ==
  /\ At("mqtt")
  /\ client' = IF token.ok /\ client = NoToken THEN token.tok ELSE client
  /\ Goto("polls")
  /\ UNCHANGED <<link, key, token, refused, status, reply>>

StartMqttFails ==
  /\ At("mqtt") /\ token.ok /\ client = NoToken /\ Event
  /\ token' = [token EXCEPT !.ok = FALSE, !.cool = TRUE]
  /\ Goto("polls")
  /\ UNCHANGED <<run, alive, pause, app, key, nvs, unerased, wiping, client, refused, net, status, plat, reply>>

\* Heartbeat and sign-in, when they are due and no call holds the memory they need.
Heartbeat ==
  /\ At("polls") /\ Send("beat")
  /\ UNCHANGED <<link, key, token, client, refused, status>>

Reauth ==
  /\ At("again") /\ Send("reauth")
  /\ UNCHANGED <<link, key, token, client, refused, status>>

NotDue ==
  /\ \/ At("polls") /\ Goto("again")
     \/ At("again") /\ Goto("nap")
  /\ UNCHANGED <<link, key, token, client, refused, status, reply>>

PollReply ==
  /\ Answered("beat") \/ Answered("reauth")
  /\ \/ Reply("revoked") /\ ClearKey /\ Leave(TRUE) /\ UNCHANGED status
     \/ /\ Reply("no_agent") /\ KeepKey
        /\ IF At("reauth") THEN Leave(FALSE) /\ status' = "no_agent"
                           ELSE Goto("again") /\ KeepMqtt /\ UNCHANGED <<token, status>>
     \/ /\ reply.kind \in {"ok", "silent"} /\ KeepKey
        /\ Goto(IF At("beat") THEN "again" ELSE "nap") /\ KeepMqtt /\ UNCHANGED <<token, status>>
  /\ UNCHANGED reply /\ RestOfLink

\* xTaskNotifyWait: a second passes, or the broker refused us (HandleMqttRefused; a young token
\* makes the next one wait).
Nap ==
  /\ At("nap")
  /\ Goto("stay")
  /\ \/ refused = NoToken /\ UNCHANGED <<token, client, refused>>
     \/ /\ refused # NoToken
        /\ StopMqtt
        /\ \E young \in BOOLEAN : token' = [token EXCEPT !.ok = FALSE, !.cool = young]
  /\ UNCHANGED <<link, key, status, reply>>

Session ==
  \/ Top \/ End \/ WaitReads \/ WaitAcks \/ WaitEnds
  \/ \E loop \in {"claim", "online"} : AwaitNet(loop) \/ Leaves(loop) \/ GoesOn(loop)
  \/ CodeReply \/ Poll \/ BindReply \/ StoreKey \/ StoreFails \/ AuthReply
  \/ StayLeaves \/ AskToken \/ NoAsk \/ TokenReply \/ StartMqtt \/ StartMqttFails
  \/ Heartbeat \/ Reauth \/ NotDue \/ PollReply \/ Nap

\* A retry delay is over.
CoolOver ==
  /\ token.cool
  /\ token' = [token EXCEPT !.cool = FALSE]
  /\ UNCHANGED <<ses, link, key, client, refused, status, reply>>

-----------------------------------------------------------------------------
(* The other tasks of the device *)

\* OnMqttRefused, on the client's task: the token's key is no longer valid, or the broker errs.
Refuse ==
  /\ client # NoToken /\ refused = NoToken
  /\ refused' = client
  /\ UNCHANGED <<ses, run, alive, pause, app, key, nvs, unerased, wiping, token, client, net, status, plat, reply>>

OnMqttRefused == client.key # plat.valid /\ Refuse /\ UNCHANGED events
RefusedInError == client.key = plat.valid /\ Refuse /\ Event

Others == <<ses, alive, key, token, client, refused, net, status, plat, reply>>

\* Mutant: one acknowledgement for all pauses.
TicketOne == 1

\* cloud_session_pause, a new ticket.
Ticket == pause.gen + 1

Pause ==
  /\ app = "idle" /\ Event
  /\ IF run THEN pause' = [pause EXCEPT !.gen = Ticket, !.req = Ticket] /\ app' = "waiting"
            ELSE UNCHANGED pause /\ app' = "unpaused"
  /\ UNCHANGED <<Others, run, nvs, unerased, wiping>>

PauseAcked ==
  /\ app = "waiting" /\ pause.ack = pause.gen
  /\ app' = "local"
  /\ UNCHANGED <<Others, run, pause, nvs, unerased, wiping, events>>

\* Mutant: the request of a pause that timed out is left standing.
PauseGivesUpForgets ==
  /\ app = "waiting" /\ pause.ack # pause.gen
  /\ app' = "idle"
  /\ UNCHANGED <<Others, run, pause, nvs, unerased, wiping, events>>

\* Timed out, or stopped: the request is withdrawn (and the caller resumes the session).
PauseGivesUp ==
  /\ app = "waiting" /\ pause.ack # pause.gen
  /\ pause' = [pause EXCEPT !.req = 0]
  /\ app' = "idle"
  /\ UNCHANGED <<Others, run, nvs, unerased, wiping, events>>

Resume ==
  /\ app \in {"local", "unpaused"}
  /\ pause' = [pause EXCEPT !.req = 0]
  /\ app' = "idle"
  /\ UNCHANGED <<Others, run, nvs, unerased, wiping, events>>

\* cloud_session_forget: the key in RAM, then the stored one.
Forget ==
  /\ ~wiping /\ key # 0 /\ Event
  /\ key' = 0 /\ wiping' = TRUE
  /\ UNCHANGED <<ses, run, alive, pause, app, nvs, unerased, token, client, refused, net, status, plat, reply>>

Forgotten ==
  /\ wiping
  /\ EraseKey /\ wiping' = FALSE
  /\ UNCHANGED <<Others, run, pause, app>>

Stop ==
  /\ run /\ Event
  /\ run' = FALSE
  /\ UNCHANGED <<Others, pause, app, nvs, unerased, wiping>>

\* cloud_session_start, which fails while the task is still there; the caller is not in local radio use.  A key that
\* could not be erased is read again, and the device does not know that it was revoked.
Start ==
  /\ ~run /\ ~alive /\ app = "idle"
  /\ run' = TRUE /\ alive' = TRUE
  /\ key' = nvs /\ unerased' = FALSE
  /\ plat' = [plat EXCEPT !.revoked = IF unerased THEN @ \ {nvs} ELSE @]
  /\ token' = [token EXCEPT !.ok = FALSE]
  /\ status' = "idle"
  /\ pause' = [pause EXCEPT !.req = 0, !.ack = 0]
  /\ Goto("top")
  /\ UNCHANGED <<app, nvs, wiping, client, refused, net, reply, events>>

\* The device is restarted: only the stored key and the platform remain.
Reboot ==
  /\ Event
  /\ ses' = [pc |-> "top", back |-> "claim", sent |-> 0, seen |-> 0]
  /\ run' = TRUE /\ alive' = TRUE
  /\ pause' = [req |-> 0, ack |-> 0, gen |-> pause.gen] /\ app' = "idle"
  /\ key' = nvs /\ unerased' = FALSE /\ wiping' = FALSE
  /\ token' = [ok |-> FALSE, tok |-> NoToken, cool |-> FALSE]
  /\ client' = NoToken /\ refused' = NoToken
  /\ net' = FALSE /\ status' = "idle" /\ reply' = Pending
  /\ plat' = [plat EXCEPT !.revoked = {}]
  /\ UNCHANGED nvs

-----------------------------------------------------------------------------
(* The network, the platform and its console *)

Device == <<ses, run, alive, pause, app, key, nvs, unerased, wiping, token, client, refused, status>>

NetUp == ~net /\ net' = TRUE /\ UNCHANGED <<Device, plat, reply, events>>
NetDown == net /\ Event /\ net' = FALSE /\ UNCHANGED <<Device, plat, reply>>

\* What the platform makes of the request in flight.
Verdict ==
  CASE ses.pc = "code" -> IF plat.valid = 0 THEN "ok" ELSE "bound"
    [] ses.pc = "bind" -> IF plat.valid # 0 THEN "claimed" ELSE IF plat.code THEN "waiting" ELSE "expired"
    [] OTHER -> IF ses.sent = 0 THEN "silent"
                ELSE IF ses.sent # plat.valid THEN "revoked"
                ELSE IF ses.pc # "beat" /\ ~plat.agent THEN "no_agent" ELSE "ok"

Answer ==
  /\ InRequest /\ reply = Pending
  /\ reply' = [kind |-> Verdict, key |-> IF Verdict = "claimed" THEN plat.valid ELSE ses.sent]
  /\ plat' = [plat EXCEPT !.revoked = IF Verdict = "revoked" THEN @ \union {ses.sent} ELSE @,
                          !.code = @ \/ (At("code") /\ Verdict = "ok")]
  /\ UNCHANGED <<Device, net, events>>

\* No answer, an answer of another kind, or a code that has run out.
NoAnswer ==
  /\ InRequest /\ reply = Pending /\ Event
  /\ \E kind \in {"silent", "expired"} :
       /\ kind = "expired" => At("bind")
       /\ reply' = [kind |-> kind, key |-> 0]
  /\ UNCHANGED <<Device, net, plat>>

\* The user enters the code on the screen; unbinds a device that says it is bound; attaches an agent.
Claim ==
  /\ status = "claiming" /\ plat.code
  /\ plat' = [plat EXCEPT !.valid = plat.issued + 1, !.issued = @ + 1, !.code = FALSE]
  /\ UNCHANGED <<Device, net, reply, events>>

Unbind ==
  /\ status = "already_bound" /\ plat.valid # 0
  /\ plat' = [plat EXCEPT !.valid = 0]
  /\ UNCHANGED <<Device, net, reply, events>>

Attach == ~plat.agent /\ plat' = [plat EXCEPT !.agent = TRUE] /\ UNCHANGED <<Device, net, reply, events>>
Detach == plat.agent /\ Event /\ plat' = [plat EXCEPT !.agent = FALSE] /\ UNCHANGED <<Device, net, reply>>
Revoke == plat.valid # 0 /\ Event /\ plat' = [plat EXCEPT !.valid = 0] /\ UNCHANGED <<Device, net, reply>>

World == NetUp \/ OnMqttRefused \/ Answer \/ Claim \/ Unbind \/ Attach
Mishap == NetDown \/ NoAnswer \/ Detach \/ Revoke \/ RefusedInError

Next ==
  \/ Session \/ CoolOver \/ World \/ Mishap
  \/ Pause \/ PauseAcked \/ PauseGivesUp \/ Resume
  \/ Forget \/ Forgotten \/ Stop \/ Start \/ Reboot

Fairness ==
  /\ WF_vars(Session) /\ SF_vars(Heartbeat) /\ WF_vars(CoolOver) /\ WF_vars(Forgotten)
  /\ WF_vars(PauseAcked \/ PauseGivesUp) /\ WF_vars(Resume)
  /\ WF_vars(NetUp) /\ WF_vars(OnMqttRefused) /\ WF_vars(Answer) /\ WF_vars(Claim) /\ WF_vars(Unbind) /\ WF_vars(Attach)

Spec == Init /\ [][Next]_vars /\ Fairness
-----------------------------------------------------------------------------
(* Properties *)

Statuses == {"idle", "no_network", "claiming", "already_bound", "fault", "bound", "online", "no_agent"}

Pcs == {"top", "claim", "online", "wait", "ack", "wake", "code", "poll", "bind", "store", "auth", "stay",
        "token", "mqtt", "polls", "beat", "again", "reauth", "nap", "end", "dead"}
Sessions == [pc : Pcs, back : {"claim", "online"}, sent : Nat, seen : Nat]
Pauses == [req : Nat, ack : Nat, gen : Nat]
TokenStates == [ok : BOOLEAN, tok : Tokens, cool : BOOLEAN]
Platforms == [valid : Nat, issued : Nat, revoked : SUBSET Nat, code : BOOLEAN, agent : BOOLEAN]
Replies == [kind : {"pending", "ok", "bound", "silent", "claimed", "expired", "waiting", "revoked", "no_agent"},
            key : Nat]

\* Types, and the session's task exists from cloud_session_start until its function returns.
TypeOK ==
  /\ ses \in Sessions
  /\ run \in BOOLEAN /\ alive \in BOOLEAN /\ (alive <=> ses.pc # "dead")
  /\ pause \in Pauses /\ app \in {"idle", "waiting", "local", "unpaused"}
  /\ key \in Nat /\ nvs \in Nat /\ unerased \in BOOLEAN /\ wiping \in BOOLEAN
  /\ token \in TokenStates /\ client \in Tokens /\ refused \in Tokens
  /\ net \in BOOLEAN /\ status \in Statuses
  /\ plat \in Platforms /\ reply \in Replies
  /\ events \in 0..MaxEvents

\* While the radio is in local use the session holds no MQTT client and has no request in flight,
\* whatever became of earlier pauses (cloud_session_pause's promise to agent_wifi_local_begin).
PauseMeansQuiet == app = "local" => client = NoToken /\ ~InRequest

\* A refusal that is waiting for the session task concerns the client that runs now and the token it
\* was started with, never one before; and the task it notifies exists (OnMqttRefused, StopMqtt).
RefusalIsCurrent ==
  /\ refused # NoToken => refused = client
  /\ client # NoToken /\ token.ok => client = token.tok
  /\ client # NoToken => alive

\* A key the platform has reported revoked is in no request sent later, before a restart of the device or a start of
\* the session that reads it again because erasing it had failed (HandleRevoked, cloud_cred_clear, cloud_cred_load).
RevokedKeyRests == InRequest /\ reply = Pending => ses.sent \notin plat.revoked

\* A client runs with a token that was issued for the key the device holds (StayOnline's last lines).
TokenOfKey == client # NoToken /\ key # 0 => client.key = key

Online == status = "online" /\ client # NoToken /\ client.key = plat.valid

\* Whatever happened, the device is online again and again, unless it was stopped or its task ended
\* (the key could not be stored): no refusal, loss or pause leaves the session stuck.
Recovers == []<>(Online \/ ~run \/ ~alive)

=============================================================================
