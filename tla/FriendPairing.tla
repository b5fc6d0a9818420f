---------------------------- MODULE FriendPairing ----------------------------
(***************************************************************************)
(* Friends over ESP-NOW: the protocol Engine of friend_protocol.h, one     *)
(* instance per device, over a radio that loses frames.  Devices may be    *)
(* switched off at any moment, with or without saying so.                  *)
(*                                                                         *)
(* Frames of one device reach another in order (one send queue, one event  *)
(* queue) or not at all; frames between a pair that do not fit MaxAir are  *)
(* lost too.  Nonces are random 64-bit numbers in the code: a renewed one  *)
(* is any that no device, frame or consent refers to.                      *)
(*                                                                         *)
(* Sequence numbers only serve comparisons.  As frames arrive in order,    *)
(* every frame but a repeated greeting is newer than all accepted before   *)
(* it, so the model counts greetings only: a frame carries the number of   *)
(* greetings made up to it (num), remote_seq_ is the largest num accepted. *)
(* Timers go off whenever they like; the radio, the keys and the check of  *)
(* the tag are external: a tag is right within the session it was made in. *)
(*                                                                         *)
(* Left out: names, signal strength, codes, events shown to the user, the  *)
(* seventh device in range; the queue of commands and the lease of the     *)
(* radio (wifi_friends.cc) but for its start and stop of the engine.       *)
(***************************************************************************)
EXTENDS Naturals, FiniteSets, Sequences, Functions

CONSTANTS
  Devices,
  Draws,       \* Draws[d]: the nonces device d may draw
  None,        \* no device, no nonce (zero bytes in the code)
  Limit,       \* retries of a greeting: 5
  MaxAir,      \* bound: frames on their way between a pair
  MaxGreets,   \* bound: greetings a device makes in a session
  MaxCommands  \* bound: commands that start something: begin, select, disconnect in discovery

Nonces == UNION {Draws[d] : d \in Devices}

\* Two devices never draw the same 64 bits.
ASSUME FriendAssumption ==
  /\ None \notin Devices \cup Nonces
  /\ \A d, e \in Devices : d # e => Draws[d] \cap Draws[e] = {}
  /\ {Limit, MaxAir, MaxGreets, MaxCommands} \subseteq Nat

VARIABLES
  dev,      \* the engine of each device
  air,      \* air[d][e]: frames on their way from d to e
  consent,  \* history: who accepted the pairing with d's present nonce, in which session
  used

vars == <<dev, air, consent, used>>

Others(d) == Devices \ {d}

Types == {"Hello", "Offer", "Answer", "Reject", "Confirm", "Heartbeat", "Greeting", "Ack", "Bye"}
Frames == [type : Types, nonce : Nonces, target : Devices \cup {None},
           tnonce : Nonces \cup {None}, confirmed : BOOLEAN, num : Nat, ack : Nat]

-----------------------------------------------------------------------------
\* Sessions.

\* The list of peers matters in discovery only; it is empty when that begins.
NoPeers == [e \in Devices |-> None]

Off ==
  [state |-> "off", nonce |-> None, remote |-> None, rnonce |-> None, keyed |-> FALSE,
   incoming |-> FALSE, local |-> FALSE, confirmed |-> FALSE, peers |-> NoPeers,
   made |-> 0, pending |-> FALSE, tries |-> 0, heard |-> 0, greeted |-> 0,
   sent |-> 0, received |-> 0]

\* A discovery with nonce n; nothing of an earlier session is left.
Scanning(n) == [Off EXCEPT !.state = "scanning", !.nonce = n]

\* No engine, frame or consent refers to nonce n.
Unused(n) ==
  \A x \in Devices :
    /\ n \notin {dev[x].nonce, dev[x].rnonce}
    /\ \A e \in Devices : dev[x].peers[e] # n /\ \A f \in Range(air[x][e]) : n \notin {f.nonce, f.tnonce}
    /\ \A c \in consent[x] : c[2] # n
Fresh(d) == {n \in Draws[d] : Unused(n)}

\* Mutants: what the remote said, or the nonce, survives the reset.
ResetKeepsConfirmed(d) ==
  /\ Fresh(d) # {}
  /\ dev' = [dev EXCEPT ![d] = [Scanning(CHOOSE n \in Fresh(d) : TRUE) EXCEPT !.confirmed = dev[d].confirmed]]
  /\ consent' = [consent EXCEPT ![d] = {}]
ResetKeepsNonce(d) ==
  /\ Fresh(d) # {}
  /\ dev' = [dev EXCEPT ![d] = Scanning(IF @.nonce = None THEN CHOOSE n \in Fresh(d) : TRUE ELSE @.nonce)]
  /\ consent' = [consent EXCEPT ![d] = {}]

\* d's engine returns to discovery with a new nonce.
Reset(d) ==
  /\ Fresh(d) # {}
  /\ dev' = [dev EXCEPT ![d] = Scanning(CHOOSE n \in Fresh(d) : TRUE)]
  /\ consent' = [consent EXCEPT ![d] = {}]

Init ==
  /\ dev = [d \in Devices |-> Off]
  /\ air = [d \in Devices |-> [e \in Devices |-> <<>>]]
  /\ consent = [d \in Devices |-> {}]
  /\ used = 0

-----------------------------------------------------------------------------
\* Frames: what an engine in state r makes, and to whom it goes.

Make(r, type) ==
  [type |-> type, nonce |-> r.nonce, target |-> r.remote, tnonce |-> r.rnonce,
   confirmed |-> r.local, num |-> r.made, ack |-> 0]

Public == {"Hello", "Offer", "Answer", "Reject"}

Fit(q) == IF Len(q) <= MaxAir THEN q ELSE SubSeq(q, 1, MaxAir)

\* The frames fs of d with engine state r go out: a public one, at the front if any, to all, the
\* others to the remote.
Hears(e, r, fs) == IF e = r.remote THEN fs ELSE IF fs[1].type \in Public THEN <<fs[1]>> ELSE <<>>
After(q, e, r, fs) == Fit(q \o Hears(e, r, fs))
Transmit(in, d, r, fs) ==
  [in EXCEPT ![d] = [e \in Devices |-> IF e = d THEN in[d][e] ELSE After(in[d][e], e, r, fs)]]

\* What d sends without anything else in the air changing.
Send(d, r, fs) == air' = Transmit(air, d, r, fs)
Say(d, r, type) == Send(d, r, <<Make(r, type)>>)

\* Leave a session, telling the remote.
Farewell(r) == IF r.keyed THEN "Bye" ELSE "Reject"

-----------------------------------------------------------------------------
\* Commands of the user.

Use == used < MaxCommands /\ used' = used + 1

Begin(d) == dev[d].state = "off" /\ Reset(d) /\ UNCHANGED <<air, used>>

Stop(d) ==
  /\ dev[d].state # "off" /\ Use
  /\ IF dev[d].state = "scanning" THEN UNCHANGED air ELSE Say(d, dev[d], Farewell(dev[d]))
  /\ dev' = [dev EXCEPT ![d] = Off]
  /\ consent' = [consent EXCEPT ![d] = {}]

PowerLoss(d) ==
  /\ dev[d].state # "off" /\ Use
  /\ dev' = [dev EXCEPT ![d] = Off]
  /\ consent' = [consent EXCEPT ![d] = {}]
  /\ UNCHANGED air

Select(d, e) ==
  LET r == [dev[d] EXCEPT !.remote = e, !.rnonce = dev[d].peers[e], !.state = "waiting",
                          !.incoming = FALSE, !.peers = NoPeers]
  IN  /\ dev[d].state = "scanning" /\ dev[d].peers[e] # None /\ Use
      /\ dev' = [dev EXCEPT ![d] = r]
      /\ Say(d, r, "Offer")
      /\ UNCHANGED consent

Connected(r) == IF r.local /\ r.confirmed THEN [r EXCEPT !.state = "connected"] ELSE r

\* History: d accepts; it counts for the remote if that is still in this session.
Consenting(d) ==
  LET e == dev[d].remote
  IN  IF e \in Devices /\ dev[d].rnonce = dev[e].nonce
      THEN [consent EXCEPT ![e] = @ \cup {<<d, dev[d].nonce>>}] ELSE consent

Accept(d) ==
  LET r == [dev[d] EXCEPT !.local = TRUE]
  IN  /\ dev[d].state = "confirm"
      /\ dev' = [dev EXCEPT ![d] = Connected(r)]
      /\ Say(d, r, "Confirm")
      /\ consent' = Consenting(d) /\ UNCHANGED used

Refuse(d) == dev[d].state = "confirm" /\ Use /\ Say(d, dev[d], "Bye") /\ Reset(d)

Disconnect(d) ==
  /\ dev[d].state # "off" /\ Use
  /\ IF dev[d].state = "scanning" THEN UNCHANGED air ELSE Say(d, dev[d], Farewell(dev[d]))
  /\ Reset(d)

Greeting(r) == Make(r, "Greeting")

Greet(d) ==
  LET r == [dev[d] EXCEPT !.made = @ + 1, !.pending = TRUE, !.tries = 0]
  IN  /\ dev[d].state = "connected" /\ ~dev[d].pending
      /\ dev[d].made < MaxGreets
      /\ dev' = [dev EXCEPT ![d] = r]
      /\ Send(d, r, <<Greeting(r)>>)
      /\ UNCHANGED <<consent, used>>

-----------------------------------------------------------------------------
\* Timers.  The repeated frames are 500 ms apart and more, a frame is on its way for much less.

Landed(d) == \A e \in Others(d) : air[d][e] = <<>>

SayHello(d) ==
  /\ dev[d].state = "scanning" /\ Landed(d)
  /\ Say(d, dev[d], "Hello") /\ UNCHANGED <<dev, consent, used>>

ForgetPeer(d, e) ==
  /\ dev[d].state = "scanning" /\ dev[d].peers[e] # None
  /\ dev' = [dev EXCEPT ![d].peers[e] = None]
  /\ UNCHANGED <<air, consent, used>>

Pairing(d) == dev[d].state \in {"waiting", "confirm"}

\* Mutant: a confirmation is sent once, when the user agrees.
RepeatedAnswer(r) == IF ~r.keyed THEN <<Make(r, "Offer")>> ELSE <<Make(r, "Answer")>>

\* Every 500 ms: what the remote may not have heard.
Repeated(r) ==
  IF ~r.keyed THEN <<Make(r, "Offer")>>
  ELSE IF r.incoming THEN <<Make(r, "Answer"), Make(r, "Confirm")>> ELSE <<Make(r, "Confirm")>>
Repeat(d) ==
  /\ Pairing(d) /\ Landed(d)
  /\ Send(d, dev[d], Repeated(dev[d])) /\ UNCHANGED <<dev, consent, used>>

Deadline(d) == Pairing(d) /\ Say(d, dev[d], Farewell(dev[d])) /\ Reset(d) /\ UNCHANGED used

\* 5 s without a frame from the remote.
Lost(d) == dev[d].state = "connected" /\ Reset(d) /\ UNCHANGED <<air, used>>

Heartbeat(d) ==
  /\ dev[d].state = "connected" /\ Landed(d)
  /\ Say(d, dev[d], "Heartbeat") /\ UNCHANGED <<dev, consent, used>>

GreetAgain(d) ==
  /\ dev[d].state = "connected" /\ dev[d].pending /\ Landed(d)
  /\ IF dev[d].tries = Limit
     THEN /\ dev' = [dev EXCEPT ![d].pending = FALSE, ![d].tries = 0]
          /\ UNCHANGED air
     ELSE /\ dev' = [dev EXCEPT ![d].tries = @ + 1]
          /\ Send(d, dev[d], <<Greeting(dev[d])>>)
  /\ UNCHANGED <<consent, used>>

-----------------------------------------------------------------------------
\* A frame of e reaches d.

Arriving(d, e) == air[e][d] # <<>>
Frame(d, e) == Head(air[e][d])
Taken(d, e) == [air EXCEPT ![e][d] = Tail(@)]
Reply(d, e, r, fs) == air' = Transmit(Taken(d, e), d, r, fs)

\* Mutant: the target's nonce is not compared.
ForMeAnySession(d, f) == f.target = d
\* For this device in its present session.
ForMe(d, f) == f.target = d /\ f.tnonce = dev[d].nonce
\* From the device it deals with, in that one's session.
FromRemote(d, e, f) == dev[d].remote = e /\ f.nonce = dev[d].rnonce

\* Pair: the secrets of the session are agreed on and installed.
Derived(r) == [r EXCEPT !.keyed = TRUE, !.heard = 0]

Discover(d, e, f) ==
  /\ f.type = "Hello" /\ dev[d].state = "scanning"
  /\ dev' = [dev EXCEPT ![d].peers[e] = f.nonce]
  /\ air' = Taken(d, e) /\ UNCHANGED <<consent, used>>

\* The session an offer starts, or belongs to.
Offered(d, e, f) ==
  IF dev[d].state = "scanning"
  THEN [dev[d] EXCEPT !.remote = e, !.rnonce = f.nonce, !.incoming = TRUE, !.peers = NoPeers] ELSE dev[d]

AcceptsOffer(d, e, f) ==
  /\ f.type = "Offer" /\ ForMe(d, f)
  /\ dev[d].state = "scanning" \/ FromRemote(d, e, f)

HearOffer(d, e, f) ==
  LET r == Offered(d, e, f)
      k == IF r.keyed THEN r ELSE Derived(r)
      s == IF k.state = "connected" THEN k ELSE [k EXCEPT !.state = "confirm"]
  IN  /\ AcceptsOffer(d, e, f)
      /\ dev' = [dev EXCEPT ![d] = s]
      /\ Reply(d, e, s, <<Make(s, "Answer")>>)
      /\ UNCHANGED <<consent, used>>

AcceptsAnswer(d, e, f) ==
  f.type = "Answer" /\ ForMe(d, f) /\ FromRemote(d, e, f) /\ Pairing(d)

HearAnswer(d, e, f) ==
  LET k == IF dev[d].keyed THEN dev[d] ELSE Derived(dev[d])
  IN  /\ AcceptsAnswer(d, e, f)
      /\ dev' = [dev EXCEPT ![d] = [k EXCEPT !.state = "confirm", !.incoming = FALSE]]
      /\ air' = Taken(d, e) /\ UNCHANGED <<consent, used>>

\* The keys cannot be derived or installed.
PairFails(d, e, f) ==
  /\ ~dev[d].keyed
  /\ AcceptsOffer(d, e, f) \/ AcceptsAnswer(d, e, f)
  /\ air' = Taken(d, e) /\ Reset(d) /\ UNCHANGED used

HearReject(d, e, f) ==
  /\ f.type = "Reject" /\ ForMe(d, f) /\ FromRemote(d, e, f) /\ dev[d].state = "waiting"
  /\ air' = Taken(d, e) /\ Reset(d) /\ UNCHANGED used

\* Encrypted unicast of this session, its tag right.
Sealed(d, e, f) == ForMe(d, f) /\ FromRemote(d, e, f) /\ dev[d].keyed

HearBye(d, e, f) ==
  /\ f.type = "Bye" /\ Sealed(d, e, f)
  /\ air' = Taken(d, e) /\ Reset(d) /\ UNCHANGED used

Heard(r, f) == [r EXCEPT !.heard = IF f.num > @ THEN f.num ELSE @]

HearConfirm(d, e, f) ==
  LET r == [Heard(dev[d], f) EXCEPT !.confirmed = f.confirmed]
  IN  /\ f.type \in {"Confirm", "Heartbeat"} /\ Sealed(d, e, f)
      /\ dev' = [dev EXCEPT ![d] = Connected(r)]
      /\ air' = Taken(d, e) /\ UNCHANGED <<consent, used>>

\* Mutant: a repeated greeting counts again.
CountedAgain(r, f) == [r EXCEPT !.greeted = f.num, !.received = @ + 1]

\* A greeting is counted once, however often it is repeated.
Counted(r, f) ==
  IF f.num > r.greeted THEN [r EXCEPT !.greeted = f.num, !.received = @ + 1] ELSE r

HearGreeting(d, e, f) ==
  LET r == Heard(dev[d], f)
  IN  /\ f.type = "Greeting" /\ Sealed(d, e, f)
      /\ IF dev[d].state = "connected"
         THEN /\ dev' = [dev EXCEPT ![d] = Counted(r, f)]
              /\ Reply(d, e, r, <<[Make(r, "Ack") EXCEPT !.ack = f.num]>>)
         ELSE dev' = [dev EXCEPT ![d] = r] /\ air' = Taken(d, e)
      /\ UNCHANGED <<consent, used>>

\* The acknowledgment ends the greeting that is pending, no other.
Acked(r, f) ==
  IF r.pending /\ f.ack = r.made
  THEN [r EXCEPT !.pending = FALSE, !.tries = 0, !.sent = @ + 1] ELSE r

HearAck(d, e, f) ==
  LET r == Heard(dev[d], f)
  IN  /\ f.type = "Ack" /\ Sealed(d, e, f)
      /\ dev' = [dev EXCEPT ![d] = IF r.state = "connected" THEN Acked(r, f) ELSE r]
      /\ air' = Taken(d, e) /\ UNCHANGED <<consent, used>>

Heeded(d, e, f) ==
  \/ f.type = "Hello" /\ dev[d].state = "scanning"
  \/ AcceptsOffer(d, e, f) \/ AcceptsAnswer(d, e, f)
  \/ f.type = "Reject" /\ ForMe(d, f) /\ FromRemote(d, e, f) /\ dev[d].state = "waiting"
  \/ f.type \notin Public /\ Sealed(d, e, f)

Ignore(d, e, f) ==
  ~Heeded(d, e, f) /\ air' = Taken(d, e) /\ UNCHANGED <<dev, consent, used>>

Hear(d, e, f) ==
  \/ Discover(d, e, f) \/ HearOffer(d, e, f) \/ HearAnswer(d, e, f) \/ PairFails(d, e, f)
  \/ HearReject(d, e, f) \/ HearBye(d, e, f) \/ HearConfirm(d, e, f) \/ HearGreeting(d, e, f)
  \/ HearAck(d, e, f) \/ Ignore(d, e, f)

Receive(d, e) == Arriving(d, e) /\ Hear(d, e, Frame(d, e))

\* The radio: a frame is lost.
Lose(d, e) == Arriving(d, e) /\ air' = Taken(d, e) /\ UNCHANGED <<dev, consent, used>>

Command(d) ==
  \/ Begin(d) \/ Stop(d) \/ PowerLoss(d) \/ Accept(d) \/ Refuse(d) \/ Disconnect(d) \/ Greet(d)
  \/ \E e \in Others(d) : Select(d, e)
Tick(d) ==
  \/ SayHello(d) \/ Repeat(d) \/ Deadline(d) \/ Lost(d) \/ Heartbeat(d) \/ GreetAgain(d)
  \/ \E e \in Others(d) : ForgetPeer(d, e)

Next ==
  \E d \in Devices :
    \/ Command(d) \/ Tick(d)
    \/ \E e \in Others(d) : Receive(d, e) \/ Lose(d, e)

\* Both are in the same session, and know it.
Mirror(d, e) ==
  /\ dev[d].remote = e /\ dev[d].rnonce = dev[e].nonce /\ dev[d].keyed
  /\ dev[e].remote = d /\ dev[e].rnonce = dev[d].nonce /\ dev[e].keyed

(* Timers run.  Of the confirmations and heartbeats that are sent again    *)
(* and again some get through.  A device whose remote has left the session *)
(* hears nothing of it any more, and 5 s pass; no more is said of Lost.    *)
Fairness ==
  \A d \in Devices :
    /\ WF_vars(Repeat(d) \/ Heartbeat(d))
    /\ WF_vars(Lost(d) /\ \A e \in Others(d) : ~Mirror(d, e))
    /\ \A e \in Others(d) :
         /\ WF_vars(Receive(d, e) \/ Lose(d, e))
         /\ SF_vars(Arriving(d, e) /\ HearConfirm(d, e, Frame(d, e)))

Spec == Init /\ [][Next]_vars /\ Fairness

-----------------------------------------------------------------------------
States == {"off", "scanning", "waiting", "confirm", "connected"}
Engines == [state : States, nonce : Nonces \cup {None}, remote : Devices \cup {None}, rnonce : Nonces \cup {None},
            keyed : BOOLEAN, incoming : BOOLEAN, local : BOOLEAN, confirmed : BOOLEAN,
            peers : [Devices -> Nonces \cup {None}], made : Nat, pending : BOOLEAN, tries : 0..Limit,
            heard : Nat, greeted : Nat, sent : Nat, received : Nat]

\* Types; no more frames on their way between a pair than fit.
TypeOK ==
  /\ dev \in [Devices -> Engines]
  /\ air \in [Devices -> [Devices -> Seq(Frames)]]
  /\ \A d, e \in Devices : Len(air[d][e]) <= MaxAir
  /\ consent \in [Devices -> SUBSET (Devices \X Nonces)]

(* A device shows a friend only after both users agreed to this very       *)
(* pairing: its own, and the friend's in the session whose nonces and      *)
(* keys it holds; nothing of a broken-off pairing counts.                  *)
MutualConsent ==
  \A d \in Devices :
    dev[d].state = "connected" =>
      dev[d].local /\ <<dev[d].remote, dev[d].rnonce>> \in consent[d]

(* Two devices that show each other as friends hold the same keys.         *)
SameSession ==
  \A d, e \in Devices :
    /\ dev[d].state = "connected" /\ dev[e].state = "connected"
    /\ dev[d].remote = e /\ dev[e].remote = d
    => Mirror(d, e)

(* A greeting the user is told has arrived was shown to the friend, and    *)
(* one that was repeated because its acknowledgment was lost, or arrived   *)
(* behind newer frames, is shown once.                                     *)
GreetedOnce ==
  \A d, e \in Devices :
    Mirror(d, e) => dev[d].sent <= dev[e].received /\ dev[e].received <= dev[d].made

(* Once both users have agreed, both devices are connected, whatever       *)
(* frames are lost, unless one of them leaves the session.                 *)
ConsentConnects ==
  \A d \in Devices : \A e \in Others(d) :
    Mirror(d, e) /\ dev[d].local /\ dev[e].local
      ~> (dev[d].state = "connected" /\ dev[e].state = "connected") \/ ~Mirror(d, e)

(* A device that was left by its friend does not show it for ever.         *)
HalfOpenEnds ==
  \A d \in Devices :
    dev[d].state = "connected" /\ (\A e \in Others(d) : ~Mirror(d, e)) ~> dev[d].state # "connected"

=============================================================================
