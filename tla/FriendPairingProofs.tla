------------------------ MODULE FriendPairingProofs ------------------------
(***************************************************************************)
(* Proofs about FriendPairing, for any devices, nonces and bounds.         *)
(*                                                                         *)
(* MutualConsent is not inductive: a device is told of the other user's    *)
(* consent by a frame that may have been under way for any time, through   *)
(* any number of sessions.  IInv therefore says of every frame in the air  *)
(* that what it says of its sender's consent is true for the session it    *)
(* is addressed to, and of every engine that what it may say later is; a   *)
(* fresh nonce makes all that is under way to its device void.  For        *)
(* SameSession it also says that two acceptances cannot both be stale      *)
(* (Crossed): each side's fresh nonce is older than what it answers.       *)
(*                                                                         *)
(* GreetedOnce needs more, and GInv says it on top of IInv: what a frame   *)
(* numbers or acknowledges, its sender has made or counted in this very    *)
(* session; a device told of an arrival by a friend that does not know its *)
(* present session cannot be (Told); and the greeting that is pending is   *)
(* one more than was told, if the friend has counted it.                   *)
(***************************************************************************)
EXTENDS FriendPairing, SequenceTheorems, TLAPS

\* Fit keeps the front of a queue, at most MaxAir frames.
LEMMA FitTyped ==
  ASSUME NEW S, NEW q \in Seq(S)
  PROVE Fit(q) \in Seq(S) /\ Len(Fit(q)) <= MaxAir /\ \A i \in 1..Len(Fit(q)) : i \in 1..Len(q) /\ Fit(q)[i] = q[i]
<1>1. MaxAir \in Nat /\ Len(q) \in Nat
  BY FriendAssumption
<1>2. CASE Len(q) <= MaxAir
  BY <1>1, <1>2 DEF Fit
<1>3. CASE ~(Len(q) <= MaxAir)
  <2>1. \A i \in 1..MaxAir : q[i] \in S
    BY <1>1, <1>3
  <2>2. /\ SubSeq(q, 1, MaxAir) \in Seq(S) /\ Len(SubSeq(q, 1, MaxAir)) = IF 1 <= MaxAir THEN MaxAir - 1 + 1 ELSE 0
        /\ \A i \in 1..(MaxAir - 1 + 1) : SubSeq(q, 1, MaxAir)[i] = q[1 + i - 1]
    BY <1>1, <2>1, SubSeqProperties
  <2>3. Len(SubSeq(q, 1, MaxAir)) = MaxAir
    BY <1>1, <2>2
  <2> QED BY <1>1, <1>3, <2>2, <2>3 DEF Fit
<1> QED BY <1>2, <1>3

\* An element of a concatenation is one of either part.
LEMMA Cat ==
  ASSUME NEW S, NEW p \in Seq(S), NEW q \in Seq(S)
  PROVE p \o q \in Seq(S) /\ \A i \in 1..Len(p \o q) : (i \in 1..Len(p) /\ (p \o q)[i] = p[i])
        \/ (i - Len(p) \in 1..Len(q) /\ (p \o q)[i] = q[i - Len(p)])
<1>1. Len(p) \in Nat /\ Len(q) \in Nat
  OBVIOUS
<1> QED BY <1>1, ConcatProperties

\* The sequence of one element.
LEMMA OneOf ==
  ASSUME NEW S, NEW a \in S
  PROVE <<a>> \in Seq(S) /\ Len(<<a>>) = 1 /\ <<a>>[1] = a
OBVIOUS

\* The tail of a sequence, element by element.
LEMMA Tl ==
  ASSUME NEW S, NEW q \in Seq(S), q # <<>>
  PROVE Tail(q) \in Seq(S) /\ Head(q) = q[1] /\ Head(q) \in S /\ Len(Tail(q)) = Len(q) - 1 /\ 1 \in 1..Len(q)
        /\ \A i \in 1..Len(Tail(q)) : Tail(q)[i] = q[i+1] /\ i + 1 \in 1..Len(q)
BY HeadTailProperties

-----------------------------------------------------------------------------
(* Queues of frames *)

\* The frames of a queue, as a set.
On(q) == {q[i] : i \in 1..Len(q)}

\* Fit adds no frame.
LEMMA FitOn ==
  ASSUME NEW S, NEW q \in Seq(S)
  PROVE  Fit(q) \in Seq(S) /\ Len(Fit(q)) <= MaxAir /\ On(Fit(q)) \subseteq On(q)
BY FitTyped DEF On

\* A concatenation holds the frames of its parts.
LEMMA CatOn ==
  ASSUME NEW S, NEW p \in Seq(S), NEW q \in Seq(S)
  PROVE  p \o q \in Seq(S) /\ On(p \o q) \subseteq On(p) \cup On(q)
BY Cat DEF On

\* Taking the first frame adds none.
LEMMA TailOn ==
  ASSUME NEW S, NEW q \in Seq(S), q # <<>>
  PROVE  Tail(q) \in Seq(S) /\ On(Tail(q)) \subseteq On(q) /\ Head(q) \in On(q) /\ Head(q) \in S
         /\ Len(Tail(q)) <= Len(q)
<1>1. Len(q) \in Nat /\ Len(Tail(q)) = Len(q) - 1
  BY Tl
<1>2. Len(Tail(q)) <= Len(q)
  BY <1>1
<1> QED BY <1>2, Tl DEF On

\* Another device than the remote hears public frames only.
LEMMA HearsOn ==
  ASSUME NEW fs \in Seq(Frames), fs # <<>>, NEW e, NEW r
  PROVE  /\ Hears(e, r, fs) \in Seq(Frames) /\ On(Hears(e, r, fs)) \subseteq On(fs)
         /\ \A f \in On(Hears(e, r, fs)) : e = r.remote \/ f.type \in Public
<1>1. 1 \in 1..Len(fs) /\ fs[1] \in Frames
  OBVIOUS
<1>2. <<fs[1]>> \in Seq(Frames) /\ On(<<fs[1]>>) = {fs[1]}
  BY <1>1, OneOf DEF On
<1>3. On(<<>>) = {}
  BY DEF On
<1>4. CASE e = r.remote
  BY <1>4 DEF Hears
<1>5. CASE e # r.remote /\ fs[1].type \in Public
  BY <1>1, <1>2, <1>5 DEF Hears, On
<1>6. CASE e # r.remote /\ fs[1].type \notin Public
  BY <1>3, <1>6 DEF Hears
<1> QED BY <1>4, <1>5, <1>6

\* What one device has coming after a transmission: what it had, and frames it may hear.
LEMMA AfterOn ==
  ASSUME NEW q \in Seq(Frames), NEW fs \in Seq(Frames), fs # <<>>, NEW e, NEW r
  PROVE  /\ After(q, e, r, fs) \in Seq(Frames) /\ Len(After(q, e, r, fs)) <= MaxAir
         /\ \A f \in On(After(q, e, r, fs)) : f \in On(q) \/ (f \in On(fs) /\ (e = r.remote \/ f.type \in Public))
<1> DEFINE h == Hears(e, r, fs)
<1>1. h \in Seq(Frames) /\ On(h) \subseteq On(fs) /\ \A f \in On(h) : e = r.remote \/ f.type \in Public
  BY HearsOn
<1>2. q \o h \in Seq(Frames) /\ On(q \o h) \subseteq On(q) \cup On(h)
  BY <1>1, CatOn
<1>3. Fit(q \o h) \in Seq(Frames) /\ Len(Fit(q \o h)) <= MaxAir /\ On(Fit(q \o h)) \subseteq On(q \o h)
  BY <1>2, FitOn
<1>4. After(q, e, r, fs) = Fit(q \o h)
  BY DEF After
<1> HIDE DEF h
<1> QED BY <1>1, <1>2, <1>3, <1>4

\* Queues of frames between devices.
Air == [Devices -> [Devices -> Seq(Frames)]]

\* No queue is longer than MaxAir.
Bounded(in) == \A s, e \in Devices : Len(in[s][e]) <= MaxAir

\* A transmission adds frames of its sender only, to queues of others only.
LEMMA TransmitOn ==
  ASSUME NEW in \in Air, Bounded(in), NEW d \in Devices, NEW r, NEW fs \in Seq(Frames), fs # <<>>
  PROVE  /\ Transmit(in, d, r, fs) \in Air /\ Bounded(Transmit(in, d, r, fs))
         /\ \A s, e \in Devices : \A f \in On(Transmit(in, d, r, fs)[s][e]) :
              f \in On(in[s][e]) \/ (s = d /\ e # d /\ f \in On(fs) /\ (e = r.remote \/ f.type \in Public))
<1> DEFINE row == [e \in Devices |-> IF e = d THEN in[d][e] ELSE After(in[d][e], e, r, fs)]
<1>1. \A s, e \in Devices : in[s][e] \in Seq(Frames)
  BY DEF Air
<1>2. ASSUME NEW e \in Devices, e # d
      PROVE  /\ row[e] \in Seq(Frames) /\ Len(row[e]) <= MaxAir
             /\ \A f \in On(row[e]) : f \in On(in[d][e]) \/ (f \in On(fs) /\ (e = r.remote \/ f.type \in Public))
  <2>1. row[e] = After(in[d][e], e, r, fs)
    BY <1>2
  <2> QED BY <1>1, <2>1, AfterOn
<1>3. row[d] = in[d][d]
  OBVIOUS
<1>4. row \in [Devices -> Seq(Frames)]
  <2>1. \A e \in Devices : row[e] \in Seq(Frames)
    BY <1>1, <1>2, <1>3
  <2> QED BY <2>1
<1>5. Transmit(in, d, r, fs) = [in EXCEPT ![d] = row]
  BY DEF Transmit
<1>6. /\ [in EXCEPT ![d] = row] \in Air
      /\ \A s, e \in Devices : [in EXCEPT ![d] = row][s][e] = IF s = d THEN row[e] ELSE in[s][e]
  <2> HIDE DEF row
  <2> QED BY <1>4 DEF Air
<1> HIDE DEF row
<1> QED BY <1>1, <1>2, <1>3, <1>5, <1>6 DEF Bounded

\* Taking a frame off a queue yields a frame of that queue and adds none.
LEMMA TakenOn ==
  ASSUME air \in Air, Bounded(air), NEW d \in Devices, NEW e \in Devices, Arriving(d, e)
  PROVE  /\ Taken(d, e) \in Air /\ Bounded(Taken(d, e))
         /\ Frame(d, e) \in Frames /\ Frame(d, e) \in On(air[e][d])
         /\ \A s, x \in Devices : On(Taken(d, e)[s][x]) \subseteq On(air[s][x])
<1> DEFINE q == air[e][d]
<1>1. q \in Seq(Frames) /\ q # <<>> /\ air[e] \in [Devices -> Seq(Frames)]
  BY DEF Air, Arriving
<1>2. /\ Tail(q) \in Seq(Frames) /\ On(Tail(q)) \subseteq On(q) /\ Head(q) \in On(q) /\ Head(q) \in Frames
      /\ Len(Tail(q)) <= Len(q)
  BY <1>1, TailOn
<1>3. Taken(d, e) = [air EXCEPT ![e] = [air[e] EXCEPT ![d] = Tail(q)]]
  BY DEF Taken, Air
<1>4. [air[e] EXCEPT ![d] = Tail(q)] \in [Devices -> Seq(Frames)]
  BY <1>1, <1>2
<1>5. /\ Taken(d, e) \in Air
      /\ \A s, x \in Devices : Taken(d, e)[s][x] = IF s = e /\ x = d THEN Tail(q) ELSE air[s][x]
  <2> DEFINE row == [air[e] EXCEPT ![d] = Tail(q)]
  <2>1. row \in [Devices -> Seq(Frames)] /\ \A x \in Devices : row[x] = IF x = d THEN Tail(q) ELSE air[e][x]
    BY <1>1, <1>4
  <2>2. Taken(d, e) = [air EXCEPT ![e] = row]
    BY <1>3
  <2> HIDE DEF row
  <2>3. [air EXCEPT ![e] = row] \in Air /\ \A s \in Devices : [air EXCEPT ![e] = row][s] = IF s = e THEN row ELSE air[s]
    BY <2>1 DEF Air
  <2> QED BY <2>1, <2>2, <2>3
<1>6. Len(Tail(q)) <= MaxAir
  <2>1. Len(q) <= MaxAir /\ Len(q) \in Nat /\ Len(Tail(q)) \in Nat /\ MaxAir \in Nat
    BY <1>1, <1>2, FriendAssumption DEF Bounded
  <2> QED BY <1>2, <2>1
<1> QED BY <1>2, <1>5, <1>6 DEF Bounded, Frame

-----------------------------------------------------------------------------
(* The invariant *)

\* Flags go with the state of the engine: nothing is keyed, agreed or confirmed before "confirm",
\* and from "waiting" on the engine knows the remote's nonce.
Phase(r) ==
  /\ r.state # "off" => r.nonce \in Nonces
  /\ r.state \in {"off", "scanning"} => r.remote = None
  /\ r.state \in {"off", "scanning", "waiting"} => ~r.keyed /\ ~r.local /\ ~r.confirmed
  /\ r.state \in {"waiting", "confirm", "connected"} => r.rnonce \in Nonces
  /\ r.state \in {"confirm", "connected"} => r.keyed

\* What d's flags stand for: an acceptance of d counts for the remote while that is in the same
\* session, and what d was told of the remote's acceptance is true.
Agreed(d) ==
  LET r == dev[d] IN
  /\ r.state \in {"waiting", "confirm", "connected"} => r.remote \in Others(d)
  /\ r.local /\ r.rnonce = dev[r.remote].nonce => <<d, r.nonce>> \in consent[r.remote]
  /\ r.confirmed => <<r.remote, r.rnonce>> \in consent[d]
  /\ r.state = "connected" => r.local /\ <<r.remote, r.rnonce>> \in consent[d]

\* A frame of s that says its user accepted is true for e, if it is meant for e's present session.
Honest(s, e, f) ==
  f.confirmed =>
    /\ f.tnonce # None
    /\ f.target = e /\ f.tnonce = dev[e].nonce => <<s, f.nonce>> \in consent[e]

\* Who accepted the pairing with d's present nonce, and has the same nonce still, is in that session.
Bound(d, e) ==
  \A n \in Nonces : <<e, n>> \in consent[d] /\ dev[e].nonce = n =>
    dev[e].remote = d /\ dev[e].rnonce = dev[d].nonce /\ dev[e].keyed

\* Two devices that accepted each other did not both leave their session since.
Crossed(d, e) ==
  \A n, m \in Nonces : <<e, n>> \in consent[d] /\ <<d, m>> \in consent[e] => n = dev[e].nonce \/ m = dev[d].nonce

\* The inductive invariant.
IInv ==
  /\ TypeOK
  /\ \A d, e \in Devices : d # e => Bound(d, e) /\ Crossed(d, e)
  /\ \A d \in Devices : Phase(dev[d]) /\ Agreed(d)
  /\ \A s, e \in Devices : \A f \in On(air[s][e]) : Honest(s, e, f)

\* Frame f says what engine state r makes it say.
Says(f, r) == f.nonce = r.nonce /\ f.target = r.remote /\ f.tnonce = r.rnonce /\ f.confirmed = r.local

\* A fresh nonce is in no engine and in no frame.
LEMMA UnusedMeans ==
  ASSUME TypeOK, NEW n, Unused(n)
  PROVE  /\ \A x \in Devices : dev[x].nonce # n /\ dev[x].rnonce # n /\ \A y : <<y, n>> \notin consent[x]
         /\ \A s, e \in Devices : \A f \in On(air[s][e]) : f.tnonce # n
<1>1. ASSUME NEW s \in Devices, NEW e \in Devices, NEW f \in On(air[s][e]) PROVE f.tnonce # n
  <2>1. air[s][e] \in Seq(Frames)
    BY DEF TypeOK
  <2>2. f \in Range(air[s][e])
    BY <2>1 DEF On, Range
  <2> QED BY <2>2 DEF Unused
<1> QED BY <1>1 DEF Unused

\* A step of device d keeps the invariant if the other devices and their consents stay, d keeps its
\* nonce or takes a fresh one (or none), new frames say what d may say, and d's own flags are true.
LEMMA StepInv ==
  ASSUME IInv, TypeOK', NEW d \in Devices, NEW r,
         \A x \in Devices : x # d => dev'[x] = dev[x] /\ consent[x] \subseteq consent'[x],
         \/ /\ dev'[d].nonce = dev[d].nonce /\ consent[d] \subseteq consent'[d]
            /\ dev[d].keyed => dev'[d].keyed /\ dev'[d].remote = dev[d].remote /\ dev'[d].rnonce = dev[d].rnonce
         \/ consent'[d] = {} /\ (dev'[d].nonce = None \/ Unused(dev'[d].nonce)),
         \A x \in Devices : \A c \in consent'[x] : c \in consent[x] \/
            /\ c = <<d, dev'[d].nonce>> /\ x = dev'[d].remote /\ dev'[d].rnonce = dev[x].nonce
            /\ dev'[d].keyed /\ x # d,
         \A s, e \in Devices : \A f \in On(air'[s][e]) :
            f \in On(air[s][e]) \/ (s = d /\ e # d /\ Says(f, r)),
         r.local => /\ r.remote \in Others(d) /\ r.rnonce \in Nonces
                    /\ r.rnonce = dev[r.remote].nonce => <<d, r.nonce>> \in consent'[r.remote],
         Phase(dev'[d]), Agreed(d)'
  PROVE  IInv'
<1>n. None \notin Nonces
  BY FriendAssumption
<1>u. ASSUME Unused(dev'[d].nonce)
      PROVE  /\ \A x \in Devices : dev[x].rnonce # dev'[d].nonce
             /\ \A s, e \in Devices : \A f \in On(air[s][e]) : f.tnonce # dev'[d].nonce
             /\ \A x \in Devices : \A y : <<y, dev'[d].nonce>> \notin consent[x]
  BY <1>u, UnusedMeans DEF IInv
<1>1. ASSUME NEW x \in Devices, x # d PROVE Phase(dev'[x]) /\ Agreed(x)'
  <2>1. Phase(dev[x]) /\ Agreed(x) /\ dev'[x] = dev[x] /\ consent[x] \subseteq consent'[x]
    BY <1>1 DEF IInv
  <2>2. ASSUME dev[x].local, dev[x].rnonce = dev'[dev[x].remote].nonce
        PROVE  <<x, dev[x].nonce>> \in consent'[dev[x].remote]
    <3>1. dev[x].state \in States
      BY DEF IInv, TypeOK, Engines
    <3>2. dev[x].remote \in Devices /\ dev[x].rnonce \in Nonces
      BY <2>1, <2>2, <3>1 DEF Phase, Agreed, States, Others
    <3>4. CASE dev[x].remote # d
      BY <2>1, <2>2, <3>2, <3>4 DEF Agreed
    <3>5. CASE dev[x].remote = d
      BY <1>n, <1>u, <2>1, <2>2, <3>2, <3>5 DEF Agreed
    <3> QED BY <3>4, <3>5
  <2> QED BY <2>1, <2>2 DEF Agreed
<1>2. ASSUME NEW s \in Devices, NEW e \in Devices, NEW f \in On(air'[s][e]) PROVE Honest(s, e, f)'
  <2>1. CASE f \in On(air[s][e])
    <3>1. Honest(s, e, f)
      BY <2>1 DEF IInv
    <3> QED BY <1>u, <2>1, <3>1 DEF Honest
  <2>2. CASE s = d /\ e # d /\ Says(f, r)
    <3>1. f.confirmed => f.tnonce # None
      BY <1>n, <2>2 DEF Says
    <3>2. dev'[e] = dev[e]
      BY <2>2
    <3> QED BY <2>2, <3>1, <3>2 DEF Says, Honest
  <2> QED BY <2>1, <2>2
<1>3. ASSUME NEW x \in Devices, NEW y \in Devices, x # y PROVE Bound(x, y)'
  <2> SUFFICES ASSUME NEW n \in Nonces, <<y, n>> \in consent'[x], dev'[y].nonce = n
               PROVE  dev'[y].remote = x /\ dev'[y].rnonce = dev'[x].nonce /\ dev'[y].keyed
    BY DEF Bound
  <2>1. CASE <<y, n>> \in consent[x]
    <3>1. dev[y].nonce = n => dev[y].remote = x /\ dev[y].rnonce = dev[x].nonce /\ dev[y].keyed
      BY <1>3, <2>1 DEF IInv, Bound
    <3>2. CASE y = d
      BY <1>3, <1>u, <1>n, <2>1, <3>1, <3>2
    <3>3. CASE x = d
      BY <1>3, <3>1, <3>3
    <3> QED BY <3>1, <3>2, <3>3
  <2>2. CASE <<y, n>> \notin consent[x]
    <3>1. /\ <<y, n>> = <<d, dev'[d].nonce>> /\ x = dev'[d].remote /\ dev'[d].rnonce = dev[x].nonce
          /\ dev'[d].keyed /\ x # d
      BY <2>2
    <3> QED BY <3>1
  <2> QED BY <2>1, <2>2
<1>4. ASSUME NEW x \in Devices, NEW y \in Devices, x # y PROVE Crossed(x, y)'
  <2> SUFFICES ASSUME NEW n \in Nonces, NEW m \in Nonces, <<y, n>> \in consent'[x], <<x, m>> \in consent'[y]
               PROVE  n = dev'[y].nonce \/ m = dev'[x].nonce
    BY DEF Crossed
  <2>1. CASE <<y, n>> \in consent[x] /\ <<x, m>> \in consent[y]
    <3>1. n = dev[y].nonce \/ m = dev[x].nonce
      BY <1>4, <2>1 DEF IInv, Crossed
    <3> QED BY <1>4, <3>1
  <2>2. CASE <<y, n>> \notin consent[x]
    <3>1. <<y, n>> = <<d, dev'[d].nonce>>
      BY <2>2
    <3> QED BY <3>1
  <2>3. CASE <<x, m>> \notin consent[y]
    <3>1. <<x, m>> = <<d, dev'[d].nonce>>
      BY <2>3
    <3> QED BY <3>1
  <2> QED BY <2>1, <2>2, <2>3
<1> QED BY <1>1, <1>2, <1>3, <1>4 DEF IInv

-----------------------------------------------------------------------------
(* Steps in general *)

\* What happens in the air when d, in engine state r, takes a step.
AirStep(d, r) ==
  /\ air' \in Air /\ Bounded(air')
  /\ \A s, e \in Devices : \A f \in On(air'[s][e]) : f \in On(air[s][e]) \/ (s = d /\ e # d /\ Says(f, r))

\* The frames fs all say what r makes them say.
Said(fs, r) == fs \in Seq(Frames) /\ fs # <<>> /\ \A f \in On(fs) : Says(f, r)

\* The frames an engine makes are frames and say what its state says.
LEMMA MakeTyped ==
  ASSUME NEW r \in Engines, r.nonce \in Nonces, NEW type \in Types, NEW n \in Nat
  PROVE  /\ Make(r, type) \in Frames /\ Says(Make(r, type), r)
         /\ [Make(r, type) EXCEPT !.ack = n] \in Frames /\ Says([Make(r, type) EXCEPT !.ack = n], r)
<1>1. r.remote \in Devices \cup {None} /\ r.rnonce \in Nonces \cup {None} /\ r.local \in BOOLEAN /\ r.made \in Nat
  BY DEF Engines
<1>2. ASSUME NEW b \in BOOLEAN, NEW t \in Devices \cup {None}, NEW tn \in Nonces \cup {None}, NEW m \in Nat,
             NEW a \in Nat
      PROVE  [type |-> type, nonce |-> r.nonce, target |-> t, tnonce |-> tn, confirmed |-> b, num |-> m, ack |-> a] \in Frames
  BY DEF Frames
<1>3. [Make(r, type) EXCEPT !.ack = n] = [type |-> type, nonce |-> r.nonce, target |-> r.remote, tnonce |-> r.rnonce,
   confirmed |-> r.local, num |-> r.made, ack |-> n]
  BY DEF Make
<1> QED BY <1>1, <1>2, <1>3 DEF Make, Says

\* A single frame that says what r makes it say.
LEMMA OneSaid ==
  ASSUME NEW r, NEW f \in Frames, Says(f, r)
  PROVE  Said(<<f>>, r)
<1>1. <<f>> \in Seq(Frames) /\ Len(<<f>>) = 1 /\ <<f>>[1] = f
  BY OneOf
<1> QED BY <1>1 DEF Said, On

\* So do the frames repeated while pairing.
LEMMA RepeatedSaid ==
  ASSUME NEW r \in Engines, r.nonce \in Nonces
  PROVE  Said(Repeated(r), r)
<1>1. \A type \in Types : Make(r, type) \in Frames /\ Says(Make(r, type), r) /\ <<Make(r, type)>> \in Seq(Frames)
  <2>1. 0 \in Nat
    OBVIOUS
  <2> QED BY <2>1, MakeTyped, OneOf
<1>2. "Offer" \in Types /\ "Answer" \in Types /\ "Confirm" \in Types
  BY DEF Types
<1>3. \A type \in Types : Said(<<Make(r, type)>>, r)
  BY <1>1, OneSaid
<1>6. Said(<<Make(r, "Answer"), Make(r, "Confirm")>>, r)
  BY <1>1, <1>2 DEF Said, On
<1>7. CASE ~r.keyed
  BY <1>2, <1>3, <1>7 DEF Repeated
<1>8. CASE r.keyed /\ r.incoming
  BY <1>6, <1>8 DEF Repeated
<1>9. CASE r.keyed /\ ~r.incoming
  BY <1>2, <1>3, <1>9 DEF Repeated
<1> QED BY <1>7, <1>8, <1>9

\* The air of a well-typed state.
LEMMA AirTyped ==
  ASSUME TypeOK
  PROVE  air \in Air /\ Bounded(air)
BY DEF TypeOK, Air, Bounded

\* Sending is an air step.
LEMMA SendAir ==
  ASSUME TypeOK, NEW d \in Devices, NEW r, NEW fs, Said(fs, r), Send(d, r, fs)
  PROVE  AirStep(d, r)
BY AirTyped, TransmitOn DEF Said, Send, AirStep

\* So is taking a frame and answering it.
LEMMA ReplyAir ==
  ASSUME TypeOK, NEW d \in Devices, NEW e \in Devices, Arriving(d, e), NEW r, NEW fs, Said(fs, r), Reply(d, e, r, fs)
  PROVE  AirStep(d, r)
<1>1. /\ Taken(d, e) \in Air /\ Bounded(Taken(d, e))
      /\ \A s, x \in Devices : On(Taken(d, e)[s][x]) \subseteq On(air[s][x])
  BY AirTyped, TakenOn
<1>2. /\ air' \in Air /\ Bounded(air')
      /\ \A s, x \in Devices : \A f \in On(air'[s][x]) :
           f \in On(Taken(d, e)[s][x]) \/ (s = d /\ x # d /\ f \in On(fs))
  BY <1>1, TransmitOn DEF Reply, Said
<1> QED BY <1>1, <1>2 DEF AirStep, Said

\* So is taking a frame.
LEMMA TakenAir ==
  ASSUME TypeOK, NEW d \in Devices, NEW e \in Devices, Arriving(d, e), air' = Taken(d, e), NEW x \in Devices, NEW r
  PROVE  AirStep(x, r)
BY AirTyped, TakenOn DEF AirStep

\* So is leaving the air alone.
LEMMA SameAir ==
  ASSUME TypeOK, air' = air, NEW d \in Devices, NEW r
  PROVE  AirStep(d, r)
BY AirTyped DEF AirStep

\* So is sending one frame of any type.
LEMMA SayAir ==
  ASSUME TypeOK, NEW d \in Devices, NEW r \in Engines, r.nonce \in Nonces, NEW type \in Types, Say(d, r, type)
  PROVE  AirStep(d, r)
<1>1. Said(<<Make(r, type)>>, r)
  BY MakeTyped, OneSaid
<1> QED BY <1>1, SendAir DEF Say

\* A step of d within its session keeps the invariant if d's new flags are true.
LEMMA KeepStep ==
  ASSUME IInv, NEW d \in Devices, NEW r \in Engines, dev' = [dev EXCEPT ![d] = r], r.nonce = dev[d].nonce,
         AirStep(d, r), consent' \in [Devices -> SUBSET (Devices \X Nonces)],
         \A x \in Devices : consent[x] \subseteq consent'[x],
         \A x \in Devices : \A c \in consent'[x] : c \in consent[x] \/
            (c = <<d, r.nonce>> /\ x = r.remote /\ r.rnonce = dev[x].nonce /\ r.keyed /\ x # d),
         dev[d].keyed => r.keyed /\ r.remote = dev[d].remote /\ r.rnonce = dev[d].rnonce,
         Phase(r), r.state \in {"waiting", "confirm", "connected"} => r.remote \in Others(d),
         r.local /\ r.rnonce = dev[r.remote].nonce => <<d, r.nonce>> \in consent'[r.remote],
         r.confirmed => <<r.remote, r.rnonce>> \in consent'[d],
         r.state = "connected" => r.local /\ <<r.remote, r.rnonce>> \in consent'[d]
  PROVE  IInv'
<1>1. dev \in [Devices -> Engines] /\ dev' \in [Devices -> Engines] /\ dev'[d] = r
      /\ \A x \in Devices : x # d => dev'[x] = dev[x]
  BY DEF IInv, TypeOK
<1>2. TypeOK'
  BY <1>1 DEF AirStep, Air, Bounded, TypeOK
<1>3. r.local => r.remote \in Others(d) /\ r.rnonce \in Nonces
  BY DEF Engines, States, Phase
<1>4. Phase(dev'[d]) /\ Agreed(d)'
  <2>1. r.local /\ r.rnonce = dev'[r.remote].nonce => <<d, r.nonce>> \in consent'[r.remote]
    BY <1>1, <1>3 DEF Others
  <2> QED BY <1>1, <2>1 DEF Agreed
<1> QED BY <1>1, <1>2, <1>3, <1>4, StepInv DEF AirStep

\* A step by which d leaves its session for a fresh nonce, or for none, keeps the invariant.
LEMMA ClearStep ==
  ASSUME IInv, NEW d \in Devices, NEW r \in Engines, dev' = [dev EXCEPT ![d] = r],
         consent' = [consent EXCEPT ![d] = {}],
         r.nonce = None \/ Unused(r.nonce), Phase(r), ~r.local, r.state \in {"off", "scanning"}, AirStep(d, dev[d])
  PROVE  IInv'
<1>1. dev \in [Devices -> Engines] /\ dev' \in [Devices -> Engines] /\ dev'[d] = r
      /\ \A x \in Devices : x # d => dev'[x] = dev[x]
  BY DEF IInv, TypeOK
<1>2. /\ consent' \in [Devices -> SUBSET (Devices \X Nonces)] /\ \A x \in Devices : x # d => consent'[x] = consent[x]
  BY DEF IInv, TypeOK
<1>3. TypeOK'
  BY <1>1, <1>2 DEF AirStep, Air, Bounded, TypeOK
<1>4. Phase(dev[d]) /\ Agreed(d) /\ dev[d].state \in States
  BY <1>1 DEF IInv, Engines
<1>5. dev[d].local => /\ dev[d].remote \in Others(d) /\ dev[d].rnonce \in Nonces
                      /\ dev[d].rnonce = dev[dev[d].remote].nonce => <<d, dev[d].nonce>> \in consent'[dev[d].remote]
  BY <1>2, <1>4 DEF Phase, Agreed, States, Others
<1>6. Phase(dev'[d]) /\ Agreed(d)'
  BY <1>1 DEF Phase, Agreed
<1> QED BY <1>1, <1>2, <1>3, <1>5, <1>6, StepInv DEF AirStep

-----------------------------------------------------------------------------
(* Engine states *)

\* The fields of an engine state.
LEMMA Engine ==
  ASSUME NEW r \in Engines
  PROVE  /\ r.state \in States /\ r.nonce \in Nonces \cup {None} /\ r.remote \in Devices \cup {None}
         /\ r.rnonce \in Nonces \cup {None} /\ r.keyed \in BOOLEAN /\ r.incoming \in BOOLEAN
         /\ r.local \in BOOLEAN /\ r.confirmed \in BOOLEAN /\ r.peers \in [Devices -> Nonces \cup {None}]
         /\ r.made \in Nat /\ r.pending \in BOOLEAN /\ r.tries \in 0..Limit /\ r.heard \in Nat
         /\ r.greeted \in Nat /\ r.sent \in Nat /\ r.received \in Nat
BY DEF Engines

\* Setting its flags keeps an engine state well typed.
LEMMA Flags ==
  ASSUME NEW r \in Engines, NEW b \in BOOLEAN
  PROVE  /\ [r EXCEPT !.local = b] \in Engines /\ [r EXCEPT !.confirmed = b] \in Engines
         /\ [r EXCEPT !.keyed = b, !.heard = 0] \in Engines
<1>1. [r EXCEPT !.local = b] \in Engines /\ [r EXCEPT !.confirmed = b] \in Engines
  BY DEF Engines
<1>2. [r EXCEPT !.keyed = b, !.heard = 0] \in Engines
  BY DEF Engines
<1> QED BY <1>1, <1>2

\* The engine state of a device that is off, or begins a discovery.
LEMMA OffTyped ==
  /\ NoPeers \in [Devices -> Nonces \cup {None}] /\ Off \in Engines /\ Phase(Off)
  /\ \A n \in Nonces : Scanning(n) \in Engines /\ Phase(Scanning(n)) /\ ~Scanning(n).local
       /\ Scanning(n).nonce = n /\ Scanning(n).state = "scanning"
  /\ Off.nonce = None /\ ~Off.local /\ Off.state = "off"
<1>1. NoPeers \in [Devices -> Nonces \cup {None}]
  BY DEF NoPeers
<1>2. 0 \in 0..Limit /\ 0 \in Nat
  BY FriendAssumption
<1>3. FALSE \in BOOLEAN
  OBVIOUS
<1>4. ASSUME NEW s \in States, NEW n \in Nonces \cup {None}, NEW b \in BOOLEAN
      PROVE  [state |-> s, nonce |-> n, remote |-> None, rnonce |-> None, keyed |-> b,
              incoming |-> b, local |-> b, confirmed |-> b, peers |-> NoPeers,
              made |-> 0, pending |-> b, tries |-> 0, heard |-> 0, greeted |-> 0,
              sent |-> 0, received |-> 0] \in Engines
  BY <1>1, <1>2 DEF Engines
<1>5. "off" \in States /\ "scanning" \in States
  BY DEF States
<1>6. Off \in Engines
  BY <1>3, <1>4, <1>5 DEF Off
<1>7. ASSUME NEW r \in Engines, NEW s \in States, NEW n \in Nonces
      PROVE  [r EXCEPT !.state = s, !.nonce = n] \in Engines
  BY DEF Engines
<1>8. ASSUME NEW n \in Nonces
      PROVE  /\ Scanning(n) \in Engines /\ Phase(Scanning(n)) /\ ~Scanning(n).local
             /\ Scanning(n).nonce = n /\ Scanning(n).state = "scanning"
  <2>1. Scanning(n) \in Engines
    BY <1>5, <1>6, <1>7 DEF Scanning
  <2>2. Scanning(n).nonce = n /\ Scanning(n).state = "scanning" /\ Scanning(n).remote = None
    BY DEF Scanning, Off
  <2>3. ~Scanning(n).local /\ ~Scanning(n).keyed /\ ~Scanning(n).confirmed
    BY DEF Scanning, Off
  <2> QED BY <2>1, <2>2, <2>3 DEF Phase
<1>9. Phase(Off) /\ Off.nonce = None /\ ~Off.local /\ Off.state = "off"
  BY DEF Off, Phase
<1> QED BY <1>1, <1>6, <1>8, <1>9

\* A return to discovery keeps the invariant.
LEMMA ResetStep ==
  ASSUME IInv, NEW d \in Devices, Reset(d), AirStep(d, dev[d])
  PROVE  IInv'
<1> DEFINE n == CHOOSE x \in Fresh(d) : TRUE
<1>1. n \in Fresh(d)
  BY DEF Reset
<1>2. n \in Nonces /\ Unused(n)
  BY <1>1 DEF Fresh, Nonces
<1>3. dev' = [dev EXCEPT ![d] = Scanning(n)] /\ consent' = [consent EXCEPT ![d] = {}]
  BY DEF Reset
<1> HIDE DEF n
<1> QED BY <1>2, <1>3, OffTyped, ClearStep

\* Switching off keeps the invariant.
LEMMA OffStep ==
  ASSUME IInv, NEW d \in Devices, dev' = [dev EXCEPT ![d] = Off],
         consent' = [consent EXCEPT ![d] = {}], AirStep(d, dev[d])
  PROVE  IInv'
BY OffTyped, ClearStep

\* Two engine states that differ in greetings, peers and timers only.
Alike(a, b) ==
  /\ a.state = b.state /\ a.nonce = b.nonce /\ a.remote = b.remote /\ a.rnonce = b.rnonce
  /\ a.keyed = b.keyed /\ a.local = b.local /\ a.confirmed = b.confirmed

\* What the invariant says of one device.
LEMMA Of ==
  ASSUME IInv, NEW d \in Devices
  PROVE  /\ TypeOK /\ dev[d] \in Engines /\ Phase(dev[d]) /\ Agreed(d)
         /\ dev[d].state # "off" => dev[d].nonce \in Nonces
         /\ consent \in [Devices -> SUBSET (Devices \X Nonces)]
BY DEF IInv, TypeOK, Phase

\* A step that changes greetings, peers and timers only keeps the invariant.
LEMMA AlikeStep ==
  ASSUME IInv, NEW d \in Devices, NEW r \in Engines, Alike(r, dev[d]), dev' = [dev EXCEPT ![d] = r],
         consent' = consent, AirStep(d, r)
  PROVE  IInv'
<1>1. Phase(dev[d]) /\ Agreed(d) /\ consent \in [Devices -> SUBSET (Devices \X Nonces)]
  BY Of
<1>2. Phase(r)
  BY <1>1 DEF Phase, Alike
<1>3. /\ r.state \in {"waiting", "confirm", "connected"} => r.remote \in Others(d)
      /\ r.local /\ r.rnonce = dev[r.remote].nonce => <<d, r.nonce>> \in consent[r.remote]
      /\ r.confirmed => <<r.remote, r.rnonce>> \in consent[d]
      /\ r.state = "connected" => r.local /\ <<r.remote, r.rnonce>> \in consent[d]
  BY <1>1 DEF Agreed, Alike
<1> QED BY <1>1, <1>2, <1>3, KeepStep DEF Alike

\* So does a step that changes no engine.
LEMMA IdleStep ==
  ASSUME IInv, NEW d \in Devices, dev' = dev, consent' = consent, AirStep(d, dev[d])
  PROVE  IInv'
<1>1. dev' = [dev EXCEPT ![d] = dev[d]] /\ dev[d] \in Engines
  BY Of DEF TypeOK
<1> QED BY <1>1, AlikeStep DEF Alike

-----------------------------------------------------------------------------
(* The actions *)

\* A farewell is a type of frame.
LEMMA FarewellType == \A r : Farewell(r) \in Types
BY DEF Farewell, Types

\* The invariant holds initially: every device is off and the air is empty.
LEMMA InitStep == Init => IInv
<1> SUFFICES ASSUME Init PROVE IInv
  OBVIOUS
<1>1. \A d \in Devices : dev[d] = Off
  BY DEF Init
<1>2. dev \in [Devices -> Engines]
  BY OffTyped DEF Init
<1>3. <<>> \in Seq(Frames) /\ Len(<<>>) <= MaxAir /\ On(<<>>) = {}
  BY FriendAssumption DEF On
<1>4. /\ air \in [Devices -> [Devices -> Seq(Frames)]]
      /\ \A s, e \in Devices : Len(air[s][e]) <= MaxAir /\ On(air[s][e]) = {}
  BY <1>3 DEF Init
<1>5. consent \in [Devices -> SUBSET (Devices \X Nonces)]
  BY DEF Init
<1>6. \A d \in Devices : Phase(dev[d]) /\ Agreed(d)
  <2>1. ~Off.local /\ ~Off.confirmed /\ Off.state = "off" /\ Phase(Off)
    BY OffTyped DEF Off
  <2> QED BY <1>1, <2>1 DEF Agreed
<1>7. \A d, e \in Devices : Bound(d, e) /\ Crossed(d, e)
  BY DEF Init, Bound, Crossed
<1> QED BY <1>2, <1>4, <1>5, <1>6, <1>7 DEF IInv, TypeOK

\* No command of a user breaks the invariant.
LEMMA CommandStep ==
  ASSUME IInv, NEW d \in Devices, Command(d)
  PROVE  IInv'
<1>t. /\ TypeOK /\ dev[d] \in Engines /\ Phase(dev[d]) /\ Agreed(d)
      /\ dev[d].state # "off" => dev[d].nonce \in Nonces
      /\ consent \in [Devices -> SUBSET (Devices \X Nonces)]
  BY Of
<1>s. ASSUME air' = air \/ (dev[d].state # "off" /\ \E type \in Types : Say(d, dev[d], type))
      PROVE  AirStep(d, dev[d])
  BY <1>t, <1>s, SameAir, SayAir
<1>1. CASE Begin(d)
  BY <1>1, <1>s, ResetStep DEF Begin
<1>2. CASE Stop(d)
  BY <1>2, <1>s, OffStep, FarewellType DEF Stop
<1>3. CASE PowerLoss(d)
  BY <1>3, <1>s, OffStep DEF PowerLoss
<1>4. CASE Accept(d)
  <2> DEFINE r == [dev[d] EXCEPT !.local = TRUE]
             e == dev[d].remote
             c == Connected(r)
  <2>1. /\ dev[d].state = "confirm" /\ dev' = [dev EXCEPT ![d] = c]
        /\ Say(d, r, "Confirm") /\ consent' = Consenting(d)
    BY <1>4 DEF Accept
  <2>2. e \in Others(d) /\ e \in Devices /\ dev[d].rnonce \in Nonces /\ dev[d].nonce \in Nonces
    BY <1>t, <2>1 DEF Agreed, Phase, Others
  <2>3. TRUE \in BOOLEAN /\ "connected" \in States /\ "Confirm" \in Types
    BY DEF States, Types
  <2>4. /\ r \in Engines /\ r.nonce = dev[d].nonce /\ r.local /\ r.remote = e /\ r.rnonce = dev[d].rnonce
        /\ r.state = "confirm" /\ r.confirmed = dev[d].confirmed /\ r.keyed
    <3>1. r \in Engines /\ dev[d].keyed
      BY <1>t, <2>1, <2>3, Flags DEF Phase
    <3> QED BY <1>t, <2>1, <3>1 DEF Engines
  <2>5. /\ c \in Engines /\ c.nonce = r.nonce /\ c.local /\ c.remote = e /\ c.rnonce = r.rnonce
        /\ c.confirmed = r.confirmed /\ c.keyed /\ (c.state = "confirm" \/ (c.state = "connected" /\ r.confirmed))
    <3> HIDE DEF r
    <3>1. [r EXCEPT !.state = "connected"] \in Engines
      BY <2>3, <2>4 DEF Engines
    <3> QED BY <2>4, <3>1 DEF Connected, Engines
  <2>6. AirStep(d, r)
    BY <1>t, <2>1, <2>2, <2>3, <2>4, SayAir
  <2>7. AirStep(d, c)
    BY <2>4, <2>5, <2>6, ZenonT(40) DEF AirStep, Says
  <2>8. /\ consent' \in [Devices -> SUBSET (Devices \X Nonces)]
        /\ \A x \in Devices : consent[x] \subseteq consent'[x]
        /\ dev[d].rnonce = dev[e].nonce => <<d, dev[d].nonce>> \in consent'[e]
    <3>1. <<d, dev[d].nonce>> \in Devices \X Nonces
      BY <2>2
    <3> QED BY <1>t, <2>1, <2>2, <3>1 DEF Consenting
  <2>9. Phase(c)
    BY <2>2, <2>4, <2>5 DEF Phase
  <2>10. r.confirmed => <<e, dev[d].rnonce>> \in consent'[d]
    BY <1>t, <2>4, <2>8 DEF Agreed
  <2>11. \A x \in Devices : \A i \in consent'[x] : i \in consent[x] \/
           (i = <<d, dev[d].nonce>> /\ x = e /\ dev[d].rnonce = dev[x].nonce /\ x # d)
    BY <1>t, <2>1, <2>2 DEF Consenting, Others
  <2> HIDE DEF r, c, e
  <2>12. \A x \in Devices : \A i \in consent'[x] : i \in consent[x] \/
           (i = <<d, c.nonce>> /\ x = c.remote /\ c.rnonce = dev[x].nonce /\ c.keyed /\ x # d)
    BY <2>4, <2>5, <2>11
  <2>13. c.remote = dev[d].remote /\ c.rnonce = dev[d].rnonce
    BY <2>4, <2>5 DEF e
  <2>14. /\ c.state \in {"waiting", "confirm", "connected"} => c.remote \in Others(d)
         /\ c.local /\ c.rnonce = dev[c.remote].nonce => <<d, c.nonce>> \in consent'[c.remote]
         /\ c.confirmed => <<c.remote, c.rnonce>> \in consent'[d]
         /\ c.state = "connected" => c.local /\ <<c.remote, c.rnonce>> \in consent'[d]
    BY <2>2, <2>4, <2>5, <2>8, <2>10
  <2>15. dev[d].keyed => c.keyed /\ c.remote = dev[d].remote /\ c.rnonce = dev[d].rnonce
    BY <2>5, <2>13
  <2>16. c \in Engines /\ c.nonce = dev[d].nonce /\ dev' = [dev EXCEPT ![d] = c]
    BY <2>1, <2>4, <2>5
  <2> QED BY <2>7, <2>8, <2>9, <2>12, <2>14, <2>15, <2>16, KeepStep
<1>5. CASE Refuse(d)
  <2>1. dev[d].state # "off" /\ Say(d, dev[d], "Bye") /\ Reset(d) /\ "Bye" \in Types
    BY <1>5 DEF Refuse, Types
  <2> QED BY <1>s, <2>1, ResetStep
<1>6. CASE Disconnect(d)
  BY <1>6, <1>s, ResetStep, FarewellType DEF Disconnect
<1>7. CASE Greet(d)
  <2> DEFINE r == [dev[d] EXCEPT !.made = @ + 1, !.pending = TRUE, !.tries = 0]
  <2>1. /\ dev[d].state = "connected" /\ dev' = [dev EXCEPT ![d] = r]
        /\ Send(d, r, <<Make(r, "Greeting")>>) /\ consent' = consent
    BY <1>7 DEF Greet, Greeting
  <2>2. TRUE \in BOOLEAN /\ dev[d].made + 1 \in Nat /\ 0 \in 0..Limit /\ "Greeting" \in Types
    BY <1>t, FriendAssumption, Engine DEF Types
  <2>3. r \in Engines
    BY <1>t, <2>2 DEF Engines
  <2>4. Alike(r, dev[d])
    BY <1>t DEF Alike, Engines
  <2> HIDE DEF r
  <2>5. AirStep(d, r)
    BY <1>t, <2>1, <2>2, <2>3, <2>4, SayAir DEF Say, Alike
  <2> QED BY <2>1, <2>3, <2>4, <2>5, AlikeStep
<1>8. ASSUME NEW e \in Others(d), Select(d, e) PROVE IInv'
  <2> DEFINE r == [dev[d] EXCEPT !.remote = e, !.rnonce = dev[d].peers[e], !.state = "waiting",
                          !.incoming = FALSE, !.peers = NoPeers]
  <2>1. /\ dev[d].state = "scanning" /\ dev[d].peers[e] # None /\ dev' = [dev EXCEPT ![d] = r] /\ Say(d, r, "Offer")
        /\ consent' = consent
    BY <1>8 DEF Select
  <2>2. /\ e \in Devices /\ FALSE \in BOOLEAN /\ "waiting" \in States /\ "Offer" \in Types
        /\ NoPeers \in [Devices -> Nonces \cup {None}]
    BY OffTyped DEF Others, States, Types
  <2>3. dev[d].peers[e] \in Nonces
    BY <1>t, <2>1, <2>2, Engine
  <2>4. r \in Engines
    BY <1>t, <2>2, <2>3 DEF Engines
  <2>5. r.nonce = dev[d].nonce /\ r.remote = e /\ r.rnonce \in Nonces /\ r.state = "waiting" /\ ~r.local
        /\ ~r.confirmed /\ ~r.keyed
    BY <1>t, <2>1, <2>3 DEF Phase, Engines
  <2> HIDE DEF r
  <2>6. AirStep(d, r)
    BY <1>t, <2>1, <2>2, <2>4, <2>5, SayAir
  <2>7. Phase(r)
    BY <1>t, <2>1, <2>5 DEF Phase
  <2>8. ~dev[d].keyed
    BY <1>t, <2>1 DEF Phase
  <2> QED BY <1>t, <2>1, <2>4, <2>5, <2>6, <2>7, <2>8, KeepStep
<1> QED BY <1>1, <1>2, <1>3, <1>4, <1>5, <1>6, <1>7, <1>8 DEF Command

\* No timer breaks the invariant.
LEMMA TickStep ==
  ASSUME IInv, NEW d \in Devices, Tick(d)
  PROVE  IInv'
<1>t. /\ TypeOK /\ dev[d] \in Engines /\ Phase(dev[d]) /\ Agreed(d)
      /\ dev[d].state # "off" => dev[d].nonce \in Nonces
      /\ consent \in [Devices -> SUBSET (Devices \X Nonces)]
  BY Of
<1>s. ASSUME air' = air \/ (dev[d].state # "off" /\ \E type \in Types : Say(d, dev[d], type))
      PROVE  AirStep(d, dev[d])
  BY <1>t, <1>s, SameAir, SayAir
<1>1. CASE SayHello(d)
  <2>1. dev[d].state # "off" /\ Say(d, dev[d], "Hello") /\ "Hello" \in Types
    BY <1>1 DEF SayHello, Types
  <2> QED BY <1>1, <1>s, <2>1, IdleStep DEF SayHello
<1>2. CASE Repeat(d)
  <2>1. dev[d].nonce \in Nonces
    BY <1>2, <1>t DEF Repeat, Pairing
  <2>2. AirStep(d, dev[d])
    BY <1>2, <1>t, <2>1, RepeatedSaid, SendAir DEF Repeat
  <2> QED BY <1>2, <2>2, IdleStep DEF Repeat
<1>3. CASE Deadline(d)
  BY <1>3, <1>s, ResetStep, FarewellType DEF Deadline, Pairing
<1>4. CASE Lost(d)
  BY <1>4, <1>s, ResetStep DEF Lost
<1>5. CASE Heartbeat(d)
  <2>1. dev[d].state # "off" /\ Say(d, dev[d], "Heartbeat") /\ "Heartbeat" \in Types
    BY <1>5 DEF Heartbeat, Types
  <2> QED BY <1>5, <1>s, <2>1, IdleStep DEF Heartbeat
<1>6. CASE GreetAgain(d)
  <2>1. dev[d].state = "connected" /\ consent' = consent
    BY <1>6 DEF GreetAgain
  <2>2. CASE dev[d].tries = Limit
    <3> DEFINE r == [dev[d] EXCEPT !.pending = FALSE, !.tries = 0]
    <3>1. FALSE \in BOOLEAN /\ 0 \in 0..Limit
      BY FriendAssumption
    <3>2. r \in Engines
      BY <1>t, <3>1 DEF Engines
    <3>3. Alike(r, dev[d])
      BY <1>t DEF Alike, Engines
    <3>4. dev' = [dev EXCEPT ![d] = r] /\ air' = air
      BY <1>6, <1>t, <2>2 DEF GreetAgain, TypeOK
    <3> QED BY <1>t, <2>1, <3>2, <3>3, <3>4, SameAir, AlikeStep
  <2>3. CASE dev[d].tries # Limit
    <3> DEFINE r == [dev[d] EXCEPT !.tries = @ + 1]
    <3>1. dev[d].tries + 1 \in 0..Limit
      BY <1>t, <2>3, Engine, FriendAssumption
    <3>2. r \in Engines
      BY <1>t, <3>1 DEF Engines
    <3>3. Alike(r, dev[d])
      BY <1>t DEF Alike, Engines
    <3>4. dev' = [dev EXCEPT ![d] = r] /\ Say(d, dev[d], "Greeting") /\ "Greeting" \in Types
      BY <1>6, <1>t, <2>3 DEF GreetAgain, TypeOK, Greeting, Say, Types
    <3>5. AirStep(d, dev[d])
      BY <1>s, <2>1, <3>4
    <3>6. AirStep(d, r)
      BY <3>3, <3>5 DEF AirStep, Says, Alike
    <3> QED BY <1>t, <2>1, <3>2, <3>3, <3>4, <3>6, AlikeStep
  <2> QED BY <2>2, <2>3
<1>7. ASSUME NEW e \in Others(d), ForgetPeer(d, e) PROVE IInv'
  <2> DEFINE r == [dev[d] EXCEPT !.peers[e] = None]
  <2>1. dev' = [dev EXCEPT ![d] = r] /\ air' = air /\ consent' = consent
    BY <1>7, <1>t DEF ForgetPeer, TypeOK
  <2>2. [dev[d].peers EXCEPT ![e] = None] \in [Devices -> Nonces \cup {None}]
    BY <1>t, Engine
  <2>3. r \in Engines
    BY <1>t, <2>2 DEF Engines
  <2>4. Alike(r, dev[d])
    BY <1>t DEF Alike, Engines
  <2> QED BY <1>t, <2>1, <2>3, <2>4, SameAir, AlikeStep
<1> QED BY <1>1, <1>2, <1>3, <1>4, <1>5, <1>6, <1>7 DEF Tick

\* Deriving the keys changes nothing the user agreed to.
LEMMA DerivedTyped ==
  ASSUME NEW r \in Engines
  PROVE  /\ Derived(r) \in Engines /\ Derived(r).keyed
         /\ Derived(r).state = r.state /\ Derived(r).nonce = r.nonce /\ Derived(r).remote = r.remote
         /\ Derived(r).rnonce = r.rnonce /\ Derived(r).local = r.local /\ Derived(r).confirmed = r.confirmed
<1>1. TRUE \in BOOLEAN
  OBVIOUS
<1>2. Derived(r) \in Engines
  BY <1>1, Flags DEF Derived
<1>3. Derived(r).keyed
  BY DEF Derived, Engines
<1> QED BY <1>2, <1>3 DEF Derived, Engines

\* No frame that arrives, in whatever state it finds the device, breaks the invariant.
LEMMA ReceiveStep ==
  ASSUME IInv, NEW d \in Devices, NEW e \in Others(d), Receive(d, e)
  PROVE  IInv'
<1> DEFINE f == Frame(d, e)
<1>t. /\ TypeOK /\ dev[d] \in Engines /\ Phase(dev[d]) /\ Agreed(d)
      /\ dev[d].state # "off" => dev[d].nonce \in Nonces
      /\ consent \in [Devices -> SUBSET (Devices \X Nonces)] /\ dev[d].state \in States
  BY Of, Engine
<1>e. e \in Devices /\ e # d /\ Arriving(d, e)
  BY DEF Others, Receive
<1>f. f \in Frames /\ Honest(e, d, f)
  <2>1. f \in Frames /\ f \in On(air[e][d])
    BY <1>t, <1>e, AirTyped, TakenOn
  <2> QED BY <1>e, <2>1 DEF IInv
<1>g. f.nonce \in Nonces /\ f.num \in Nat /\ f.confirmed \in BOOLEAN
  BY <1>f DEF Frames
<1>n. None \notin Nonces /\ None \notin Devices
  BY FriendAssumption
<1>a. ASSUME air' = Taken(d, e), NEW r PROVE AirStep(d, r)
  BY <1>a, <1>t, <1>e, TakenAir
<1>h. Hear(d, e, f)
  BY DEF Receive
<1> HIDE DEF f
<1>1. CASE Discover(d, e, f)
  <2> DEFINE r == [dev[d] EXCEPT !.peers[e] = f.nonce]
  <2>1. dev' = [dev EXCEPT ![d] = r] /\ air' = Taken(d, e) /\ consent' = consent
    BY <1>1, <1>t DEF Discover, TypeOK
  <2>2. [dev[d].peers EXCEPT ![e] = f.nonce] \in [Devices -> Nonces \cup {None}]
    BY <1>t, <1>g, Engine
  <2>3. r \in Engines
    BY <1>t, <2>2 DEF Engines
  <2>4. Alike(r, dev[d])
    BY <1>t DEF Alike, Engines
  <2> QED BY <1>a, <2>1, <2>3, <2>4, AlikeStep
<1>2. CASE HearOffer(d, e, f)
  <2> DEFINE r == Offered(d, e, f)
             k == IF r.keyed THEN r ELSE Derived(r)
             s == IF k.state = "connected" THEN k ELSE [k EXCEPT !.state = "confirm"]
  <2>1. AcceptsOffer(d, e, f) /\ dev' = [dev EXCEPT ![d] = s] /\ Reply(d, e, s, <<Make(s, "Answer")>>)
        /\ consent' = consent
    BY <1>2 DEF HearOffer
  <2>2. /\ r \in Engines /\ r.nonce = dev[d].nonce /\ r.remote = e /\ r.rnonce = f.nonce
        /\ r.local = dev[d].local /\ r.confirmed = dev[d].confirmed
        /\ r.state = dev[d].state /\ dev[d].state # "off"
        /\ dev[d].state = "scanning" \/ r = dev[d]
    <3>1. CASE dev[d].state = "scanning"
      <4>1. TRUE \in BOOLEAN /\ NoPeers \in [Devices -> Nonces \cup {None}]
        BY OffTyped
      <4>2. r = [dev[d] EXCEPT !.remote = e, !.rnonce = f.nonce, !.incoming = TRUE, !.peers = NoPeers]
        BY <3>1 DEF Offered
      <4>3. r \in Engines
        BY <1>t, <1>e, <1>g, <4>1, <4>2 DEF Engines
      <4> QED BY <1>t, <3>1, <4>2, <4>3 DEF Engines
    <3>2. CASE dev[d].state # "scanning"
      <4>1. r = dev[d] /\ r.remote = e /\ r.rnonce = f.nonce
        BY <2>1, <3>2 DEF Offered, AcceptsOffer, FromRemote
      <4> QED BY <1>t, <1>e, <1>n, <3>2, <4>1 DEF Phase
    <3> QED BY <3>1, <3>2
  <2> HIDE DEF r
  <2>3. /\ k \in Engines /\ k.keyed /\ k.nonce = r.nonce /\ k.remote = r.remote /\ k.rnonce = r.rnonce
        /\ k.local = r.local /\ k.confirmed = r.confirmed /\ k.state = r.state
    BY <2>2, DerivedTyped
  <2> HIDE DEF k
  <2>4. /\ s \in Engines /\ s.keyed /\ s.nonce = r.nonce /\ s.remote = r.remote /\ s.rnonce = r.rnonce
        /\ s.local = r.local /\ s.confirmed = r.confirmed
        /\ s.state = "confirm" \/ (s.state = "connected" /\ r.state = "connected")
    <3>1. "confirm" \in States
      BY DEF States
    <3>2. [k EXCEPT !.state = "confirm"] \in Engines
      BY <2>3, <3>1 DEF Engines
    <3>3. CASE k.state = "connected"
      BY <2>3, <3>3
    <3>4. CASE k.state # "connected"
      BY <2>3, <3>2, <3>4 DEF Engines
    <3> QED BY <3>3, <3>4
  <2> HIDE DEF s
  <2>5. s.nonce \in Nonces /\ "Answer" \in Types /\ 0 \in Nat
    BY <1>t, <2>2, <2>4 DEF Types
  <2>6. AirStep(d, s)
    BY <1>t, <1>e, <2>1, <2>4, <2>5, MakeTyped, OneSaid, ReplyAir
  <2>7. Phase(s)
    BY <1>e, <1>g, <2>2, <2>4, <2>5 DEF Phase
  <2>8. /\ s.local /\ s.rnonce = dev[s.remote].nonce => <<d, s.nonce>> \in consent[s.remote]
        /\ s.confirmed => <<s.remote, s.rnonce>> \in consent[d]
        /\ s.state = "connected" => s.local /\ <<s.remote, s.rnonce>> \in consent[d]
    <3>1. CASE dev[d].state = "scanning"
      BY <1>t, <2>2, <2>4, <3>1 DEF Phase
    <3>2. CASE r = dev[d]
      BY <1>t, <2>2, <2>4, <3>2 DEF Agreed
    <3> QED BY <2>2, <3>1, <3>2
  <2>9. dev[d].keyed => s.remote = dev[d].remote /\ s.rnonce = dev[d].rnonce
    BY <1>t, <2>2, <2>4 DEF Phase
  <2> QED BY <1>t, <2>1, <2>2, <2>4, <2>6, <2>7, <2>8, <2>9, KeepStep
<1>3. CASE HearAnswer(d, e, f)
  <2> DEFINE k == IF dev[d].keyed THEN dev[d] ELSE Derived(dev[d])
             s == [k EXCEPT !.state = "confirm", !.incoming = FALSE]
  <2>1. /\ AcceptsAnswer(d, e, f) /\ dev' = [dev EXCEPT ![d] = s] /\ air' = Taken(d, e) /\ consent' = consent
        /\ dev[d].state \in {"waiting", "confirm"}
    BY <1>3 DEF HearAnswer, AcceptsAnswer, Pairing
  <2>2. /\ k \in Engines /\ k.keyed /\ k.nonce = dev[d].nonce /\ k.remote = dev[d].remote /\ k.rnonce = dev[d].rnonce
        /\ k.local = dev[d].local /\ k.confirmed = dev[d].confirmed
    BY <1>t, DerivedTyped
  <2> HIDE DEF k
  <2>3. "confirm" \in States /\ FALSE \in BOOLEAN
    BY DEF States
  <2>4. s \in Engines
    BY <2>2, <2>3 DEF Engines
  <2>5. /\ s.keyed /\ s.nonce = dev[d].nonce /\ s.remote = dev[d].remote /\ s.rnonce = dev[d].rnonce
        /\ s.local = dev[d].local /\ s.confirmed = dev[d].confirmed /\ s.state = "confirm"
    BY <2>2 DEF Engines
  <2> HIDE DEF s
  <2>6. Phase(s)
    BY <1>t, <2>1, <2>5 DEF Phase
  <2>7. s.remote \in Others(d)
    BY <1>t, <2>1, <2>5 DEF Agreed
  <2> QED BY <1>t, <1>a, <2>1, <2>4, <2>5, <2>6, <2>7, KeepStep DEF Agreed
<1>4. CASE PairFails(d, e, f)
  BY <1>4, <1>a, ResetStep DEF PairFails
<1>5. CASE HearReject(d, e, f)
  BY <1>5, <1>a, ResetStep DEF HearReject
<1>6. CASE HearBye(d, e, f)
  BY <1>6, <1>a, ResetStep DEF HearBye
<1>u. ASSUME f.num \in Nat
      PROVE  /\ Heard(dev[d], f) \in Engines /\ Alike(Heard(dev[d], f), dev[d])
  <2>1. (IF f.num > dev[d].heard THEN f.num ELSE dev[d].heard) \in Nat
    BY <1>t, <1>u, Engine
  <2>2. [dev[d] EXCEPT !.heard = IF f.num > dev[d].heard THEN f.num ELSE dev[d].heard] \in Engines
    BY <1>t, <2>1 DEF Engines
  <2> QED BY <1>t, <2>2 DEF Heard, Alike, Engines
<1>7. CASE HearConfirm(d, e, f)
  <2> DEFINE h == Heard(dev[d], f)
             r == [h EXCEPT !.confirmed = f.confirmed]
             c == Connected(r)
  <2>1. Sealed(d, e, f) /\ dev' = [dev EXCEPT ![d] = c] /\ air' = Taken(d, e) /\ consent' = consent
    BY <1>7 DEF HearConfirm
  <2>2. /\ dev[d].keyed /\ dev[d].remote = e /\ f.nonce = dev[d].rnonce /\ f.target = d /\ f.tnonce = dev[d].nonce
    BY <2>1 DEF Sealed, ForMe, FromRemote
  <2>3. h \in Engines /\ Alike(h, dev[d])
    BY <1>g, <1>u
  <2> HIDE DEF h
  <2>4. r \in Engines
    BY <1>g, <2>3, Flags
  <2>5. /\ r.state = dev[d].state /\ r.nonce = dev[d].nonce /\ r.remote = e /\ r.rnonce = f.nonce
        /\ r.keyed /\ r.local = dev[d].local /\ r.confirmed = f.confirmed
    BY <2>2, <2>3 DEF Alike, Engines
  <2> HIDE DEF r
  <2>6. /\ c \in Engines /\ c.nonce = r.nonce /\ c.remote = e /\ c.rnonce = f.nonce
        /\ c.keyed /\ c.local = r.local /\ c.confirmed = f.confirmed
        /\ c.state = r.state \/ (c.state = "connected" /\ r.local /\ r.confirmed)
    <3>1. "connected" \in States
      BY DEF States
    <3>2. [r EXCEPT !.state = "connected"] \in Engines
      BY <2>4, <3>1 DEF Engines
    <3> QED BY <2>4, <2>5, <3>2 DEF Connected, Engines
  <2> HIDE DEF c
  <2>7. dev[d].state \in {"confirm", "connected"}
    BY <1>t, <2>2 DEF Phase, States
  <2>8. Phase(c)
    BY <1>t, <1>g, <2>5, <2>6, <2>7 DEF Phase
  <2>9. f.confirmed => <<e, f.nonce>> \in consent[d]
    BY <1>f, <2>2 DEF Honest
  <2>10. c.state = "connected" => c.local /\ <<e, f.nonce>> \in consent[d]
    BY <1>t, <2>2, <2>5, <2>6, <2>9 DEF Agreed
  <2>11. c.local /\ c.rnonce = dev[c.remote].nonce => <<d, c.nonce>> \in consent[c.remote]
    BY <1>t, <2>2, <2>5, <2>6 DEF Agreed
  <2>12. c.keyed /\ c.remote = dev[d].remote /\ c.rnonce = dev[d].rnonce
    BY <2>2, <2>6
  <2> QED BY <1>t, <1>a, <2>1, <2>5, <2>6, <2>8, <2>9, <2>10, <2>11, <2>12, KeepStep
<1>8. CASE HearGreeting(d, e, f)
  <2> DEFINE h == Heard(dev[d], f)
             c == Counted(h, f)
  <2>1. Sealed(d, e, f) /\ consent' = consent /\ h \in Engines /\ Alike(h, dev[d])
    BY <1>8, <1>g, <1>u DEF HearGreeting
  <2>2. CASE dev[d].state = "connected"
    <3>1. dev' = [dev EXCEPT ![d] = c] /\ Reply(d, e, h, <<[Make(h, "Ack") EXCEPT !.ack = f.num]>>)
      BY <1>8, <2>2 DEF HearGreeting
    <3>2. h.nonce \in Nonces /\ "Ack" \in Types
      BY <1>t, <2>1, <2>2 DEF Alike, Types
    <3> HIDE DEF h
    <3>3. AirStep(d, h)
      BY <1>t, <1>e, <1>g, <2>1, <3>1, <3>2, MakeTyped, OneSaid, ReplyAir
    <3>4. c \in Engines
      <4>1. h.received + 1 \in Nat
        BY <2>1, Engine
      <4>2. [h EXCEPT !.greeted = f.num, !.received = h.received + 1] \in Engines
        BY <1>g, <2>1, <4>1 DEF Engines
      <4> QED BY <2>1, <4>2 DEF Counted
    <3>5. Alike(c, h)
      BY <2>1 DEF Counted, Alike, Engines
    <3> HIDE DEF c
    <3>6. Alike(c, dev[d]) /\ AirStep(d, c)
      BY <2>1, <3>3, <3>5 DEF Alike, AirStep, Says
    <3> QED BY <2>1, <3>1, <3>4, <3>6, AlikeStep
  <2>3. CASE dev[d].state # "connected"
    <3>1. dev' = [dev EXCEPT ![d] = h] /\ air' = Taken(d, e)
      BY <1>8, <2>3 DEF HearGreeting
    <3> QED BY <1>a, <2>1, <3>1, AlikeStep
  <2> QED BY <2>2, <2>3
<1>9. CASE HearAck(d, e, f)
  <2> DEFINE h == Heard(dev[d], f)
             c == IF h.state = "connected" THEN Acked(h, f) ELSE h
  <2>1. dev' = [dev EXCEPT ![d] = c] /\ air' = Taken(d, e) /\ consent' = consent /\ h \in Engines /\ Alike(h, dev[d])
    BY <1>9, <1>g, <1>u DEF HearAck
  <2> HIDE DEF h
  <2>2. c \in Engines
    <3>1. h.sent + 1 \in Nat /\ FALSE \in BOOLEAN /\ 0 \in 0..Limit
      BY <2>1, Engine, FriendAssumption
    <3>2. [h EXCEPT !.pending = FALSE, !.tries = 0, !.sent = h.sent + 1] \in Engines
      BY <2>1, <3>1 DEF Engines
    <3> QED BY <2>1, <3>2 DEF Acked
  <2>3. Alike(c, h)
    BY <2>1 DEF Acked, Alike, Engines
  <2> HIDE DEF c
  <2>4. Alike(c, dev[d])
    BY <2>1, <2>3 DEF Alike
  <2> QED BY <1>a, <2>1, <2>2, <2>4, AlikeStep
<1>10. CASE Ignore(d, e, f)
  BY <1>10, <1>a, IdleStep DEF Ignore
<1> QED BY <1>h, <1>1, <1>2, <1>3, <1>4, <1>5, <1>6, <1>7, <1>8, <1>9, <1>10 DEF Hear

\* The invariant is inductive.
LEMMA NextStep == IInv /\ [Next]_vars => IInv'
<1> SUFFICES ASSUME IInv, Next PROVE IInv'
  <2>1. ASSUME UNCHANGED vars, IInv PROVE IInv'
    BY <2>1 DEF vars, IInv, TypeOK, Phase, Agreed, Honest, Others, Bound, Crossed
  <2> QED BY <2>1
<1>1. PICK d \in Devices : \/ Command(d) \/ Tick(d)
                           \/ \E e \in Others(d) : Receive(d, e) \/ Lose(d, e)
  BY DEF Next
<1>2. ASSUME NEW e \in Others(d), Lose(d, e) PROVE IInv'
  <2>1. e \in Devices /\ TypeOK
    BY DEF Others, IInv
  <2>2. AirStep(d, dev[d])
    BY <1>2, <2>1, TakenAir DEF Lose
  <2> QED BY <1>2, <2>2, IdleStep DEF Lose
<1> QED BY <1>1, <1>2, CommandStep, TickStep, ReceiveStep

-----------------------------------------------------------------------------
(* The greetings *)

\* What f says of its sender's greetings and session goes with engine state r of that session.
Tells(f, r) ==
  /\ f.nonce = r.nonce /\ f.num <= r.made /\ f.ack <= r.greeted
  /\ f.tnonce # None => f.tnonce = r.rnonce /\ f.target = r.remote

\* Greetings are counted in a session only; what was shown was counted, and what is pending was made.
Counts(r) ==
  /\ r.state \in {"off", "scanning"} => r.rnonce = None /\ r.made = 0 /\ r.greeted = 0 /\ r.sent = 0 /\ r.received = 0
  /\ r.received <= r.greeted
  /\ r.pending => r.made > 0

\* A frame of s's present session numbers no greeting s has not made, acknowledges none s has not
\* counted, and is addressed, if to a session, to the one s is in.
Numbered(s, f) == f.nonce = dev[s].nonce => Tells(f, dev[s])

\* d deals with e in e's present session.
Knows(d, e) == dev[d].remote = e /\ dev[d].rnonce = dev[e].nonce

\* What e has counted of d's greetings, d has made.
Made(d, e) == Knows(e, d) => dev[e].greeted <= dev[d].made

\* What d was told has arrived, e has shown; so has it the pending greeting, if it counted that.
Told(d, e) ==
  /\ Knows(d, e) /\ Knows(e, d) =>
       /\ dev[d].sent <= dev[e].received
       /\ dev[d].pending /\ dev[e].greeted = dev[d].made => dev[d].sent + 1 <= dev[e].received
  /\ Knows(d, e) /\ ~Knows(e, d) => dev[d].sent = 0

\* What there is to say of the greetings between two devices.
Pair(d, e) == Made(d, e) /\ Made(e, d) /\ Told(d, e) /\ Told(e, d)

\* The inductive invariant of the greetings, on top of IInv.
GInv ==
  /\ \A d \in Devices : Counts(dev[d])
  /\ \A s, e \in Devices : \A f \in On(air[s][e]) : Numbered(s, f)
  /\ \A d \in Devices : \A e \in Others(d) : Pair(d, e)

\* What happens in the air when d, in engine state r, takes a step.
GAir(d, r) ==
  \A s, e \in Devices : \A f \in On(air'[s][e]) : f \in On(air[s][e]) \/ (s = d /\ Tells(f, r))

\* The frames an engine makes go with its state; so does an acknowledgment of what it has counted.
LEMMA MakeTells ==
  ASSUME NEW r \in Engines, NEW type, NEW n \in Nat, n <= r.greeted
  PROVE  Tells(Make(r, type), r) /\ Tells([Make(r, type) EXCEPT !.ack = n], r)
<1>1. r.made \in Nat /\ r.greeted \in Nat
  BY Engine
<1>2. r.made <= r.made /\ 0 <= r.greeted
  BY <1>1
<1> QED BY <1>2 DEF Make, Tells

\* A single frame.
LEMMA OnOne ==
  ASSUME NEW f
  PROVE  On(<<f>>) = {f}
BY DEF On

\* Sending frames that go with r.
LEMMA SendTells ==
  ASSUME TypeOK, NEW d \in Devices, NEW r, NEW r0, NEW fs, Said(fs, r0), Send(d, r0, fs),
         \A f \in On(fs) : Tells(f, r)
  PROVE  GAir(d, r)
BY AirTyped, TransmitOn DEF Said, Send, GAir

\* Taking a frame, and answering it so.
LEMMA ReplyTells ==
  ASSUME TypeOK, NEW d \in Devices, NEW e \in Devices, Arriving(d, e), NEW r, NEW r0, NEW fs, Said(fs, r0),
         Reply(d, e, r0, fs), \A f \in On(fs) : Tells(f, r)
  PROVE  GAir(d, r)
<1>1. /\ Taken(d, e) \in Air /\ Bounded(Taken(d, e))
      /\ \A s, x \in Devices : On(Taken(d, e)[s][x]) \subseteq On(air[s][x])
  BY AirTyped, TakenOn
<1>2. \A s, x \in Devices : \A f \in On(air'[s][x]) :
           f \in On(Taken(d, e)[s][x]) \/ (s = d /\ x # d /\ f \in On(fs))
  BY <1>1, TransmitOn DEF Reply, Said
<1> QED BY <1>1, <1>2 DEF GAir

\* Taking a frame.
LEMMA TakenTells ==
  ASSUME TypeOK, NEW d \in Devices, NEW e \in Devices, Arriving(d, e), air' = Taken(d, e), NEW x, NEW r
  PROVE  GAir(x, r)
BY AirTyped, TakenOn DEF GAir

\* Leaving the air alone.
LEMMA SameTells ==
  ASSUME air' = air, NEW d, NEW r
  PROVE  GAir(d, r)
BY DEF GAir

\* Sending one frame of any type.
LEMMA SayTells ==
  ASSUME TypeOK, NEW d \in Devices, NEW r \in Engines, r.nonce \in Nonces, NEW type \in Types, Say(d, r, type)
  PROVE  GAir(d, r)
<1>1. Said(<<Make(r, type)>>, r)
  <2>1. 0 \in Nat
    OBVIOUS
  <2> QED BY <2>1, MakeTyped, OneSaid
<1>2. Tells(Make(r, type), r)
  <2>1. 0 \in Nat /\ 0 <= r.greeted
    BY Engine
  <2> QED BY <2>1, MakeTells
<1>3. Send(d, r, <<Make(r, type)>>)
  BY DEF Say
<1> QED BY <1>1, <1>2, <1>3, OnOne, SendTells

\* The invariants at one device.
LEMMA GOf ==
  ASSUME IInv, GInv, NEW d \in Devices
  PROVE  /\ TypeOK /\ dev \in [Devices -> Engines] /\ dev[d] \in Engines /\ Phase(dev[d]) /\ Counts(dev[d])
         /\ dev[d].state # "off" => dev[d].nonce \in Nonces
         /\ dev[d].made \in Nat /\ dev[d].greeted \in Nat /\ dev[d].sent \in Nat /\ dev[d].received \in Nat
         /\ dev[d].pending \in BOOLEAN /\ dev[d].state \in States
         /\ dev[d].remote \in Devices => dev[d].rnonce \in Nonces /\ dev[d].state \notin {"off", "scanning"}
<1>1. /\ TypeOK /\ dev \in [Devices -> Engines] /\ dev[d] \in Engines /\ Phase(dev[d]) /\ Counts(dev[d])
      /\ dev[d].state # "off" => dev[d].nonce \in Nonces
  BY Of DEF GInv, TypeOK
<1>2. /\ dev[d].made \in Nat /\ dev[d].greeted \in Nat /\ dev[d].sent \in Nat /\ dev[d].received \in Nat
      /\ dev[d].pending \in BOOLEAN /\ dev[d].state \in States
  BY <1>1, Engine
<1>3. dev[d].remote \in Devices => dev[d].rnonce \in Nonces /\ dev[d].state \notin {"off", "scanning"}
  BY <1>1, <1>2, FriendAssumption DEF Phase, States
<1> QED BY <1>1, <1>2, <1>3

\* A step of d that leaves it in state r keeps the invariant if it does so for d's frames and pairs.
LEMMA GStep ==
  ASSUME IInv, GInv, NEW d \in Devices, NEW r \in Engines, dev' = [dev EXCEPT ![d] = r], Counts(r),
         \A e \in Devices : \A f \in On(air'[d][e]) : f.nonce = r.nonce => Tells(f, r),
         \A s, e \in Devices : s # d => On(air'[s][e]) \subseteq On(air[s][e]),
         \A e \in Others(d) : Pair(d, e)'
  PROVE  GInv'
<1>1. /\ dev \in [Devices -> Engines] /\ dev'[d] = r
      /\ \A x \in Devices : x # d => dev'[x] = dev[x]
  BY GOf
<1>2. \A x \in Devices : Counts(dev'[x])
  BY <1>1 DEF GInv
<1>3. ASSUME NEW s \in Devices, NEW e \in Devices, NEW f \in On(air'[s][e]) PROVE Numbered(s, f)'
  <2>1. CASE s = d
    BY <1>1, <2>1 DEF Numbered, Tells
  <2>2. CASE s # d
    BY <1>1, <2>2 DEF Numbered, Tells, GInv
  <2> QED BY <2>1, <2>2
<1>4. ASSUME NEW x \in Devices, NEW y \in Others(x) PROVE Pair(x, y)'
  <2>1. y \in Devices /\ x # y
    BY DEF Others
  <2>2. CASE x = d
    BY <2>2
  <2>3. CASE y = d
    BY <2>1, <2>3 DEF Pair, Others
  <2>4. CASE x # d /\ y # d
    <3>1. Pair(x, y)
      BY DEF GInv
    <3> QED BY <1>1, <2>1, <2>4, <3>1 DEF Pair, Made, Told, Knows
  <2> QED BY <2>2, <2>3, <2>4
<1> QED BY <1>2, <1>3, <1>4 DEF GInv

\* d leaves its session: its frames and its friend's knowledge of it are void.
LEMMA GLeave ==
  ASSUME IInv, GInv, NEW d \in Devices, NEW r \in Engines, dev' = [dev EXCEPT ![d] = r], Counts(r),
         r.remote = None, r.nonce = None \/ (Unused(r.nonce) /\ r.nonce \in Nonces),
         dev[d].state # "off" \/ air' = air, GAir(d, dev[d])
  PROVE  GInv'
<1>n. None \notin Nonces /\ None \notin Devices
  BY FriendAssumption
<1>1. ASSUME NEW s \in Devices, NEW e \in Devices, NEW f \in On(air[s][e]) PROVE f.nonce # r.nonce
  <2>1. air[s][e] \in Seq(Frames)
    BY DEF IInv, TypeOK
  <2>2. f \in Range(air[s][e]) /\ f \in Frames
    BY <2>1 DEF On, Range
  <2>3. f.nonce \in Nonces
    BY <2>2 DEF Frames
  <2> QED BY <1>n, <2>2, <2>3 DEF Unused
<1>2. \A e \in Devices : \A f \in On(air'[d][e]) : f.nonce # r.nonce
  <2>1. dev[d].state # "off" => dev[d].nonce # r.nonce
    BY <1>n, GOf DEF Unused
  <2>2. ASSUME NEW e \in Devices, NEW f \in On(air'[d][e]), f \notin On(air[d][e]) PROVE f.nonce # r.nonce
    <3>1. f.nonce = dev[d].nonce
      BY <2>2 DEF GAir, Tells
    <3> QED BY <2>1, <2>2, <3>1
  <2> QED BY <1>1, <2>2
<1>3. \A s, e \in Devices : s # d => On(air'[s][e]) \subseteq On(air[s][e])
  BY DEF GAir
<1>4. ASSUME NEW e \in Others(d) PROVE Pair(d, e)'
  <2>1. e \in Devices /\ e # d /\ dev'[d] = r /\ dev'[e] = dev[e]
    BY GOf DEF Others
  <2>2. ~Knows(d, e)'
    BY <1>n, <2>1 DEF Knows
  <2>3. ~Knows(e, d)'
    <3>1. dev[e].remote = d => dev[e].rnonce \in Nonces
      BY <2>1, GOf
    <3>2. dev[e].remote = d => dev[e].rnonce # r.nonce
      BY <1>n, <2>1, <3>1 DEF Unused
    <3> QED BY <2>1, <3>2 DEF Knows
  <2> QED BY <2>2, <2>3 DEF Pair, Made, Told
<1> QED BY <1>2, <1>3, <1>4, GStep

\* Two engine states that count the same greetings in the same session.
Even(a, b) ==
  /\ a.nonce = b.nonce /\ a.made = b.made /\ a.pending = b.pending /\ a.greeted = b.greeted
  /\ a.sent = b.sent /\ a.received = b.received

\* d's frames after a step in which it keeps its nonce, its session and what it counted.
LEMMA GFrames ==
  ASSUME GInv, NEW d \in Devices, NEW r, r.nonce = dev[d].nonce, GAir(d, r),
         (r.remote = dev[d].remote /\ r.rnonce = dev[d].rnonce) \/ dev[d].rnonce = None,
         \A f \in Frames : f.num <= dev[d].made => f.num <= r.made,
         \A f \in Frames : f.ack <= dev[d].greeted => f.ack <= r.greeted,
         TypeOK
  PROVE  /\ \A e \in Devices : \A f \in On(air'[d][e]) : f.nonce = r.nonce => Tells(f, r)
         /\ \A s, e \in Devices : s # d => On(air'[s][e]) \subseteq On(air[s][e])
<1>1. ASSUME NEW e \in Devices, NEW f \in On(air'[d][e]), f.nonce = r.nonce PROVE Tells(f, r)
  <2>1. CASE f \in On(air[d][e])
    <3>1. Tells(f, dev[d])
      BY <1>1, <2>1 DEF GInv, Numbered
    <3>2. f \in Frames
      BY <2>1 DEF On, TypeOK
    <3> QED BY <3>1, <3>2 DEF Tells
  <2>2. CASE f \notin On(air[d][e])
    BY <2>2 DEF GAir
  <2> QED BY <2>1, <2>2
<1>2. \A s, e \in Devices : s # d => On(air'[s][e]) \subseteq On(air[s][e])
  BY DEF GAir
<1> QED BY <1>1, <1>2

\* A step of d that counts nothing, and either stays in its session or enters one from discovery.
LEMMA GEven ==
  ASSUME IInv, GInv, NEW d \in Devices, NEW r \in Engines, dev' = [dev EXCEPT ![d] = r], Even(r, dev[d]), GAir(d, r),
         \/ r.remote = dev[d].remote /\ r.rnonce = dev[d].rnonce /\ (r.state \in {"off", "scanning"} => r.state = dev[d].state)
         \/ dev[d].state = "scanning" /\ r.state \notin {"off", "scanning"}
  PROVE  GInv'
<1>0. /\ Counts(dev[d]) /\ TypeOK /\ dev[d].made \in Nat /\ dev[d].greeted \in Nat
      /\ dev[d].state = "scanning" => dev[d].remote = None
  BY GOf DEF Phase
<1>n. None \notin Devices
  BY FriendAssumption
<1>1. Counts(r)
  BY <1>0 DEF Counts, Even
<1>2. /\ \A e \in Devices : \A f \in On(air'[d][e]) : f.nonce = r.nonce => Tells(f, r)
      /\ \A s, e \in Devices : s # d => On(air'[s][e]) \subseteq On(air[s][e])
  <2>1. (r.remote = dev[d].remote /\ r.rnonce = dev[d].rnonce) \/ dev[d].rnonce = None
    BY <1>0 DEF Counts
  <2> QED BY <1>0, <2>1, GFrames DEF Even
<1>3. ASSUME NEW e \in Others(d) PROVE Pair(d, e)'
  <2>1. e \in Devices /\ e # d /\ dev'[d] = r /\ dev'[e] = dev[e]
    BY GOf DEF Others
  <2>2. Pair(d, e)
    BY DEF GInv
  <2>3. Knows(e, d)' = Knows(e, d)
    BY <2>1 DEF Knows, Even
  <2>4. CASE r.remote = dev[d].remote /\ r.rnonce = dev[d].rnonce
    <3>1. Knows(d, e)' = Knows(d, e)
      BY <2>1, <2>4 DEF Knows
    <3> QED BY <2>1, <2>2, <2>3, <3>1 DEF Pair, Made, Told, Even
  <2>5. CASE dev[d].state = "scanning"
    <3>1. ~Knows(d, e)
      BY <1>0, <1>n, <2>1, <2>5 DEF Knows
    <3>2. dev[d].made = 0 /\ dev[d].greeted = 0 /\ dev[d].sent = 0 /\ dev[d].received = 0 /\ ~dev[d].pending
      BY <1>0, <2>5 DEF Counts
    <3>3. /\ dev[e].made \in Nat /\ dev[e].received \in Nat
          /\ dev[e].pending => dev[e].made > 0
      BY <2>1, GOf DEF Counts
    <3>4. Made(d, e)'
      BY <2>1, <2>2, <2>3 DEF Pair, Made, Even
    <3>5. Made(e, d)'
      BY <2>1, <3>2, <3>3 DEF Made, Even
    <3>6. Told(d, e)'
      BY <2>1, <3>2, <3>3 DEF Told, Even
    <3>7. Told(e, d)'
      <4>1. Knows(e, d) => dev[e].sent = 0
        BY <2>2, <3>1 DEF Pair, Told
      <4> QED BY <2>1, <2>3, <3>2, <3>3, <4>1 DEF Told, Even
    <3> QED BY <3>4, <3>5, <3>6, <3>7 DEF Pair
  <2> QED BY <2>4, <2>5
<1> QED BY <1>1, <1>2, <1>3, GStep

\* A step that changes no engine.
LEMMA GIdle ==
  ASSUME IInv, GInv, NEW d \in Devices, dev' = dev, GAir(d, dev[d])
  PROVE  GInv'
<1>1. dev' = [dev EXCEPT ![d] = dev[d]] /\ dev[d] \in Engines
  BY GOf
<1> QED BY <1>1, GEven DEF Even

\* A step of d, in its session, that changes its own greetings: it makes one, gives one up, or is told
\* of its arrival, which the friend has counted.
LEMMA GOwn ==
  ASSUME IInv, GInv, NEW d \in Devices, NEW r \in Engines, dev' = [dev EXCEPT ![d] = r], GAir(d, r),
         r.nonce = dev[d].nonce, r.remote = dev[d].remote, r.rnonce = dev[d].rnonce, r.state = dev[d].state,
         r.greeted = dev[d].greeted, r.received = dev[d].received, r.state = "connected",
         \/ r.made = dev[d].made + 1 /\ r.sent = dev[d].sent
         \/ r.made = dev[d].made /\ ~r.pending /\ r.sent = dev[d].sent
         \/ /\ r.made = dev[d].made /\ ~r.pending /\ r.sent = dev[d].sent + 1 /\ dev[d].pending
            /\ \A e \in Others(d) : Knows(d, e) => Knows(e, d) /\ dev[e].greeted >= dev[d].made
  PROVE  GInv'
<1>0. /\ Counts(dev[d]) /\ TypeOK /\ dev[d].made \in Nat /\ dev[d].greeted \in Nat /\ dev[d].sent \in Nat
  BY GOf
<1>1. Counts(r)
  <2>1. r.pending => r.made > 0
    BY <1>0 DEF Counts
  <2> QED BY <1>0, <2>1 DEF Counts
<1>2. /\ \A e \in Devices : \A f \in On(air'[d][e]) : f.nonce = r.nonce => Tells(f, r)
      /\ \A s, e \in Devices : s # d => On(air'[s][e]) \subseteq On(air[s][e])
  <2>1. \A f \in Frames : f.num <= dev[d].made => f.num <= r.made
    <3>1. \A f \in Frames : f.num \in Nat
      BY DEF Frames
    <3>2. \A n \in Nat : n <= dev[d].made => n <= r.made
      BY <1>0
    <3> QED BY <3>1, <3>2
  <2>2. \A f \in Frames : f.ack <= dev[d].greeted => f.ack <= r.greeted
    OBVIOUS
  <2>3. (r.remote = dev[d].remote /\ r.rnonce = dev[d].rnonce) \/ dev[d].rnonce = None
    OBVIOUS
  <2> QED BY <1>0, <2>1, <2>2, <2>3, GFrames
<1>3. ASSUME NEW e \in Others(d) PROVE Pair(d, e)'
  <2>1. e \in Devices /\ e # d /\ dev'[d] = r /\ dev'[e] = dev[e]
    BY GOf DEF Others
  <2>2. Pair(d, e) /\ dev[e].greeted \in Nat /\ dev[e].received \in Nat
    BY <2>1, GOf DEF GInv
  <2>3. Knows(e, d)' = Knows(e, d) /\ Knows(d, e)' = Knows(d, e)
    BY <2>1 DEF Knows
  <2>4. Knows(e, d) => dev[e].greeted <= dev[d].made
    BY <2>2 DEF Pair, Made
  <2>5. Made(d, e)'
    BY <1>0, <2>1, <2>2, <2>3, <2>4 DEF Made
  <2>6. Made(e, d)' /\ Told(e, d)'
    BY <2>1, <2>2, <2>3 DEF Pair, Made, Told
  <2>7. Told(d, e)'
    <3>1. CASE r.sent = dev[d].sent
      <4>1. Knows(e, d) /\ r.pending => dev[e].greeted # r.made
        BY <1>0, <2>2, <2>4, <3>1
      <4> QED BY <2>1, <2>2, <2>3, <3>1, <4>1 DEF Pair, Told
    <3>2. CASE r.sent # dev[d].sent
      <4>1. /\ r.made = dev[d].made /\ ~r.pending /\ r.sent = dev[d].sent + 1 /\ dev[d].pending
            /\ Knows(d, e) => Knows(e, d) /\ dev[e].greeted >= dev[d].made
        BY <3>2
      <4>2. Knows(d, e) => dev[e].greeted = dev[d].made
        BY <1>0, <2>2, <2>4, <4>1
      <4> QED BY <2>1, <2>2, <2>3, <4>1, <4>2 DEF Pair, Told
    <3> QED BY <3>1, <3>2
  <2> QED BY <2>5, <2>6, <2>7 DEF Pair
<1> QED BY <1>1, <1>2, <1>3, GStep

\* A step of d in which it counts and shows a greeting of its friend, one the friend made.
LEMMA GCount ==
  ASSUME IInv, GInv, NEW d \in Devices, NEW r \in Engines, dev' = [dev EXCEPT ![d] = r], GAir(d, r),
         r.nonce = dev[d].nonce, r.remote = dev[d].remote, r.rnonce = dev[d].rnonce, r.state = dev[d].state,
         r.made = dev[d].made, r.sent = dev[d].sent, r.pending = dev[d].pending, r.state = "connected",
         r.greeted > dev[d].greeted, r.received = dev[d].received + 1,
         \A e \in Others(d) : Knows(d, e) => r.greeted <= dev[e].made
  PROVE  GInv'
<1>0. /\ Counts(dev[d]) /\ TypeOK /\ dev[d].made \in Nat /\ dev[d].greeted \in Nat /\ dev[d].received \in Nat
      /\ r.greeted \in Nat
  BY GOf, Engine
<1>1. Counts(r)
  <2>1. dev[d].received <= dev[d].greeted
    BY <1>0 DEF Counts
  <2>2. r.received <= r.greeted
    BY <1>0, <2>1
  <2> QED BY <1>0, <2>2 DEF Counts
<1>2. /\ \A e \in Devices : \A f \in On(air'[d][e]) : f.nonce = r.nonce => Tells(f, r)
      /\ \A s, e \in Devices : s # d => On(air'[s][e]) \subseteq On(air[s][e])
  <2>1. \A f \in Frames : f.ack <= dev[d].greeted => f.ack <= r.greeted
    <3>1. \A f \in Frames : f.ack \in Nat
      BY DEF Frames
    <3>2. \A n \in Nat : n <= dev[d].greeted => n <= r.greeted
      BY <1>0
    <3> QED BY <3>1, <3>2
  <2> QED BY <1>0, <2>1, GFrames
<1>3. ASSUME NEW e \in Others(d) PROVE Pair(d, e)'
  <2>1. e \in Devices /\ e # d /\ dev'[d] = r /\ dev'[e] = dev[e]
    BY GOf DEF Others
  <2>2. Pair(d, e) /\ dev[e].sent \in Nat
    BY <2>1, GOf DEF GInv
  <2>3. Knows(e, d)' = Knows(e, d) /\ Knows(d, e)' = Knows(d, e)
    BY <2>1 DEF Knows
  <2>4. Made(d, e)' /\ Told(d, e)'
    BY <2>1, <2>2, <2>3 DEF Pair, Made, Told
  <2>5. Made(e, d)'
    BY <2>1, <2>3 DEF Made
  <2>6. Told(e, d)'
    <3>1. dev[e].sent <= dev[d].received => dev[e].sent <= r.received /\ dev[e].sent + 1 <= r.received
      BY <1>0, <2>2
    <3> QED BY <2>1, <2>2, <2>3, <3>1 DEF Pair, Told
  <2> QED BY <2>4, <2>5, <2>6 DEF Pair
<1> QED BY <1>1, <1>2, <1>3, GStep

\* d's engine is reset, or switched off.
LEMMA GReset ==
  ASSUME IInv, GInv, NEW d \in Devices, Reset(d) \/ dev' = [dev EXCEPT ![d] = Off],
         dev[d].state # "off" \/ air' = air, GAir(d, dev[d])
  PROVE  GInv'
<1>1. CASE Reset(d)
  <2> DEFINE n == CHOOSE x \in Fresh(d) : TRUE
  <2>1. n \in Fresh(d)
    BY <1>1 DEF Reset
  <2>2. n \in Nonces /\ Unused(n)
    BY <2>1 DEF Fresh, Nonces
  <2>3. dev' = [dev EXCEPT ![d] = Scanning(n)]
    BY <1>1 DEF Reset
  <2> HIDE DEF n
  <2>4. Scanning(n) \in Engines /\ Scanning(n).nonce = n
    BY <2>2, OffTyped
  <2>5. Scanning(n).remote = None /\ Counts(Scanning(n))
    BY DEF Scanning, Off, Counts
  <2> QED BY <2>2, <2>3, <2>4, <2>5, GLeave
<1>2. CASE dev' = [dev EXCEPT ![d] = Off]
  <2>1. Off.remote = None /\ Counts(Off) /\ Off.nonce = None
    BY DEF Off, Counts
  <2> QED BY <1>2, <2>1, OffTyped, GLeave
<1> QED BY <1>1, <1>2

\* No command of a user breaks the invariant of the greetings.
LEMMA GCommand ==
  ASSUME IInv, GInv, NEW d \in Devices, Command(d)
  PROVE  GInv'
<1>t. /\ TypeOK /\ dev[d] \in Engines /\ Phase(dev[d])
      /\ dev[d].state # "off" => dev[d].nonce \in Nonces
  BY GOf
<1>s. ASSUME air' = air \/ (dev[d].state # "off" /\ \E type \in Types : Say(d, dev[d], type))
      PROVE  GAir(d, dev[d])
  BY <1>t, <1>s, SameTells, SayTells
<1>1. CASE Begin(d)
  BY <1>1, <1>s, GReset DEF Begin
<1>2. CASE Stop(d)
  BY <1>2, <1>s, GReset, FarewellType DEF Stop
<1>3. CASE PowerLoss(d)
  BY <1>3, <1>s, GReset DEF PowerLoss
<1>4. CASE Accept(d)
  <2> DEFINE r == [dev[d] EXCEPT !.local = TRUE]
             c == Connected(r)
  <2>1. /\ dev[d].state = "confirm" /\ dev' = [dev EXCEPT ![d] = c] /\ Say(d, r, "Confirm")
    BY <1>4 DEF Accept
  <2>2. TRUE \in BOOLEAN /\ "connected" \in States /\ "Confirm" \in Types /\ dev[d].nonce \in Nonces
    BY <1>t, <2>1 DEF States, Types
  <2>3. r \in Engines
    BY <1>t, <2>2, Flags
  <2>4. Even(r, dev[d]) /\ r.nonce = dev[d].nonce /\ r.remote = dev[d].remote /\ r.rnonce = dev[d].rnonce
        /\ r.state = "confirm"
    BY <1>t, <2>1 DEF Engines, Even
  <2> HIDE DEF r
  <2>5. [r EXCEPT !.state = "connected"] \in Engines
    BY <2>2, <2>3 DEF Engines
  <2>6. c \in Engines /\ Even(c, r) /\ c.remote = r.remote /\ c.rnonce = r.rnonce
        /\ c.state \in {"confirm", "connected"}
    BY <2>3, <2>4, <2>5 DEF Connected, Engines, Even
  <2> HIDE DEF c
  <2>7. GAir(d, r)
    BY <1>t, <2>1, <2>2, <2>3, <2>4, SayTells
  <2>8. GAir(d, c)
    BY <2>6, <2>7, ZenonT(40) DEF GAir, Tells, Even
  <2>9. Even(c, dev[d]) /\ c.remote = dev[d].remote /\ c.rnonce = dev[d].rnonce
    BY <2>4, <2>6 DEF Even
  <2> QED BY <2>1, <2>6, <2>8, <2>9, GEven
<1>5. CASE Refuse(d)
  <2>1. dev[d].state # "off" /\ Say(d, dev[d], "Bye") /\ Reset(d) /\ "Bye" \in Types
    BY <1>5 DEF Refuse, Types
  <2> QED BY <1>s, <2>1, GReset
<1>6. CASE Disconnect(d)
  BY <1>6, <1>s, GReset, FarewellType DEF Disconnect
<1>7. CASE Greet(d)
  <2> DEFINE r == [dev[d] EXCEPT !.made = @ + 1, !.pending = TRUE, !.tries = 0]
  <2>1. /\ dev[d].state = "connected" /\ dev' = [dev EXCEPT ![d] = r] /\ Say(d, r, "Greeting")
    BY <1>7 DEF Greet, Greeting, Say
  <2>2. TRUE \in BOOLEAN /\ dev[d].made + 1 \in Nat /\ 0 \in 0..Limit /\ "Greeting" \in Types
    BY <1>t, FriendAssumption, Engine DEF Types
  <2>3. r \in Engines
    BY <1>t, <2>2 DEF Engines
  <2>4. /\ r.nonce = dev[d].nonce /\ r.remote = dev[d].remote /\ r.rnonce = dev[d].rnonce /\ r.state = dev[d].state
        /\ r.greeted = dev[d].greeted /\ r.received = dev[d].received
        /\ r.made = dev[d].made + 1 /\ r.sent = dev[d].sent
    BY <1>t DEF Engines
  <2> HIDE DEF r
  <2>5. GAir(d, r)
    BY <1>t, <2>1, <2>2, <2>3, <2>4, SayTells
  <2> QED BY <2>1, <2>3, <2>4, <2>5, GOwn
<1>8. ASSUME NEW e \in Others(d), Select(d, e) PROVE GInv'
  <2> DEFINE r == [dev[d] EXCEPT !.remote = e, !.rnonce = dev[d].peers[e], !.state = "waiting",
                          !.incoming = FALSE, !.peers = NoPeers]
  <2>1. dev[d].state = "scanning" /\ dev[d].peers[e] # None /\ dev' = [dev EXCEPT ![d] = r] /\ Say(d, r, "Offer")
    BY <1>8 DEF Select
  <2>2. /\ e \in Devices /\ FALSE \in BOOLEAN /\ "waiting" \in States /\ "Offer" \in Types
        /\ NoPeers \in [Devices -> Nonces \cup {None}]
    BY OffTyped DEF Others, States, Types
  <2>3. dev[d].peers[e] \in Nonces
    BY <1>t, <2>1, <2>2, Engine
  <2>4. r \in Engines
    BY <1>t, <2>2, <2>3 DEF Engines
  <2>5. Even(r, dev[d]) /\ r.nonce \in Nonces /\ r.state = "waiting"
    BY <1>t, <2>1 DEF Even, Engines
  <2> HIDE DEF r
  <2>6. GAir(d, r)
    BY <1>t, <2>1, <2>2, <2>4, <2>5, SayTells
  <2> QED BY <2>1, <2>4, <2>5, <2>6, GEven
<1> QED BY <1>1, <1>2, <1>3, <1>4, <1>5, <1>6, <1>7, <1>8 DEF Command

\* No timer breaks it.
LEMMA GTick ==
  ASSUME IInv, GInv, NEW d \in Devices, Tick(d)
  PROVE  GInv'
<1>t. /\ TypeOK /\ dev[d] \in Engines /\ Phase(dev[d])
      /\ dev[d].state # "off" => dev[d].nonce \in Nonces
  BY GOf
<1>s. ASSUME air' = air \/ (dev[d].state # "off" /\ \E type \in Types : Say(d, dev[d], type))
      PROVE  GAir(d, dev[d])
  BY <1>t, <1>s, SameTells, SayTells
<1>1. CASE SayHello(d)
  <2>1. dev[d].state # "off" /\ Say(d, dev[d], "Hello") /\ "Hello" \in Types
    BY <1>1 DEF SayHello, Types
  <2> QED BY <1>1, <1>s, <2>1, GIdle DEF SayHello
<1>2. CASE Repeat(d)
  <2>1. dev[d].nonce \in Nonces /\ 0 \in Nat /\ 0 <= dev[d].greeted
    BY <1>2, <1>t, Engine DEF Repeat, Pairing
  <2>2. \A type : Tells(Make(dev[d], type), dev[d])
    BY <1>t, <2>1, MakeTells
  <2>3. \A f \in On(Repeated(dev[d])) : Tells(f, dev[d])
    <3>1. On(<<Make(dev[d], "Answer"), Make(dev[d], "Confirm")>>) = {Make(dev[d], "Answer"), Make(dev[d], "Confirm")}
      BY DEF On
    <3> QED BY <2>2, <3>1, OnOne DEF Repeated
  <2>4. GAir(d, dev[d])
    BY <1>2, <1>t, <2>1, <2>3, RepeatedSaid, SendTells DEF Repeat
  <2> QED BY <1>2, <2>4, GIdle DEF Repeat
<1>3. CASE Deadline(d)
  BY <1>3, <1>s, GReset, FarewellType DEF Deadline, Pairing
<1>4. CASE Lost(d)
  BY <1>4, <1>s, GReset DEF Lost
<1>5. CASE Heartbeat(d)
  <2>1. dev[d].state # "off" /\ Say(d, dev[d], "Heartbeat") /\ "Heartbeat" \in Types
    BY <1>5 DEF Heartbeat, Types
  <2> QED BY <1>5, <1>s, <2>1, GIdle DEF Heartbeat
<1>6. CASE GreetAgain(d)
  <2>1. dev[d].state = "connected"
    BY <1>6 DEF GreetAgain
  <2>2. CASE dev[d].tries = Limit
    <3> DEFINE r == [dev[d] EXCEPT !.pending = FALSE, !.tries = 0]
    <3>1. FALSE \in BOOLEAN /\ 0 \in 0..Limit
      BY FriendAssumption
    <3>2. r \in Engines
      BY <1>t, <3>1 DEF Engines
    <3>3. /\ r.nonce = dev[d].nonce /\ r.remote = dev[d].remote /\ r.rnonce = dev[d].rnonce /\ r.state = dev[d].state
          /\ r.greeted = dev[d].greeted /\ r.received = dev[d].received
          /\ r.made = dev[d].made /\ r.sent = dev[d].sent /\ ~r.pending
      BY <1>t DEF Engines
    <3>4. dev' = [dev EXCEPT ![d] = r] /\ air' = air
      BY <1>6, <1>t, <2>2 DEF GreetAgain, TypeOK
    <3> QED BY <2>1, <3>2, <3>3, <3>4, SameTells, GOwn
  <2>3. CASE dev[d].tries # Limit
    <3> DEFINE r == [dev[d] EXCEPT !.tries = @ + 1]
    <3>1. dev[d].tries + 1 \in 0..Limit
      BY <1>t, <2>3, Engine, FriendAssumption
    <3>2. r \in Engines
      BY <1>t, <3>1 DEF Engines
    <3>3. Even(r, dev[d]) /\ r.remote = dev[d].remote /\ r.rnonce = dev[d].rnonce /\ r.state = dev[d].state
      BY <1>t DEF Even, Engines
    <3>4. dev' = [dev EXCEPT ![d] = r] /\ Say(d, dev[d], "Greeting") /\ "Greeting" \in Types
      BY <1>6, <1>t, <2>3 DEF GreetAgain, TypeOK, Greeting, Say, Types
    <3>5. GAir(d, dev[d])
      BY <1>s, <2>1, <3>4
    <3> HIDE DEF r
    <3>6. GAir(d, r)
      BY <3>3, <3>5, ZenonT(40) DEF GAir, Tells, Even
    <3> QED BY <3>2, <3>3, <3>4, <3>6, GEven
  <2> QED BY <2>2, <2>3
<1>7. ASSUME NEW e \in Others(d), ForgetPeer(d, e) PROVE GInv'
  <2> DEFINE r == [dev[d] EXCEPT !.peers[e] = None]
  <2>1. dev' = [dev EXCEPT ![d] = r] /\ air' = air
    BY <1>7, <1>t DEF ForgetPeer, TypeOK
  <2>2. [dev[d].peers EXCEPT ![e] = None] \in [Devices -> Nonces \cup {None}]
    BY <1>t, Engine
  <2>3. r \in Engines
    BY <1>t, <2>2 DEF Engines
  <2>4. Even(r, dev[d]) /\ r.remote = dev[d].remote /\ r.rnonce = dev[d].rnonce /\ r.state = dev[d].state
    BY <1>t DEF Even, Engines
  <2> QED BY <2>1, <2>3, <2>4, SameTells, GEven
<1> QED BY <1>1, <1>2, <1>3, <1>4, <1>5, <1>6, <1>7 DEF Tick

\* A frame that arrives breaks it neither, in whatever state it finds the device.
LEMMA GReceive ==
  ASSUME IInv, GInv, NEW d \in Devices, NEW e \in Others(d), Receive(d, e)
  PROVE  GInv'
<1> DEFINE f == Frame(d, e)
<1>t. /\ TypeOK /\ dev[d] \in Engines /\ Phase(dev[d]) /\ Counts(dev[d])
      /\ dev[d].state # "off" => dev[d].nonce \in Nonces
      /\ dev[d].state \in States
  BY GOf
<1>e. e \in Devices /\ e # d /\ Arriving(d, e)
  BY DEF Others, Receive
<1>f. f \in Frames /\ Numbered(e, f)
  <2>1. f \in Frames /\ f \in On(air[e][d])
    BY <1>t, <1>e, AirTyped, TakenOn
  <2> QED BY <1>e, <2>1 DEF GInv
<1>g. f.nonce \in Nonces /\ f.num \in Nat /\ f.ack \in Nat /\ f.confirmed \in BOOLEAN
  BY <1>f DEF Frames
<1>n. None \notin Nonces /\ None \notin Devices
  BY FriendAssumption
<1>a. ASSUME air' = Taken(d, e), NEW r PROVE GAir(d, r)
  BY <1>a, <1>t, <1>e, TakenTells
<1>r. ASSUME air' = Taken(d, e), Reset(d), dev[d].state # "off" PROVE GInv'
  BY <1>r, <1>a, GReset
<1>h. Hear(d, e, f)
  BY DEF Receive
\* What a sealed frame says of the friend is so.
<1>q. ASSUME Sealed(d, e, f)
      PROVE  /\ dev[d].state \in {"confirm", "connected"} /\ dev[d].remote = e /\ dev[d].nonce \in Nonces
             /\ Knows(d, e) => f.num <= dev[e].made /\ f.ack <= dev[e].greeted /\ Knows(e, d)
  <2>1. /\ dev[d].keyed /\ dev[d].remote = e /\ f.nonce = dev[d].rnonce /\ f.target = d /\ f.tnonce = dev[d].nonce
    BY <1>q DEF Sealed, ForMe, FromRemote
  <2>2. dev[d].state \in {"confirm", "connected"} /\ dev[d].nonce \in Nonces
    BY <1>t, <2>1 DEF Phase, States
  <2>3. Knows(d, e) => Tells(f, dev[e])
    BY <1>f, <2>1 DEF Knows, Numbered
  <2>4. Knows(d, e) => f.num <= dev[e].made /\ f.ack <= dev[e].greeted /\ Knows(e, d)
    BY <1>n, <2>1, <2>2, <2>3 DEF Knows, Tells
  <2> QED BY <2>1, <2>2, <2>4
<1> HIDE DEF f
<1>1. CASE Discover(d, e, f)
  <2> DEFINE r == [dev[d] EXCEPT !.peers[e] = f.nonce]
  <2>1. dev' = [dev EXCEPT ![d] = r] /\ air' = Taken(d, e)
    BY <1>1, <1>t DEF Discover, TypeOK
  <2>2. [dev[d].peers EXCEPT ![e] = f.nonce] \in [Devices -> Nonces \cup {None}]
    BY <1>t, <1>g, Engine
  <2>3. r \in Engines
    BY <1>t, <2>2 DEF Engines
  <2>4. Even(r, dev[d]) /\ r.remote = dev[d].remote /\ r.rnonce = dev[d].rnonce /\ r.state = dev[d].state
    BY <1>t DEF Even, Engines
  <2> QED BY <1>a, <2>1, <2>3, <2>4, GEven
<1>2. CASE HearOffer(d, e, f)
  <2> DEFINE r == Offered(d, e, f)
             k == IF r.keyed THEN r ELSE Derived(r)
             s == IF k.state = "connected" THEN k ELSE [k EXCEPT !.state = "confirm"]
  <2>1. AcceptsOffer(d, e, f) /\ dev' = [dev EXCEPT ![d] = s] /\ Reply(d, e, s, <<Make(s, "Answer")>>)
    BY <1>2 DEF HearOffer
  <2>2. /\ r \in Engines /\ Even(r, dev[d]) /\ dev[d].nonce \in Nonces
        /\ dev[d].state = "scanning" \/ r = dev[d]
    <3>1. CASE dev[d].state = "scanning"
      <4>1. TRUE \in BOOLEAN /\ NoPeers \in [Devices -> Nonces \cup {None}]
        BY OffTyped
      <4>2. r = [dev[d] EXCEPT !.remote = e, !.rnonce = f.nonce, !.incoming = TRUE, !.peers = NoPeers]
        BY <3>1 DEF Offered
      <4>3. r \in Engines
        BY <1>t, <1>e, <1>g, <4>1, <4>2 DEF Engines
      <4> QED BY <1>t, <3>1, <4>2, <4>3 DEF Engines, Even
    <3>2. CASE dev[d].state # "scanning"
      <4>1. r = dev[d] /\ dev[d].remote = e
        BY <2>1, <3>2 DEF Offered, AcceptsOffer, FromRemote
      <4> QED BY <1>t, <1>e, <1>n, <3>2, <4>1 DEF Phase, Even
    <3> QED BY <3>1, <3>2
  <2> HIDE DEF r
  <2>3. k \in Engines /\ Even(k, r) /\ k.remote = r.remote /\ k.rnonce = r.rnonce
    <3>1. Even(Derived(r), r)
      BY <2>2 DEF Derived, Engines, Even
    <3> QED BY <2>2, <3>1, DerivedTyped DEF Even
  <2> HIDE DEF k
  <2>4. s \in Engines /\ Even(s, k) /\ s.remote = k.remote /\ s.rnonce = k.rnonce /\ s.state \in {"confirm", "connected"}
    <3>1. "confirm" \in States
      BY DEF States
    <3>2. [k EXCEPT !.state = "confirm"] \in Engines
      BY <2>3, <3>1 DEF Engines
    <3>3. CASE k.state = "connected"
      BY <2>3, <3>3 DEF Even
    <3>4. CASE k.state # "connected"
      BY <2>3, <3>2, <3>4 DEF Engines, Even
    <3> QED BY <3>3, <3>4
  <2> HIDE DEF s
  <2>5. Even(s, dev[d]) /\ s.nonce \in Nonces /\ "Answer" \in Types /\ 0 \in Nat /\ 0 <= s.greeted
    <3>1. Even(s, dev[d])
      BY <2>2, <2>3, <2>4 DEF Even
    <3>2. 0 <= s.greeted
      BY <2>4, Engine
    <3> QED BY <2>2, <3>1, <3>2 DEF Types, Even
  <2>6. GAir(d, s)
    <3>1. Tells(Make(s, "Answer"), s) /\ Said(<<Make(s, "Answer")>>, s)
      BY <2>4, <2>5, MakeTells, MakeTyped, OneSaid
    <3> QED BY <1>t, <1>e, <2>1, <3>1, OnOne, ReplyTells
  <2>7. dev[d].state = "scanning" \/ (s.remote = dev[d].remote /\ s.rnonce = dev[d].rnonce)
    BY <2>2, <2>3, <2>4
  <2> QED BY <2>1, <2>4, <2>5, <2>6, <2>7, GEven
<1>3. CASE HearAnswer(d, e, f)
  <2> DEFINE k == IF dev[d].keyed THEN dev[d] ELSE Derived(dev[d])
             s == [k EXCEPT !.state = "confirm", !.incoming = FALSE]
  <2>1. /\ dev' = [dev EXCEPT ![d] = s] /\ air' = Taken(d, e)
    BY <1>3 DEF HearAnswer
  <2>2. k \in Engines /\ Even(k, dev[d]) /\ k.remote = dev[d].remote /\ k.rnonce = dev[d].rnonce
    <3>1. Even(Derived(dev[d]), dev[d])
      BY <1>t DEF Derived, Engines, Even
    <3> QED BY <1>t, <3>1, DerivedTyped DEF Even
  <2> HIDE DEF k
  <2>3. "confirm" \in States /\ FALSE \in BOOLEAN
    BY DEF States
  <2>4. s \in Engines
    BY <2>2, <2>3 DEF Engines
  <2>5. Even(s, k) /\ s.remote = k.remote /\ s.rnonce = k.rnonce /\ s.state = "confirm"
    BY <2>2 DEF Engines, Even
  <2> HIDE DEF s
  <2>6. Even(s, dev[d]) /\ s.remote = dev[d].remote /\ s.rnonce = dev[d].rnonce
    BY <2>2, <2>5 DEF Even
  <2> QED BY <1>a, <2>1, <2>4, <2>5, <2>6, GEven
<1>4. CASE PairFails(d, e, f)
  <2>1. dev[d].state # "off"
    BY <1>4, <1>t, <1>e, <1>n DEF PairFails, AcceptsOffer, AcceptsAnswer, FromRemote, Pairing, Phase
  <2> QED BY <1>4, <1>r, <2>1 DEF PairFails
<1>5. CASE HearReject(d, e, f)
  BY <1>5, <1>r DEF HearReject
<1>6. CASE HearBye(d, e, f)
  BY <1>6, <1>q, <1>r DEF HearBye
<1>u. /\ Heard(dev[d], f) \in Engines /\ Even(Heard(dev[d], f), dev[d]) /\ Alike(Heard(dev[d], f), dev[d])
  <2>1. (IF f.num > dev[d].heard THEN f.num ELSE dev[d].heard) \in Nat
    BY <1>t, <1>g, Engine
  <2>2. [dev[d] EXCEPT !.heard = IF f.num > dev[d].heard THEN f.num ELSE dev[d].heard] \in Engines
    BY <1>t, <2>1 DEF Engines
  <2> QED BY <1>t, <2>2 DEF Heard, Even, Alike, Engines
<1>7. CASE HearConfirm(d, e, f)
  <2> DEFINE h == Heard(dev[d], f)
             r == [h EXCEPT !.confirmed = f.confirmed]
             c == Connected(r)
  <2>1. Sealed(d, e, f) /\ dev' = [dev EXCEPT ![d] = c] /\ air' = Taken(d, e)
    BY <1>7 DEF HearConfirm
  <2>2. h \in Engines /\ Even(h, dev[d]) /\ Alike(h, dev[d])
    BY <1>u
  <2> HIDE DEF h
  <2>3. r \in Engines
    BY <1>g, <2>2, Flags
  <2>4. Even(r, h) /\ r.remote = h.remote /\ r.rnonce = h.rnonce /\ r.state = h.state
    BY <2>2 DEF Even, Engines
  <2> HIDE DEF r
  <2>5. c \in Engines /\ Even(c, r) /\ c.remote = r.remote /\ c.rnonce = r.rnonce /\ c.state \in {r.state, "connected"}
    <3>1. "connected" \in States
      BY DEF States
    <3>2. [r EXCEPT !.state = "connected"] \in Engines
      BY <2>3, <3>1 DEF Engines
    <3> QED BY <2>3, <3>2 DEF Connected, Engines, Even
  <2> HIDE DEF c
  <2>6. /\ Even(c, dev[d]) /\ c.remote = dev[d].remote /\ c.rnonce = dev[d].rnonce
        /\ c.state \in {"confirm", "connected"}
    BY <1>q, <2>1, <2>2, <2>4, <2>5 DEF Even, Alike
  <2> QED BY <1>a, <2>1, <2>5, <2>6, GEven
<1>8. CASE HearGreeting(d, e, f)
  <2> DEFINE h == Heard(dev[d], f)
             c == Counted(h, f)
  <2>1. Sealed(d, e, f) /\ h \in Engines /\ Even(h, dev[d]) /\ Alike(h, dev[d])
    BY <1>8, <1>u DEF HearGreeting
  <2>2. CASE dev[d].state = "connected"
    <3>1. dev' = [dev EXCEPT ![d] = c] /\ Reply(d, e, h, <<[Make(h, "Ack") EXCEPT !.ack = f.num]>>)
      BY <1>8, <2>2 DEF HearGreeting
    <3>2. h.nonce \in Nonces /\ "Ack" \in Types /\ h.greeted \in Nat /\ h.received + 1 \in Nat /\ h.made \in Nat
      BY <1>q, <2>1, Engine DEF Alike, Types
    <3> HIDE DEF h
    <3>3. c \in Engines
      <4>1. [h EXCEPT !.greeted = f.num, !.received = h.received + 1] \in Engines
        BY <1>g, <2>1, <3>2 DEF Engines
      <4> QED BY <2>1, <4>1 DEF Counted
    <3>4. /\ c.nonce = h.nonce /\ c.made = h.made /\ c.remote = h.remote /\ c.rnonce = h.rnonce
          /\ c.state = h.state /\ c.pending = h.pending /\ c.sent = h.sent
          /\ c.greeted = (IF f.num > h.greeted THEN f.num ELSE h.greeted)
          /\ c.received = (IF f.num > h.greeted THEN h.received + 1 ELSE h.received)
      BY <2>1 DEF Counted, Engines
    <3> HIDE DEF c
    <3> DEFINE a == [Make(h, "Ack") EXCEPT !.ack = f.num]
    <3>5. GAir(d, c)
      <4>1. /\ a.nonce = h.nonce /\ a.num = h.made /\ a.ack = f.num /\ a.tnonce = h.rnonce /\ a.target = h.remote
        BY DEF Make
      <4>2. Said(<<a>>, h)
        BY <1>g, <2>1, <3>2, MakeTyped, OneSaid
      <4>3. h.made <= h.made /\ f.num <= c.greeted
        BY <1>g, <3>2, <3>4
      <4> HIDE DEF a
      <4>4. Tells(a, c)
        BY <3>4, <4>1, <4>3 DEF Tells
      <4>5. Reply(d, e, h, <<a>>)
        BY <3>1 DEF a
      <4> QED BY <1>t, <1>e, <4>2, <4>4, <4>5, OnOne, ReplyTells
    <3>6. CASE f.num > h.greeted
      <4>1. \A x \in Others(d) : Knows(d, x) => c.greeted <= dev[x].made
        BY <1>q, <2>1, <3>4, <3>6 DEF Knows
      <4> QED BY <2>1, <2>2, <3>1, <3>3, <3>4, <3>5, <3>6, <4>1, GCount DEF Even, Alike
    <3>7. CASE ~(f.num > h.greeted)
      <4>1. Even(c, dev[d]) /\ c.remote = dev[d].remote /\ c.rnonce = dev[d].rnonce /\ c.state = dev[d].state
        BY <2>1, <3>4, <3>7 DEF Even, Alike
      <4> QED BY <3>1, <3>3, <3>5, <4>1, GEven
    <3> QED BY <3>6, <3>7
  <2>3. CASE dev[d].state # "connected"
    <3>1. dev' = [dev EXCEPT ![d] = h] /\ air' = Taken(d, e)
      BY <1>8, <2>3 DEF HearGreeting
    <3>2. h.remote = dev[d].remote /\ h.rnonce = dev[d].rnonce /\ h.state = dev[d].state
      BY <2>1 DEF Alike
    <3> QED BY <1>a, <2>1, <3>1, <3>2, GEven
  <2> QED BY <2>2, <2>3
<1>9. CASE HearAck(d, e, f)
  <2> DEFINE h == Heard(dev[d], f)
             c == IF h.state = "connected" THEN Acked(h, f) ELSE h
  <2>1. Sealed(d, e, f) /\ dev' = [dev EXCEPT ![d] = c] /\ air' = Taken(d, e) /\ h \in Engines /\ Even(h, dev[d]) /\ Alike(h, dev[d])
    BY <1>9, <1>u DEF HearAck
  <2> HIDE DEF h
  <2>2. c \in Engines
    <3>1. h.sent + 1 \in Nat /\ FALSE \in BOOLEAN /\ 0 \in 0..Limit
      BY <2>1, Engine, FriendAssumption
    <3>2. [h EXCEPT !.pending = FALSE, !.tries = 0, !.sent = h.sent + 1] \in Engines
      BY <2>1, <3>1 DEF Engines
    <3> QED BY <2>1, <3>2 DEF Acked
  <2>3. /\ c.nonce = h.nonce /\ c.made = h.made /\ c.remote = h.remote /\ c.rnonce = h.rnonce
        /\ c.state = h.state /\ c.greeted = h.greeted /\ c.received = h.received
        /\ \/ c.pending = h.pending /\ c.sent = h.sent
           \/ h.state = "connected" /\ h.pending /\ f.ack = h.made /\ ~c.pending /\ c.sent = h.sent + 1
    BY <2>1 DEF Acked, Engines
  <2> HIDE DEF c
  <2>4. CASE c.pending = h.pending /\ c.sent = h.sent
    <3>1. Even(c, dev[d]) /\ c.remote = dev[d].remote /\ c.rnonce = dev[d].rnonce /\ c.state = dev[d].state
      BY <2>1, <2>3, <2>4 DEF Even, Alike
    <3> QED BY <1>a, <2>1, <2>2, <3>1, GEven
  <2>5. CASE h.state = "connected" /\ h.pending /\ f.ack = h.made /\ ~c.pending /\ c.sent = h.sent + 1
    <3>1. \A x \in Others(d) : Knows(d, x) => Knows(x, d) /\ dev[x].greeted >= dev[d].made
      <4>1. f.ack = dev[d].made
        BY <2>1, <2>5 DEF Even
      <4>2. Knows(d, e) => Knows(e, d) /\ dev[e].greeted >= dev[d].made
        BY <1>q, <2>1, <4>1
      <4> QED BY <1>q, <2>1, <4>2 DEF Knows
    <3>2. GAir(d, c)
      BY <1>a, <2>1
    <3>3. /\ c.nonce = dev[d].nonce /\ c.made = dev[d].made /\ c.remote = dev[d].remote /\ c.rnonce = dev[d].rnonce
          /\ c.state = dev[d].state /\ c.greeted = dev[d].greeted /\ c.received = dev[d].received
          /\ ~c.pending /\ c.sent = dev[d].sent + 1 /\ dev[d].pending /\ c.state = "connected"
      BY <2>1, <2>3, <2>5 DEF Even, Alike
    <3> QED BY <2>1, <2>2, <3>1, <3>2, <3>3, GOwn
  <2> QED BY <2>3, <2>4, <2>5
<1>10. CASE Ignore(d, e, f)
  BY <1>10, <1>a, GIdle DEF Ignore
<1> QED BY <1>h, <1>1, <1>2, <1>3, <1>4, <1>5, <1>6, <1>7, <1>8, <1>9, <1>10 DEF Hear

\* The invariant of the greetings holds initially: nobody is in a session.
LEMMA GInit == Init => GInv
<1> SUFFICES ASSUME Init PROVE GInv
  OBVIOUS
<1>1. \A d \in Devices : dev[d] = Off
  BY DEF Init
<1>2. On(<<>>) = {}
  BY DEF On
<1>3. \A s, e \in Devices : On(air[s][e]) = {}
  BY <1>2 DEF Init
<1>4. Counts(Off) /\ Off.remote = None
  BY DEF Off, Counts
<1>5. \A d \in Devices : \A e \in Others(d) : Pair(d, e)
  BY <1>1, <1>4, FriendAssumption DEF Pair, Made, Told, Knows, Others
<1> QED BY <1>1, <1>3, <1>4, <1>5 DEF GInv

\* With that of the sessions it is inductive.
LEMMA GNext == IInv /\ GInv /\ [Next]_vars => GInv'
<1> SUFFICES ASSUME IInv, GInv, [Next]_vars PROVE GInv'
  OBVIOUS
<1>1. CASE UNCHANGED vars
  BY <1>1 DEF vars, GInv, Counts, Numbered, Tells, Pair, Made, Told, Knows
<1>2. CASE Next
  <2>1. PICK d \in Devices : \/ Command(d) \/ Tick(d)
                             \/ \E e \in Others(d) : Receive(d, e) \/ Lose(d, e)
    BY <1>2 DEF Next
  <2>2. ASSUME NEW e \in Others(d), Lose(d, e) PROVE GInv'
    <3>1. e \in Devices /\ TypeOK
      BY DEF Others, IInv
    <3>2. GAir(d, dev[d])
      BY <2>2, <3>1, TakenTells DEF Lose
    <3> QED BY <2>2, <3>2, GIdle DEF Lose
  <2> QED BY <2>1, <2>2, GCommand, GTick, GReceive
<1> QED BY <1>1, <1>2

-----------------------------------------------------------------------------
(* The theorems *)

\* Types hold in every reachable state: any number of devices, nonces, frames and commands.
THEOREM TypeCorrect == Spec => []TypeOK
<1>1. IInv => TypeOK
  BY DEF IInv
<1> QED BY <1>1, InitStep, NextStep, PTL DEF Spec

\* A device shows a friend only after both users agreed to this very pairing, whatever frames are
\* lost and however often devices leave, restart and pair again (Engine::Connected, Reset).
THEOREM Consent == Spec => []MutualConsent
<1>1. IInv => MutualConsent
  BY DEF IInv, Agreed, MutualConsent
<1> QED BY <1>1, InitStep, NextStep, PTL DEF Spec

\* Two devices that show each other as friends are in the same session and hold its keys: neither
\* takes the acceptance given to an earlier session of the other for one of its own.
THEOREM OneSession == Spec => []SameSession
<1>1. ASSUME IInv PROVE SameSession
  <2> SUFFICES ASSUME NEW d \in Devices, NEW e \in Devices, dev[d].state = "connected", dev[e].state = "connected",
                      dev[d].remote = e, dev[e].remote = d
               PROVE  Mirror(d, e)
    BY DEF SameSession
  <2>1. d # e /\ dev[d].rnonce \in Nonces /\ dev[e].rnonce \in Nonces /\ dev[d].keyed /\ dev[e].keyed
    BY <1>1 DEF IInv, Agreed, Phase, Others
  <2>2. <<e, dev[d].rnonce>> \in consent[d] /\ <<d, dev[e].rnonce>> \in consent[e]
    BY <1>1 DEF IInv, Agreed
  <2>3. dev[d].rnonce = dev[e].nonce \/ dev[e].rnonce = dev[d].nonce
    BY <1>1, <2>1, <2>2 DEF IInv, Crossed
  <2>4. dev[d].rnonce = dev[e].nonce /\ dev[e].rnonce = dev[d].nonce
    BY <1>1, <2>1, <2>2, <2>3 DEF IInv, Bound
  <2> QED BY <2>1, <2>4 DEF Mirror
<1> QED BY <1>1, InitStep, NextStep, PTL DEF Spec

\* A greeting the user is told has arrived was shown to the friend, once, and the friend is shown none
\* that was not made: through lost frames, repeats, late acknowledgments and any number of sessions
\* before (Engine::Greet, Receive and Tick).
THEOREM Greetings == Spec => []GreetedOnce
<1>1. ASSUME IInv, GInv PROVE GreetedOnce
  <2> SUFFICES ASSUME NEW d \in Devices, NEW e \in Devices, Mirror(d, e)
               PROVE  dev[d].sent <= dev[e].received /\ dev[e].received <= dev[d].made
    BY DEF GreetedOnce
  <2>1. Knows(d, e) /\ Knows(e, d)
    BY DEF Mirror, Knows
  <2>2. e \in Others(d)
    <3>1. Agreed(d) /\ dev[d].state \in States /\ Phase(dev[d]) /\ dev[d].remote = e
      BY <1>1, Of, Engine DEF Mirror
    <3> QED BY <3>1, FriendAssumption DEF Agreed, Phase, States
  <2>3. Pair(d, e)
    BY <1>1, <2>2 DEF GInv
  <2>4. /\ Counts(dev[e]) /\ dev[e].received \in Nat /\ dev[e].greeted \in Nat /\ dev[d].made \in Nat
    BY <1>1, GOf
  <2>5. dev[e].received <= dev[e].greeted /\ dev[e].greeted <= dev[d].made
    BY <2>1, <2>3, <2>4 DEF Counts, Pair, Made
  <2> QED BY <2>1, <2>3, <2>4, <2>5 DEF Pair, Told
<1> QED BY <1>1, InitStep, NextStep, GInit, GNext, PTL DEF Spec

=============================================================================
