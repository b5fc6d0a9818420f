------------------------------ MODULE LiveCall ------------------------------
(***************************************************************************)
(* What realtime calls promise whoever speaks into the device: there is    *)
(* one line at a time, dialled for the newest call while it is wanted and  *)
(* with a permit that is used once; what is said into a line is heard on   *)
(* that line or nowhere, and once the call is cancelled nothing more than  *)
(* the one packet whose sending had begun; and a call is over only when    *)
(* its line is closed, the application knows it, and the platform's        *)
(* session has been given back or is lost.                                 *)
(***************************************************************************)
EXTENDS Naturals, Sequences

VARIABLES
  call,     \* the newest call: number, still wanted; calls are offered by the platform, or asked of it
  permit,   \* a token to dial for it, not used yet
  session,  \* what the platform holds for an asked call: "none", "held", "lost" (the device cannot know of it)
  line,     \* open, the call it was dialled for (0: none), how many there were
  ready,    \* the line takes what is said
  told,     \* the application was told so
  spoken,   \* said and not yet sent: for each packet the line it was said into
  sending   \* the packet being sent: "no", "checked" (one may be sent), "taken" (it is on its way)

lvars == <<call, permit, session, line, ready, told, spoken, sending>>

LInit ==
  /\ call \in [number : {0}, wanted : {FALSE}, offered : BOOLEAN]
  /\ permit = FALSE /\ session = "none"
  /\ line = [open |-> FALSE, of |-> 0, number |-> 0]
  /\ ready = FALSE /\ told = FALSE /\ spoken = <<>> /\ sending = "no"

\* A call replaces the one before; an offer comes with its permit.
Ask ==
  /\ call' = [number |-> call.number + 1, wanted |-> TRUE, offered |-> call.offered]
  /\ permit' = call.offered /\ ready' = FALSE
  /\ UNCHANGED <<session, line, told, spoken, sending>>

Cancel ==
  /\ call' = [number |-> call.number + 1, wanted |-> FALSE, offered |-> call.offered]
  /\ permit' = FALSE /\ ready' = FALSE /\ spoken' \in {<<>>, spoken}
  /\ UNCHANGED <<session, line, told, sending>>

\* The platform permits a call that was asked for and holds a session; the permit can be of no use, or lost on its way.
Permit ==
  /\ call.wanted /\ ~call.offered /\ ~line.open /\ ~told /\ session # "held"
  /\ \/ session' = "held" /\ permit' \in {permit, TRUE}
     \/ session' = "lost" /\ UNCHANGED permit
  /\ UNCHANGED <<call, line, ready, told, spoken, sending>>

\* The attempt to dial fails.
Lapse ==
  /\ permit /\ ~line.open /\ permit' = FALSE
  /\ UNCHANGED <<call, session, line, ready, told, spoken, sending>>

Dial ==
  /\ call.wanted /\ permit /\ ~line.open /\ ~told /\ spoken = <<>>
  /\ call.offered \/ session = "held"
  /\ line' = [open |-> TRUE, of |-> call.number, number |-> line.number + 1]
  /\ permit' = FALSE
  /\ UNCHANGED <<call, session, ready, told, spoken, sending>>

Answered ==
  /\ line.open /\ ready' = TRUE
  /\ UNCHANGED <<call, permit, session, line, told, spoken, sending>>

Tell ==
  /\ told' \in {FALSE, ready}
  /\ UNCHANGED <<call, permit, session, line, ready, spoken, sending>>

Speak ==
  /\ ready /\ spoken' = Append(spoken, line.number)
  /\ UNCHANGED <<call, permit, session, line, ready, told, sending>>

\* The sending of a packet begins, for the newest call, on its line.
Begin ==
  /\ sending = "no" /\ ready /\ call.wanted /\ line.open /\ line.of = call.number
  /\ spoken # <<>> /\ sending' = "checked"
  /\ UNCHANGED <<call, permit, session, line, ready, told, spoken>>

\* The call may be cancelled meanwhile; the packet is still of this line.
Take ==
  /\ sending = "checked" /\ line.open
  /\ spoken # <<>> /\ Head(spoken) = line.number /\ spoken' = Tail(spoken) /\ sending' = "taken"
  /\ UNCHANGED <<call, permit, session, line, ready, told>>

\* It is heard or lost; or there was none left to take.
Sent ==
  /\ sending = "taken" \/ (sending = "checked" /\ spoken = <<>>)
  /\ sending' = "no"
  /\ UNCHANGED <<call, permit, session, line, ready, told, spoken>>

Forget ==
  /\ ~line.open /\ spoken' = <<>>
  /\ UNCHANGED <<call, permit, session, line, ready, told, sending>>

HangUp ==
  /\ line.open /\ sending = "no" /\ line' = [open |-> FALSE, of |-> 0, number |-> line.number] /\ ready' = FALSE
  /\ UNCHANGED <<call, permit, session, told, spoken, sending>>

GiveBack ==
  /\ ~line.open /\ ~told /\ session = "held" /\ session' \in {"none", "lost"}
  /\ UNCHANGED <<call, permit, line, ready, told, spoken, sending>>

Over ==
  /\ call.wanted /\ ~permit /\ ~line.open /\ ~told /\ spoken = <<>> /\ session # "held"
  /\ call' = [number |-> call.number, wanted |-> FALSE, offered |-> call.offered]
  /\ UNCHANGED <<permit, session, line, ready, told, spoken, sending>>

LNext == \/ Ask \/ Cancel \/ Permit \/ Lapse \/ Dial \/ Answered \/ Tell
         \/ Speak \/ Begin \/ Take \/ Sent \/ Forget \/ HangUp \/ GiveBack \/ Over

LSpec == LInit /\ [][LNext]_lvars

=============================================================================
