---------------------------- MODULE AtomicInstall ----------------------------
(***************************************************************************)
(* What a firmware upgrade promises whoever owns the device: the image the *)
(* boot loader will start changes in one step, from one whole image to     *)
(* another, only on behalf of the session that is open, and an image that  *)
(* was never confirmed can still be given up for the one it replaced.      *)
(***************************************************************************)
EXTENDS Naturals

CONSTANTS
  Sessions,        \* identities of upgrade sessions
  WholeImage(_)    \* the image a session announced; session 0 is the factory

VARIABLES
  installed,  \* the image the boot loader starts next
  previous,   \* while on trial: the image it falls back to
  trial,      \* the installed image has not been confirmed
  session,    \* the open session, 0 when none
  last        \* the newest session opened so far

avars == <<installed, previous, trial, session, last>>

AInit ==
  /\ installed = WholeImage(0) /\ previous = <<>> /\ trial = FALSE
  /\ session = 0 /\ last = 0

Open ==
  /\ session = 0
  /\ last + 1 \in Sessions
  /\ session' = last + 1 /\ last' = last + 1
  /\ UNCHANGED <<installed, previous, trial>>

\* A session ends without installing: failure, abort, or power loss.
Close ==
  /\ session # 0
  /\ session' = 0
  /\ UNCHANGED <<installed, previous, trial, last>>

Install ==
  /\ session # 0 /\ ~trial
  /\ installed' = WholeImage(session) /\ previous' = installed
  /\ trial' = TRUE
  /\ session' = 0
  /\ UNCHANGED last

Confirm ==
  /\ trial
  /\ trial' = FALSE /\ previous' = <<>>
  /\ UNCHANGED <<installed, session, last>>

Rollback ==
  /\ trial
  /\ installed' = previous /\ previous' = <<>> /\ trial' = FALSE
  /\ UNCHANGED <<session, last>>

ANext == Open \/ Close \/ Install \/ Confirm \/ Rollback

ASpec == AInit /\ [][ANext]_avars

=============================================================================
