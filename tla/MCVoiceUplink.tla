---------------------------- MODULE MCVoiceUplink ----------------------------
(* Instances of VoiceUplink for TLC: the .cfg files Voice*.cfg. *)
EXTENDS VoiceUplink

==============================================================================
