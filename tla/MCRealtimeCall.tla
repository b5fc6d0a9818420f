---------------------------- MODULE MCRealtimeCall ----------------------------
(* Instances of RealtimeCall for TLC: the .cfg files Call*.cfg. *)
EXTENDS RealtimeCall

==============================================================================
