--------------------------- MODULE MCCloudSession ---------------------------
(* Instances of CloudSession for TLC: the .cfg files Cloud*.cfg. *)
EXTENDS CloudSession

==============================================================================
