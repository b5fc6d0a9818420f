---------------------------- MODULE MCBulkUplink ----------------------------
(* Instances of BulkUplink for TLC: the .cfg files Uplink*.cfg. *)
EXTENDS BulkUplink

=============================================================================
