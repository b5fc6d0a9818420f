---------------------------- MODULE MCWifiStation ----------------------------
(* Instances of WifiStation for TLC: the .cfg files Wifi*.cfg. *)
EXTENDS WifiStation

==============================================================================
