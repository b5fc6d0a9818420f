--------------------------- MODULE MCAudioDownlink ---------------------------
(* Instances of AudioDownlink for TLC: the .cfg files Audio*.cfg. *)
EXTENDS AudioDownlink

=============================================================================
