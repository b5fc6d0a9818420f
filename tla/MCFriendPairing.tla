--------------------------- MODULE MCFriendPairing ---------------------------
(* Instances of FriendPairing for TLC: the .cfg files Friend*.cfg. *)
EXTENDS FriendPairing

MCDraws ==
  [d \in Devices |-> IF d = "a" THEN {"a1", "a2", "a3", "a4", "a5"} ELSE {"b1", "b2", "b3", "b4", "b5"}]

==============================================================================
