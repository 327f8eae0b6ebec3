---------------------------- MODULE MCAppliance ----------------------------
(* Instances of Appliance for TLC. *)
EXTENDS Appliance, TLC

CONSTANTS c1, c2

MCCreds        == {c1, c2}
OneHousehold   == [c \in Creds |-> "home"]
TwoHouseholds  == c1 :> "home" @@ c2 :> "away"
MCSymmetry     == Permutations(MCCreds)
=============================================================================
