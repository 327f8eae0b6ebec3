-------------------------- MODULE MCHouseholdService --------------------------
(* Values of HouseholdService's constants for TLC.                         *)
EXTENDS HouseholdService, TLC

CONSTANTS u1, u2, p1, p2

MCSelf == u1 :> p1 @@ u2 :> p2
=============================================================================
