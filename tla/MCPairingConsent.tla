--------------------------- MODULE MCPairingConsent ---------------------------
(***************************************************************************)
(* Pairing with a memory: which payload was in force when the button was   *)
(* last pressed to confirm.                                                *)
(***************************************************************************)
EXTENDS Pairing, TLC

VARIABLE consent

ConsentInit == Init /\ consent = None

ConsentNext ==
  /\ Next
  /\ consent' = IF press.at["button"] # "confirm" /\ press'.at["button"] = "confirm"
                THEN m.payload ELSE consent

ConsentSpec == ConsentInit /\ [][ConsentNext]_<<vars, consent>>

(* "The confirming press therefore gates the claim" (mirror_pair.h), "No   *)
(* press, no claim" (device-pairing-plan.md): the token that redeem_claim  *)
(* presents is the one that was in force when the button was last pressed  *)
(* to confirm.                                                             *)
NoPressNoClaim == [][\A t \in server'.used \ server.used : consent = t]_<<vars, consent>>
=============================================================================
