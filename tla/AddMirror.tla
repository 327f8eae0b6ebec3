----------------------------- MODULE AddMirror -----------------------------
(***************************************************************************)
(* "Add a mirror" in the app: pairingReducer (machine.ts) and the effect   *)
(* of screens/AddMirror.tsx that runs one operation for every step that is *)
(* busy.  link is the encrypted BLE session: only connect() opens one, and *)
(* every other call to the mirror needs it.  Leaving the screen is taken   *)
(* to stop the operation; the code lets one that is under way run out.     *)
(***************************************************************************)
EXTENDS Naturals

CONSTANTS Attempts   \* how often the send step may be entered

ASSUME AttemptsAssumption == Attempts \in Nat

VARIABLE phone

Steps == {"discover", "wifi", "sending", "confirm", "success"}
Stages == {"token", "payload", "reply", "credentials"}
Phone == [step: Steps, stage: Stages, busy: BOOLEAN, found: BOOLEAN, typed: BOOLEAN,
          retry: {"", "discover", "wifi", "sending"}, attempt: 0 .. Attempts, link: BOOLEAN]

Begin == [step |-> "discover", stage |-> "token", busy |-> TRUE, found |-> FALSE,
          typed |-> FALSE, retry |-> "", attempt |-> 0, link |-> FALSE]

Running(step) == phone.busy /\ phone.step = step
Sending(stage) == Running("sending") /\ phone.stage = stage

Unlinked == [phone EXCEPT !.link = FALSE]

(* An operation threw: the step to retry is shown with the reason. *)
FailAt(step) == phone' = [phone EXCEPT !.step = step, !.busy = FALSE, !.retry = step]
Failed == FailAt(IF phone.step = "confirm" THEN "sending" ELSE phone.step)

Send(p) == [p EXCEPT !.step = "sending", !.stage = "token", !.busy = TRUE, !.retry = "",
                     !.attempt = @ + 1]

(* Discover: a scan that finds nothing throws. *)
Found == /\ Running("discover")
         /\ phone' = [phone EXCEPT !.busy = FALSE, !.found = TRUE, !.retry = ""]

ScanAgain ==
  /\ phone.step = "discover" /\ ~phone.busy
  /\ phone' = [phone EXCEPT !.busy = TRUE, !.found = FALSE, !.retry = ""]

Select ==
  /\ phone.step = "discover" /\ ~phone.busy /\ phone.found
  /\ phone' = [phone EXCEPT !.step = "wifi", !.busy = TRUE, !.retry = ""]

Connected ==
  /\ Running("wifi")
  /\ phone' = [phone EXCEPT !.busy = FALSE, !.link = TRUE]

(* The network name and password typed at the Wi-Fi step: right or wrong. *)
SubmitWifi(right) ==
  /\ phone.step = "wifi" /\ ~phone.busy
  /\ phone.attempt < Attempts
  /\ phone' = [Send(phone) EXCEPT !.typed = right]

(* provisionDevice: a fresh claim token, the payload and the mirror's      *)
(* reply to it, the credentials.                                           *)
Minted == Sending("token") /\ phone' = [phone EXCEPT !.stage = "payload"]

PayloadSent == Sending("payload") /\ phone' = [phone EXCEPT !.stage = "reply"]

Replied == Sending("reply") /\ phone' = [phone EXCEPT !.stage = "credentials"]

Awaiting ==
  /\ Sending("credentials")
  /\ phone' = [phone EXCEPT !.step = "confirm", !.retry = ""]

(* awaitConfirmation: the first reply that is not awaiting_confirm; a poll *)
(* that is lost is tried again until the budget is spent.                  *)
Result(status) ==
  /\ Running("confirm")
  /\ \/ /\ status = "claimed"
        /\ phone' = [phone EXCEPT !.step = "success", !.busy = FALSE, !.retry = ""]
     \/ /\ status = "failed"
        /\ phone' = [phone EXCEPT !.busy = FALSE, !.retry = "sending"]

Timeout == /\ Running("confirm")
           /\ phone' = [phone EXCEPT !.busy = FALSE, !.retry = "sending"]

TryAgain ==
  /\ phone.retry # ""
  /\ \/ phone.retry = "sending" /\ phone.attempt < Attempts /\ phone' = Send(phone)
     \/ phone.retry = "wifi" /\ phone' = [phone EXCEPT !.busy = FALSE, !.retry = ""]
     \/ phone.retry = "discover"
        /\ phone' = [phone EXCEPT !.busy = TRUE, !.found = FALSE, !.retry = ""]

StartOver == phone' = [Begin EXCEPT !.attempt = phone.attempt]
=============================================================================
