---------------------------- MODULE MirrorPress ----------------------------
(***************************************************************************)
(* The press flow of the ESP-IDF firmware (mirror_press.c), run by the     *)
(* button task and by POST /press (mirror_http.c): a short press confirms  *)
(* a pairing or takes a photograph, and the task that takes one is busy    *)
(* until it is on flash.  The ring is output only and is left out.         *)
(***************************************************************************)
EXTENDS MirrorPair

VARIABLE press   \* s_busy, and where each task is in mirror_press_run

Runners == {"button", "http"}
PressState == [busy: BOOLEAN, at: [Runners -> {"rest", "confirm", "go", "shoot", "spool"}]]
NoPress == [busy |-> FALSE, at |-> [r \in Runners |-> "rest"]]

Goes(r, pc, busy) == press' = [busy |-> busy, at |-> [press.at EXCEPT ![r] = pc]]

(* on_short_press: pairing gets the press first, and swallows it while it  *)
(* runs; the press is put down after the state was read.                   *)
ConfirmPress ==
  /\ press.at["button"] = "rest"
  /\ m.state = "awaiting"
  /\ Goes("button", "confirm", press.busy)
  /\ UNCHANGED mirrorVars

Confirmed ==
  /\ press.at["button"] = "confirm"
  /\ m' = [m EXCEPT !.confirmed = TRUE]
  /\ Goes("button", "rest", press.busy)
  /\ UNCHANGED <<task, nvs, radio>>

(* s_busy is only tested here and set by the run. *)
CapturePress ==
  /\ press.at["button"] = "rest" /\ ~press.busy
  /\ ~Busy
  /\ Goes("button", "go", press.busy)
  /\ UNCHANGED mirrorVars

HttpPress ==
  /\ press.at["http"] = "rest" /\ ~press.busy
  /\ Goes("http", "go", press.busy)
  /\ UNCHANGED mirrorVars

Countdown(r) == press.at[r] = "go" /\ Goes(r, "shoot", TRUE) /\ UNCHANGED mirrorVars

(* No frame, or no memory to keep it: the run ends there. *)
Shutter(r) ==
  /\ press.at[r] = "shoot"
  /\ \/ Goes(r, "spool", press.busy)
     \/ Goes(r, "rest", FALSE)
  /\ UNCHANGED mirrorVars

ToFlash(r) == press.at[r] = "spool" /\ Goes(r, "rest", FALSE) /\ UNCHANGED mirrorVars

(* The gestures of a free button task; a restart ends every task. *)
HoldFive == press.at["button"] = "rest" /\ LongPress
            /\ press' = IF m.released THEN NoPress ELSE press
HoldTwenty == press.at["button"] = "rest" /\ FactoryReset /\ UNCHANGED press
=============================================================================
