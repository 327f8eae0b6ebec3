------------------------------ MODULE Gesture ------------------------------
(***************************************************************************)
(* The gesture detector of the appliance (crates/mirror-core/button.rs):   *)
(* what one poll of the button makes of the time it has been held and of   *)
(* the clicks that follow a long hold.                                     *)
(*                                                                         *)
(* A detector is a record: held is the time since pressed_since, or None;  *)
(* window is the click window after an armed reset, or None.  Times are in *)
(* ticks and stop counting where no threshold tells them apart.            *)
(***************************************************************************)
EXTENDS Integers

CONSTANTS HoldArm,      \* HOLD_ARM_MS
          HoldPair,     \* HOLD_PAIR_MS
          HoldReset,    \* HOLD_RESET_MS
          ClickWindow,  \* RESET_CLICK_WINDOW_MS
          ClickCount,   \* RESET_CLICK_COUNT
          None

ASSUME HoldAssumption == /\ {HoldArm, HoldPair, HoldReset, ClickWindow, ClickCount} \subseteq Nat
                         /\ 0 < HoldArm /\ HoldArm < HoldPair /\ HoldPair < HoldReset
                         /\ ClickWindow > 0 /\ ClickCount > 0

Capped(n, most) == IF n < most THEN n + 1 ELSE most

Window   == [age : 0..(ClickWindow + 1), clicks : 0..ClickCount, down : BOOLEAN]
Detector == [held : 0..HoldReset \cup {None}, long : BOOLEAN, reset : BOOLEAN,
             window : Window \cup {None}]

NewDetector == [held |-> None, long |-> FALSE, reset |-> FALSE, window |-> None]
OpenWindow  == [age |-> 0, clicks |-> 0, down |-> FALSE]

(* Time passes.                                                            *)
OlderHeld(h)   == IF h = None THEN None ELSE Capped(h, HoldReset)
OlderWindow(w) == IF w = None THEN None ELSE [w EXCEPT !.age = Capped(@, ClickWindow + 1)]
Older(d)       == [d EXCEPT !.held = OlderHeld(@), !.window = OlderWindow(@)]

Poll(d, gesture) == [detector |-> d, gesture |-> gesture]

(* The clicks after an armed reset.                                        *)
PollWindow(d, pressed) ==
    LET w    == d.window
        edge == pressed /\ ~w.down
        next == [w EXCEPT !.down = pressed, !.clicks = IF edge THEN @ + 1 ELSE @]
    IN  CASE w.age > ClickWindow ->
                 Poll([d EXCEPT !.window = None], "ResetAborted")
          [] w.age <= ClickWindow /\ edge /\ next.clicks >= ClickCount ->
                 Poll([d EXCEPT !.window = None], "FullReset")
          [] w.age <= ClickWindow /\ edge /\ next.clicks < ClickCount ->
                 Poll([d EXCEPT !.window = next], "ResetClick")
          [] OTHER -> Poll([d EXCEPT !.window = next], None)

(* Mutant: the armed reset is reported on every poll.                      *)
BugResetRepeats(d) ==
    IF d.held >= HoldReset THEN Poll([d EXCEPT !.reset = TRUE], "ResetArmed") ELSE Poll(d, None)

(* A button that is still down.                                            *)
PollHeld(d) ==
    CASE d.held >= HoldReset /\ ~d.reset -> Poll([d EXCEPT !.reset = TRUE], "ResetArmed")
      [] d.held >= HoldPair /\ ~d.long /\ (d.held < HoldReset \/ d.reset) ->
             Poll([d EXCEPT !.long = TRUE], "LongPress")
      [] d.held >= HoldArm /\ d.held < HoldPair /\ ~d.long -> Poll(d, "HoldProgress")
      [] OTHER -> Poll(d, None)

(* Mutant: the release after an armed reset opens no click window.         *)
BugNoWindow(d) == Poll([d EXCEPT !.held = None],
                       IF d.held < HoldPair THEN "Short" ELSE None)

(* A button that has been let go.                                          *)
PollReleased(d) ==
    LET up == [d EXCEPT !.held = None]
    IN  CASE d.reset -> Poll([up EXCEPT !.window = OpenWindow], None)
          [] ~d.reset /\ d.held < HoldPair -> Poll(up, "Short")
          [] OTHER -> Poll(up, None)

(* GestureDetector::poll                                                   *)
PollButton(d, pressed) ==
    CASE d.window # None -> PollWindow(d, pressed)
      [] d.window = None /\ d.held = None /\ pressed ->
             Poll([d EXCEPT !.held = 0, !.long = FALSE, !.reset = FALSE], None)
      [] d.window = None /\ d.held # None /\ pressed -> PollHeld(d)
      [] d.window = None /\ d.held # None /\ ~pressed -> PollReleased(d)
      [] OTHER -> Poll(d, None)

(* The detector stands between arming a reset and completing or aborting it. *)
Armed(d) == d.window # None \/ (d.held # None /\ d.reset)
=============================================================================
