------------------------------ MODULE Machine ------------------------------
(***************************************************************************)
(* The state machine of the appliance (crates/mirror-core/state.rs): what  *)
(* each event makes of each state, and the commands it answers with.  Ring *)
(* patterns and the start of the camera's focus are left out.              *)
(***************************************************************************)
EXTENDS Integers, Sequences

CONSTANTS PairingTimeout, \* PAIRING_TIMEOUT_MS, in ticks
          ConfirmTimeout, \* CONFIRM_TIMEOUT_MS
          CountdownTime,  \* COUNTDOWN_MS
          Creds           \* the payloads phones send

ASSUME TimerAssumption == {PairingTimeout, ConfirmTimeout, CountdownTime} \subseteq Nat \ {0}

Unprovisioned      == [kind |-> "Unprovisioned"]
Pairing            == [kind |-> "Pairing", age |-> 0]
AwaitingConfirm(c) == [kind |-> "AwaitingConfirm", age |-> 0, creds |-> c]
Joining(c)         == [kind |-> "Joining", creds |-> c]
Claiming(c)        == [kind |-> "Claiming", creds |-> c]
Ready              == [kind |-> "Ready"]
Countdown(off)     == [kind |-> "Countdown", age |-> 0, offline |-> off]
Capturing(off)     == [kind |-> "Capturing", offline |-> off]
Uploading          == [kind |-> "Uploading"]
ResetArmed(s)      == [kind |-> "ResetArmed", previous |-> s]

(* States between whose events the main loop polls, and the others.        *)
Resting == {Unprovisioned, Ready}
    \cup [kind : {"Pairing"}, age : 0..PairingTimeout]
    \cup [kind : {"AwaitingConfirm"}, age : 0..ConfirmTimeout, creds : Creds]
    \cup [kind : {"Countdown"}, age : 0..CountdownTime, offline : BOOLEAN]
Working == {Uploading}
    \cup [kind : {"Joining", "Claiming"}, creds : Creds]
    \cup [kind : {"Capturing"}, offline : BOOLEAN]
States == Resting \cup Working \cup {ResetArmed(s) : s \in Resting}

Event(kind)    == [kind |-> kind]
Credentials(c) == [kind |-> "Credentials", creds |-> c]

Gestures == {"Short", "HoldProgress", "LongPress", "ResetArmed", "ResetClick", "FullReset",
             "ResetAborted"}
Answers  == {"WifiUp", "WifiFailed", "ClaimAccepted", "ClaimRejected", "CaptureCommitted",
             "CaptureFailed", "UploadSucceeded", "UploadFailed"}
Events   == [kind : Gestures \cup Answers \cup {"BootProvisioned", "BootNew", "Tick"}]
            \cup [kind : {"Credentials"}, creds : Creds]

LimitOf(kind) == CASE kind = "Pairing" -> PairingTimeout
                   [] kind = "AwaitingConfirm" -> ConfirmTimeout
                   [] kind = "Countdown" -> CountdownTime

Timed(s) == s.kind \in {"Pairing", "AwaitingConfirm", "Countdown"}

Due(s) == Timed(s) /\ s.age >= LimitOf(s.kind)

(* Time passes, under an armed reset as well.                              *)
Aged(s) == IF Timed(s) THEN [s EXCEPT !.age = IF @ < LimitOf(s.kind) THEN @ + 1 ELSE @]
           ELSE s
OlderState(s) == IF s.kind = "ResetArmed" THEN ResetArmed(Aged(s.previous)) ELSE Aged(s)

-----------------------------------------------------------------------------
Go(s, commands) == [state |-> s, commands |-> commands]
Stay(s)         == Go(s, << >>)

EnterPairing == Go(Pairing, <<[op |-> "StartProvisioning"]>>)

FailPairing == Go(Pairing, <<[op |-> "ReportFailed"]>>)
Drain        == [op |-> "DrainQueue"]

(* The gestures that apply from any state.                                 *)
Anywhere == Gestures \ {"Short"}

HandleAnywhere(s, e) ==
    CASE e.kind = "ResetArmed" -> Stay(ResetArmed(s))
      [] e.kind = "FullReset" -> Go(Unprovisioned, <<[op |-> "EraseAll"], [op |-> "Reboot"]>>)
      [] e.kind = "ResetAborted" -> Stay(IF s.kind = "ResetArmed" THEN s.previous ELSE Unprovisioned)
      [] e.kind = "LongPress" /\ s.kind # "ResetArmed" -> EnterPairing
      [] OTHER -> Stay(s)

HandleTick(s) ==
    CASE ~Due(s) -> Stay(s)
      [] Due(s) /\ s.kind = "Pairing" -> Go(Unprovisioned, <<[op |-> "StopProvisioning"]>>)
      [] Due(s) /\ s.kind = "AwaitingConfirm" -> FailPairing
      [] Due(s) /\ s.kind = "Countdown" -> Go(Capturing(s.offline), <<[op |-> "Capture"]>>)

HandleShort(s) ==
    CASE s.kind = "Unprovisioned" -> Stay(Countdown(TRUE))
      [] s.kind = "Ready" -> Stay(Countdown(FALSE))
      [] s.kind = "AwaitingConfirm" ->
             Go(Joining(s.creds), <<[op |-> "JoinWifi", creds |-> s.creds]>>)
      [] OTHER -> Stay(s)

(* The answers to a command, each awaited in one state.                    *)
HandleAnswer(s, e) ==
    CASE s.kind = "Joining" /\ e.kind = "WifiUp" ->
             Go(Claiming(s.creds), <<[op |-> "RedeemClaim", creds |-> s.creds]>>)
      [] s.kind = "Joining" /\ e.kind = "WifiFailed" -> FailPairing
      [] s.kind = "Claiming" /\ e.kind = "ClaimAccepted" ->
             Go(Ready, <<[op |-> "PersistProvisioned"], [op |-> "ReportClaimed"],
                         [op |-> "StopProvisioning"], Drain>>)
      [] s.kind = "Claiming" /\ e.kind = "ClaimRejected" -> FailPairing
      [] s.kind = "Capturing" /\ e.kind = "CaptureCommitted" ->
             IF s.offline THEN Stay(Unprovisioned) ELSE Go(Uploading, <<Drain>>)
      [] s.kind = "Capturing" /\ e.kind = "CaptureFailed" ->
             Stay(IF s.offline THEN Unprovisioned ELSE Ready)
      [] s.kind = "Uploading" /\ e.kind \in {"UploadSucceeded", "UploadFailed"} -> Stay(Ready)
      [] OTHER -> Stay(s)

(* Machine::handle                                                         *)
Handle(s, e) ==
    CASE e.kind \in Anywhere -> HandleAnywhere(s, e)
      [] e.kind = "Credentials" ->
             IF s.kind = "Pairing"
             THEN Go(AwaitingConfirm(e.creds), <<[op |-> "ReportAwaitingConfirm"]>>)
             ELSE Stay(s)
      [] e.kind = "Short" -> HandleShort(s)
      [] e.kind = "Tick" -> HandleTick(s)
      [] e.kind = "BootNew" /\ s = Unprovisioned -> EnterPairing
      [] e.kind = "BootProvisioned" /\ s = Unprovisioned -> Go(Ready, <<Drain>>)
      [] OTHER -> HandleAnswer(s, e)
=============================================================================
