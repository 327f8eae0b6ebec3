------------------------------ MODULE Pairing ------------------------------
(***************************************************************************)
(* A phone, a mirror and the server: the phone mints a claim token, hands  *)
(* it over Bluetooth, a press on the mirror confirms it, the mirror joins  *)
(* the network, redeems the token and keeps the device token it is given.  *)
(* Radio links drop, answers are lost, writes fail, power goes, and people *)
(* hold the button or use the settings page at any moment.  The app puts   *)
(* no time limit on its calls, so nothing is assumed of the phone's pace.  *)
(***************************************************************************)
EXTENDS MirrorPress, AddMirror

CONSTANT MaxEvents   \* how many of these disturbances a behaviour has

ASSUME TokensAreAttempts == Tokens = 1 .. Attempts
ASSUME EventsAssumption == MaxEvents \in Nat

VARIABLES
  server,    \* the device token in force, the claim tokens that are used up
  events,    \* disturbances so far
  cleared    \* history: a person took the server's address away, none came since

vars == <<m, task, nvs, radio, press, phone, server, events, cleared>>

TypeOK ==
  /\ m \in Mirror
  /\ task \in [pc: TaskSteps, token: Tokens \cup {None}]
  /\ nvs \in Settings
  /\ radio \in [driver: {None, Good, Bad}, want: BOOLEAN, up: BOOLEAN]
  /\ press \in PressState
  /\ phone \in Phone
  /\ server \in [current: Tokens \cup {None, Old}, used: SUBSET Tokens]
  /\ events \in 0 .. MaxEvents
  /\ cleared \in BOOLEAN
  /\ radio.up => radio.driver = Good
  /\ m.released => m.service = "down"
  /\ task.token # None <=> task.pc \in {"url", "token", "adopt"}

(* A mirror out of its box, waiting for the app; or one a claim is kept on. *)
Init ==
  /\ \/ /\ nvs = Erased
        /\ m = [Discoverable(PoweredOff) EXCEPT !.service = "up"]
        /\ task = [NoTask EXCEPT !.pc = "tick"]
        /\ radio = [driver |-> None, want |-> FALSE, up |-> FALSE]
     \/ /\ nvs = [token |-> Old, url |-> TRUE, ssid |-> Good, boot |-> FALSE]
        /\ m = PoweredOff /\ task = NoTask
        /\ radio = [driver |-> Good, want |-> TRUE, up |-> TRUE]
  /\ press = NoPress
  /\ phone = Begin
  /\ server = [current |-> nvs.token, used |-> {}]
  /\ events = 0 /\ cleared = FALSE

Undisturbed == UNCHANGED <<server, events, cleared>>

-----------------------------------------------------------------------------
(* The pairing task, and the server it calls. *)

Grant == server' = [current |-> m.payload, used |-> server.used \cup {m.payload}]

RedeemClaim ==
  \/ /\ m.payload \notin server.used \cup {None}
     /\ Grant
     /\ \/ Redeem(TRUE)
        \/ Redeem(FALSE)                   \* granted, and the answer is lost
  \/ Redeem(FALSE) /\ UNCHANGED server     \* expired, refused or unreachable

TaskAlone == WindowCloses \/ ServiceStopped \/ Leave \/ ConfirmTimeout \/ Unconfirmed
             \/ Rediscoverable \/ BeginClaim \/ EnterClaiming \/ Joined \/ NotJoined
             \/ BackToPairing \/ StoreUrl \/ StoreToken \/ AdoptNetwork \/ AdoptFails
             \/ Finish

TaskStep ==
  /\ \/ TaskAlone /\ UNCHANGED server
     \/ RedeemClaim
  /\ cleared' = (cleared /\ ~nvs'.url)
  /\ UNCHANGED <<press, phone, events>>

EndpointStep == /\ PressVoided \/ WindowOpens \/ PayloadAnswered
                /\ UNCHANGED <<press, phone>> /\ Undisturbed

StationStep == GotAddress /\ UNCHANGED <<press, phone>> /\ Undisturbed

(* The manager takes the service, and the phone's session with it, down. *)
Shutdown == ServiceDown /\ phone' = Unlinked /\ UNCHANGED press /\ Undisturbed

Restarted == phone' = Unlinked /\ press' = NoPress
Restart == Reboot /\ Restarted /\ Undisturbed

-----------------------------------------------------------------------------
(* The phone.  What it calls on the mirror needs the session, and the one  *)
(* task that serves it to be done with the call before.                    *)

Reaches == phone.link /\ m.service # "down" /\ m.endpoint = "rest"
MirrorAlone == UNCHANGED mirrorVars

SendPayload == PayloadSent /\ Reaches /\ PayloadCopied(phone.attempt)

SendCredentials ==
  /\ Sending("credentials") /\ Reaches
  /\ \/ phone.typed /\ ReceiveCredentials(Good, TRUE) /\ Awaiting
     \/ ReceiveCredentials(IF phone.typed THEN Good ELSE Bad, FALSE) /\ Failed

(* Whatever else is under way throws: no camera, no session, no server, a  *)
(* session that has expired, a reply that is lost, or the confirmation     *)
(* budget is spent.                                                        *)
PhoneGivesUp ==
  /\ phone.busy
  /\ Failed \/ Timeout
  /\ MirrorAlone

PhoneStep ==
  /\ \/ Found /\ m.service = "up" /\ MirrorAlone
     \/ Connected /\ m.service = "up" /\ MirrorAlone
     \/ Minted /\ MirrorAlone
     \/ SendPayload
     \/ Reaches /\ Replied /\ MirrorAlone
     \/ SendCredentials
     \/ Reaches /\ Result(m.result) /\ MirrorAlone
     \/ PhoneGivesUp
  /\ UNCHANGED press /\ Undisturbed

-----------------------------------------------------------------------------
(* People. *)

Taps ==
  /\ \/ ScanAgain \/ Select \/ TryAgain
     \/ \E right \in BOOLEAN : SubmitWifi(right)
  /\ MirrorAlone /\ UNCHANGED press /\ Undisturbed

Confirms ==
  /\ ConfirmPress
  /\ UNCHANGED phone /\ Undisturbed

PressStep(r) ==
  /\ (r = "button" /\ Confirmed) \/ Countdown(r) \/ Shutter(r) \/ ToFlash(r)
  /\ UNCHANGED phone /\ Undisturbed

(* Faults that wear themselves out: every attempt meets at most a few. *)
Fault ==
  /\ \/ (Disconnected \/ StoreFails) /\ UNCHANGED phone
     \/ phone.link /\ phone' = Unlinked /\ MirrorAlone
  /\ UNCHANGED press /\ Undisturbed

(* Disturbances. *)

Erases == (ForgetEverything /\ UNCHANGED press) \/ HoldTwenty

Saves == /\ UNCHANGED press
         /\ \E ssid \in {Good, Bad, nvs.ssid}, url \in BOOLEAN : SaveSettings(ssid, url)

Event ==
  \/ /\ PowerLoss \/ (HoldFive /\ m.released)
     /\ Restarted /\ UNCHANGED cleared
  \/ /\ Erases \/ Saves
     /\ cleared' = ((nvs.url \/ cleared) /\ ~nvs'.url)
     /\ UNCHANGED phone
  \/ /\ (HoldFive /\ ~m.released) \/ CapturePress \/ HttpPress
     /\ UNCHANGED <<phone, cleared>>
  \/ StartOver /\ MirrorAlone /\ UNCHANGED <<press, cleared>>

Events == /\ events < MaxEvents
          /\ events' = events + 1
          /\ Event
          /\ UNCHANGED server

Next == TaskStep \/ EndpointStep \/ StationStep \/ Shutdown \/ Restart \/ PhoneStep \/ Taps
        \/ Confirms \/ (\E r \in Runners : PressStep(r)) \/ Fault \/ Events

(* Only the pairing task is assumed to run; its waits are bounded by timers. *)
Fairness == WF_vars(TaskStep)

Spec == Init /\ [][Next]_vars
FairSpec == Spec /\ Fairness

-----------------------------------------------------------------------------
(* "Persist before reporting success": when the app tells its user the     *)
(* mirror is paired, the mirror has the token the server accepts in flash  *)
(* (or someone has asked it to forget everything, and it is restarting).   *)
SuccessIsStored ==
  [][phone'.step = "success" /\ phone.step # "success"
       => m.reboot \/ (Claimed /\ nvs.token = server.current)]_vars

(* "The token is written last": whatever write fails and whenever power    *)
(* goes, a mirror that counts as claimed knows where its server is, unless *)
(* a person erased the settings or left the address blank, and nobody gave *)
(* one since.                                                              *)
TokenLast == Claimed => nvs.url \/ cleared

(* Whatever arrives over Bluetooth, whoever stops answering and whatever   *)
(* fails: every wait of the pairing task ends, no failure leaves it where  *)
(* nothing leads on, and there is always a time again when it is gone.     *)
(* Each payload and each long press prolongs it: their number is bounded.  *)
PairingEnds == []<>(task.pc = "none")
=============================================================================
