---------------------------- MODULE PairingProofs ----------------------------
(***************************************************************************)
(* Theorems about Pairing, for any number of attempts and disturbances.    *)
(***************************************************************************)
EXTENDS Pairing, TLAPS

USE DEF mirrorVars, PairStates, TaskSteps, EndpointSteps

-----------------------------------------------------------------------------
(* The mirror's own state.                                                 *)

Task == [pc: TaskSteps, token: Tokens \cup {None}]
Radio == [driver: {None, Good, Bad}, want: BOOLEAN, up: BOOLEAN]
Server == [current: Tokens \cup {None, Old}, used: SUBSET Tokens]
Carries(t) == t.token # None <=> t.pc \in {"url", "token", "adopt"}

MirrorOK ==
    /\ m \in Mirror /\ task \in Task /\ nvs \in Settings /\ radio \in Radio
    /\ radio.up => radio.driver = Good
    /\ m.released => m.service = "down"
    /\ Carries(task)

NewTask == [NoTask EXCEPT !.pc = "tick"]

LEMMA Constants ==
    /\ PoweredOff \in Mirror /\ NoTask \in Task /\ Erased \in Settings
    /\ [NoTask EXCEPT !.pc = "tick"] \in Task /\ [NoTask EXCEPT !.pc = "failing"] \in Task
    /\ [NoTask EXCEPT !.pc = "finish"] \in Task
    /\ Carries(NoTask) /\ Carries([NoTask EXCEPT !.pc = "tick"])
    /\ Carries([NoTask EXCEPT !.pc = "failing"]) /\ Carries([NoTask EXCEPT !.pc = "finish"])
  <1>1. PoweredOff \in Mirror
    BY Zenon DEF PoweredOff, Mirror
  <1>2. NoTask \in Task /\ [NoTask EXCEPT !.pc = "tick"] \in Task
        /\ [NoTask EXCEPT !.pc = "failing"] \in Task /\ [NoTask EXCEPT !.pc = "finish"] \in Task
    BY Zenon DEF NoTask, Task
  <1>3. Erased \in Settings
    BY Zenon DEF Erased, Settings
  <1>4. QED
    BY <1>1, <1>2, <1>3 DEF NoTask, Carries

(* Discoverable, from any globals.                                         *)
LEMMA DiscoverableFields ==
    ASSUME NEW d \in Mirror
    PROVE  /\ Discoverable(d) \in Mirror
           /\ Discoverable(d).state = "pairing" /\ Discoverable(d).confirmed = FALSE
           /\ Discoverable(d).payload = None /\ Discoverable(d).result = "awaiting_confirm"
           /\ Discoverable(d).reboot = d.reboot /\ Discoverable(d).released = d.released
           /\ Discoverable(d).service = d.service /\ Discoverable(d).endpoint = d.endpoint
  <1>1. Discoverable(d) \in Mirror
    BY Zenon DEF Discoverable, Mirror
  <1>2. QED
    BY <1>1, SMT DEF Discoverable, Mirror

(* Whatever becomes of the service and the task, pairing starts afresh.    *)
Afresh(d, t) ==
    /\ m' \in Mirror /\ m'.state \in {"pairing", "idle"} /\ m'.confirmed = FALSE
    /\ m'.payload = None /\ m'.result = "awaiting_confirm" /\ m'.reboot = d.reboot
    /\ m'.released = d.released
    /\ task' = t \/ (t.pc = "none" /\ task' \in {NoTask, NewTask})

LEMMA StartPairingEffect ==
    ASSUME NEW d \in Mirror, NEW t \in Task, StartPairing(d, t)
    PROVE  Afresh(d, t)
  <1> DEFINE e == Discoverable(d)
  <1>1. PICK s \in StartService(e) :
            IF s.service # "down"
            THEN /\ m' = s
                 /\ task' \in IF t.pc # "none" THEN {t}
                              ELSE {NoTask, [NoTask EXCEPT !.pc = "tick"]}
            ELSE m' = [s EXCEPT !.state = "idle"] /\ task' = t
    BY DEF StartPairing
  <1>2. s = [e EXCEPT !.service = "up"] \/ s = e
    BY <1>1, Zenon DEF StartService
  <1>3. e \in Mirror
    BY DiscoverableFields
  <1>4. s \in Mirror
    BY <1>2, <1>3, Zenon DEF Mirror
  <1>5. [s EXCEPT !.state = "idle"] \in Mirror
    BY <1>4, Zenon DEF Mirror
  <1>6. /\ s.state = "pairing" /\ s.confirmed = FALSE /\ s.payload = None
        /\ s.result = "awaiting_confirm" /\ s.reboot = d.reboot /\ s.released = d.released
    <2>1. CASE s = e
      BY <2>1, DiscoverableFields
    <2>2. CASE s = [e EXCEPT !.service = "up"]
      <3> HIDE DEF e
      <3>1. /\ s.state = e.state /\ s.confirmed = e.confirmed /\ s.payload = e.payload
            /\ s.result = e.result /\ s.reboot = e.reboot /\ s.released = e.released
        BY <1>3, <2>2, SMT DEF Mirror
      <3>2. QED
        BY <3>1, DiscoverableFields DEF e
    <2>3. QED
      BY <1>2, <2>1, <2>2
  <1>7. /\ m' \in Mirror /\ m'.state \in {"pairing", "idle"} /\ m'.confirmed = FALSE
        /\ m'.payload = None /\ m'.result = "awaiting_confirm" /\ m'.reboot = d.reboot
        /\ m'.released = d.released
    <2>1. CASE m' = s
      BY <2>1, <1>4, <1>6
    <2>2. CASE m' = [s EXCEPT !.state = "idle"]
      BY <2>2, <1>4, <1>5, <1>6, SMT DEF Mirror
    <2>3. QED
      BY <1>1, <2>1, <2>2
  <1>8. task' = t \/ (t.pc = "none" /\ task' \in {NoTask, NewTask})
    BY <1>1 DEF NewTask
  <1>9. QED
    BY <1>7, <1>8 DEF Afresh

(* A start of the mirror: nothing is confirmed, nothing is claimed, and    *)
(* only the wish to pair is forgotten.                                     *)
Started(n) ==
    /\ m' \in Mirror /\ m'.state \in {"pairing", "idle"} /\ m'.confirmed = FALSE
    /\ m'.payload = None /\ m'.result = "awaiting_confirm" /\ ~m'.reboot /\ ~m'.released
    /\ task' \in {NoTask, NewTask}
    /\ nvs' \in Settings /\ nvs'.token = n.token /\ nvs'.url = n.url
    /\ radio' \in Radio /\ ~radio'.up

LEMMA BootEffect ==
    ASSUME radio \in Radio, NEW n \in Settings, Boot(n)
    PROVE  Started(n)
  <1>1. nvs' \in Settings /\ nvs'.token = n.token /\ nvs'.url = n.url
    <2>1. nvs' = [n EXCEPT !.boot = FALSE]
      BY DEF Boot
    <2>2. nvs' \in Settings
      BY <2>1, Zenon DEF Settings
    <2>3. QED
      BY <2>1, <2>2, SMT DEF Settings
  <1>2. radio' \in Radio /\ ~radio'.up
    BY DEF Boot, StartStation, Settings, Radio
  <1>3. CASE m' = PoweredOff /\ task' = NoTask
    <2>1. m' \in Mirror
      BY <1>3, Constants
    <2>2. QED
      BY <1>1, <1>2, <1>3, <2>1 DEF Started, PoweredOff
  <1>4. CASE StartPairing(PoweredOff, NoTask)
    <2>1. Afresh(PoweredOff, NoTask)
      BY <1>4, Constants, StartPairingEffect
    <2>2. ~PoweredOff.reboot /\ ~PoweredOff.released
      BY DEF PoweredOff
    <2>3. QED
      BY <1>1, <1>2, <2>1, <2>2 DEF Afresh, Started
  <1>5. QED
    BY <1>3, <1>4 DEF Boot

LEMMA StartedOK == ASSUME NEW n, Started(n) PROVE MirrorOK'
  BY Constants DEF Started, MirrorOK, NewTask

(* A hold of five seconds: a start, or pairing afresh.                     *)
LEMMA LongPressEffect ==
    ASSUME MirrorOK, LongPress
    PROVE  \/ m.released /\ Started(nvs)
           \/ ~m.released /\ Afresh(m, task) /\ UNCHANGED <<nvs, radio>>
  <1>1. CASE m.released
    <2>1. [nvs EXCEPT !.boot = TRUE] \in Settings
      BY Zenon DEF MirrorOK, Settings
    <2>2. /\ [nvs EXCEPT !.boot = TRUE].token = nvs.token
          /\ [nvs EXCEPT !.boot = TRUE].url = nvs.url
      BY SMT DEF MirrorOK, Settings
    <2>3. Started([nvs EXCEPT !.boot = TRUE])
      BY <1>1, <2>1, BootEffect DEF LongPress, MirrorOK
    <2>4. QED
      BY <1>1, <2>2, <2>3 DEF Started
  <1>2. CASE ~m.released
    BY <1>2, StartPairingEffect DEF LongPress, MirrorOK
  <1>3. QED
    BY <1>1, <1>2

LEMMA AfreshOK ==
    ASSUME MirrorOK, ~m.released, Afresh(m, task), UNCHANGED <<nvs, radio>>
    PROVE  MirrorOK'
  <1>1. task' \in Task /\ Carries(task')
    BY Constants DEF Afresh, MirrorOK, NewTask
  <1>2. QED
    BY <1>1 DEF Afresh, MirrorOK

(* The task goes on without a token in hand.                               *)
LEMMA TaskMoves ==
    ASSUME MirrorOK, NEW pc \in TaskSteps \ {"url", "token", "adopt"},
           task.pc \notin {"url", "token", "adopt"}, task' = At(pc)
    PROVE  task' \in Task /\ Carries(task') /\ task'.pc = pc
  <1>1. task' \in Task
    BY Zenon DEF At, MirrorOK, Task
  <1>2. task'.pc = pc /\ task'.token = task.token
    BY SMT DEF At, MirrorOK, Task
  <1>3. QED
    BY <1>1, <1>2 DEF MirrorOK, Carries

(* A report that a claim failed, or succeeded, ends with what it carries.  *)
LEMMA FailOK ==
    ASSUME MirrorOK, Fail
    PROVE  MirrorOK' /\ m'.result = "failed" /\ task'.pc = "failing"
  <1>1. m' \in Mirror
    BY Zenon DEF Fail, MirrorOK, Mirror
  <1>2. m'.service = m.service /\ m'.released = m.released /\ m'.result = "failed"
    BY SMT DEF Fail, MirrorOK, Mirror
  <1>3. task'.pc = "failing"
    BY SMT DEF Fail, NoTask
  <1>4. QED
    BY <1>1, <1>2, <1>3, Constants DEF Fail, MirrorOK

LEMMA ReportOK ==
    ASSUME MirrorOK, ReportClaimed, nvs' \in Settings, radio' \in Radio,
           radio'.up => radio'.driver = Good
    PROVE  MirrorOK' /\ m'.result = "claimed" /\ task'.pc = "finish"
  <1>1. m' \in Mirror
    BY Zenon DEF ReportClaimed, MirrorOK, Mirror
  <1>2. m'.service = m.service /\ m'.released = m.released /\ m'.result = "claimed"
    BY SMT DEF ReportClaimed, MirrorOK, Mirror
  <1>3. task'.pc = "finish"
    BY SMT DEF ReportClaimed, NoTask
  <1>4. QED
    BY <1>1, <1>2, <1>3, Constants DEF ReportClaimed, MirrorOK

LEMMA TaskOK == ASSUME MirrorOK, TaskAlone PROVE MirrorOK'
  <1>1. CASE WindowCloses
    <2>1. m' \in Mirror
      BY <1>1, Zenon DEF WindowCloses, MirrorOK, Mirror
    <2>2. m'.service = m.service /\ m'.released = m.released
      BY <1>1, SMT DEF WindowCloses, MirrorOK, Mirror
    <2>3. QED
      BY <1>1, <2>1, <2>2, TaskMoves DEF WindowCloses, MirrorOK
  <1>2. CASE ServiceStopped
    <2>1. m' \in Mirror
      BY <1>2, Zenon DEF ServiceStopped, StopService, MirrorOK, Mirror
    <2>2. m'.released = m.released /\ (m.service # "up" => m'.service = m.service)
      BY <1>2, SMT DEF ServiceStopped, StopService, MirrorOK, Mirror
    <2>3. QED
      BY <1>2, <2>1, <2>2, TaskMoves DEF ServiceStopped, MirrorOK
  <1>3. CASE Leave
    BY <1>3, Constants DEF Leave, MirrorOK
  <1>4. CASE ConfirmTimeout
    <2>1. m' \in Mirror
      BY <1>4, Zenon DEF ConfirmTimeout, MirrorOK, Mirror
    <2>2. m'.service = m.service /\ m'.released = m.released
      BY <1>4, SMT DEF ConfirmTimeout, MirrorOK, Mirror
    <2>3. QED
      BY <1>4, <2>1, <2>2, TaskMoves DEF ConfirmTimeout, MirrorOK
  <1>5. CASE Unconfirmed
    <2>1. m' \in Mirror
      BY <1>5, Zenon DEF Unconfirmed, MirrorOK, Mirror
    <2>2. m'.service = m.service /\ m'.released = m.released
      BY <1>5, SMT DEF Unconfirmed, MirrorOK, Mirror
    <2>3. QED
      BY <1>5, <2>1, <2>2, TaskMoves DEF Unconfirmed, MirrorOK
  <1>6. CASE Rediscoverable
    <2>1. m' \in Mirror
      BY <1>6, Zenon DEF Rediscoverable, MirrorOK, Mirror
    <2>2. m'.service = m.service /\ m'.released = m.released
      BY <1>6, SMT DEF Rediscoverable, MirrorOK, Mirror
    <2>3. QED
      BY <1>6, <2>1, <2>2, TaskMoves DEF Rediscoverable, MirrorOK
  <1>7. CASE BeginClaim
    <2>1. m' \in Mirror
      BY <1>7, Zenon DEF BeginClaim, MirrorOK, Mirror
    <2>2. m'.service = m.service /\ m'.released = m.released
      BY <1>7, SMT DEF BeginClaim, MirrorOK, Mirror
    <2>3. QED
      BY <1>7, <2>1, <2>2, TaskMoves DEF BeginClaim, MirrorOK
  <1>8. CASE EnterClaiming
    <2>1. m' \in Mirror
      BY <1>8, Zenon DEF EnterClaiming, MirrorOK, Mirror
    <2>2. m'.service = m.service /\ m'.released = m.released
      BY <1>8, SMT DEF EnterClaiming, MirrorOK, Mirror
    <2>3. QED
      BY <1>8, <2>1, <2>2, TaskMoves DEF EnterClaiming, MirrorOK
  <1>9. CASE Joined
    BY <1>9, TaskMoves DEF Joined, MirrorOK
  <1>10. CASE NotJoined
    BY <1>10, FailOK DEF NotJoined
  <1>11. CASE BackToPairing
    <2>1. m' \in Mirror
      BY <1>11, Zenon DEF BackToPairing, MirrorOK, Mirror
    <2>2. m'.service = m.service /\ m'.released = m.released
      BY <1>11, SMT DEF BackToPairing, MirrorOK, Mirror
    <2>3. QED
      BY <1>11, <2>1, <2>2, TaskMoves DEF BackToPairing, MirrorOK
  <1>12. CASE StoreUrl
    <2>1. nvs' \in Settings
      BY <1>12, Zenon DEF StoreUrl, Keep, MirrorOK, Settings
    <2>2. task' \in Task
      BY <1>12, Zenon DEF StoreUrl, At, MirrorOK, Task
    <2>3. task'.pc = "token" /\ task'.token = task.token
      BY <1>12, SMT DEF StoreUrl, At, MirrorOK, Task
    <2>4. QED
      BY <1>12, <2>1, <2>2, <2>3 DEF StoreUrl, MirrorOK, Carries
  <1>13. CASE StoreToken
    <2>1. nvs' \in Settings
      BY <1>13, Zenon DEF StoreToken, Keep, MirrorOK, Settings, Task
    <2>2. task' \in Task
      BY <1>13, Zenon DEF StoreToken, At, MirrorOK, Task
    <2>3. task'.pc = "adopt" /\ task'.token = task.token
      BY <1>13, SMT DEF StoreToken, At, MirrorOK, Task
    <2>4. QED
      BY <1>13, <2>1, <2>2, <2>3 DEF StoreToken, MirrorOK, Carries
  <1>14. CASE AdoptNetwork
    <2>1. nvs' \in Settings
      BY <1>14, Zenon DEF AdoptNetwork, Keep, MirrorOK, Settings, Radio
    <2>2. radio' \in Radio
      BY <1>14, Zenon DEF AdoptNetwork, MirrorOK, Radio
    <2>3. radio'.up = radio.up /\ radio'.driver = radio.driver
      BY <1>14, SMT DEF AdoptNetwork, MirrorOK, Radio
    <2>4. QED
      BY <1>14, <2>1, <2>2, <2>3, ReportOK DEF AdoptNetwork, MirrorOK
  <1>15. CASE AdoptFails
    BY <1>15, ReportOK DEF AdoptFails, MirrorOK
  <1>16. CASE Finish
    <2>1. m' \in Mirror
      BY <1>16, Zenon DEF Finish, MirrorOK, Mirror
    <2>2. m'.service = m.service /\ m'.released = m.released
      BY <1>16, SMT DEF Finish, MirrorOK, Mirror
    <2>3. QED
      BY <1>16, <2>1, <2>2, TaskMoves DEF Finish, MirrorOK
  <1>17. QED
    BY <1>1, <1>2, <1>3, <1>4, <1>5, <1>6, <1>7, <1>8, <1>9, <1>10, <1>11, <1>12, <1>13, <1>14, <1>15, <1>16 DEF TaskAlone

LEMMA RedeemOK ==
    ASSUME MirrorOK, NEW answered, answered => m.payload # None, Redeem(answered)
    PROVE  MirrorOK'
  <1>1. CASE answered
    <2>1. task' = [pc |-> "url", token |-> m.payload] /\ UNCHANGED <<m, nvs, radio>>
      BY <1>1 DEF Redeem
    <2>2. task' \in Task
      BY <2>1, Zenon DEF MirrorOK, Mirror, Task
    <2>3. QED
      BY <1>1, <2>1, <2>2 DEF MirrorOK, Carries
  <1>2. CASE ~answered
    BY <1>2, FailOK DEF Redeem
  <1>3. QED
    BY <1>1, <1>2

(* What the phone sends over Bluetooth, and the steps of its handler.      *)
LEMMA PayloadOK ==
    ASSUME MirrorOK,
           (\E t \in Tokens : PayloadCopied(t)) \/ PressVoided \/ WindowOpens \/ PayloadAnswered
    PROVE  MirrorOK'
  <1>1. m' \in Mirror
    BY Zenon DEF PayloadCopied, PressVoided, WindowOpens, PayloadAnswered, MirrorOK, Mirror
  <1>2. m'.service = m.service /\ m'.released = m.released
    <2>1. CASE \E t \in Tokens : PayloadCopied(t)
      BY <2>1, Zenon DEF PayloadCopied, MirrorOK, Mirror
    <2>2. CASE PressVoided
      BY <2>2, SMT DEF PressVoided, MirrorOK, Mirror
    <2>3. CASE WindowOpens
      BY <2>3, SMT DEF WindowOpens, MirrorOK, Mirror
    <2>4. CASE PayloadAnswered
      BY <2>4, SMT DEF PayloadAnswered, MirrorOK, Mirror
    <2>5. QED
      BY <2>1, <2>2, <2>3, <2>4
  <1>3. UNCHANGED <<task, nvs, radio>>
    BY DEF PayloadCopied, PressVoided, WindowOpens, PayloadAnswered
  <1>4. QED
    BY <1>1, <1>2, <1>3 DEF MirrorOK

LEMMA CredentialsOK ==
    ASSUME MirrorOK, NEW c \in {Good, Bad}, NEW joined \in BOOLEAN, ReceiveCredentials(c, joined)
    PROVE  MirrorOK'
  <1>1. radio' \in Radio
    BY Zenon DEF ReceiveCredentials, MirrorOK, Radio
  <1>2. radio'.driver = c /\ radio'.up = joined
    BY SMT DEF ReceiveCredentials, MirrorOK, Radio
  <1>3. m' \in Mirror
    <2>1. CASE joined
      BY <2>1 DEF ReceiveCredentials, MirrorOK
    <2>2. CASE ~joined
      BY <2>2, Zenon DEF ReceiveCredentials, MirrorOK, Mirror
    <2>3. QED
      BY <2>1, <2>2
  <1>4. m'.service = m.service /\ m'.released = m.released
    BY SMT DEF ReceiveCredentials, MirrorOK, Mirror
  <1>5. QED
    BY <1>1, <1>2, <1>3, <1>4 DEF ReceiveCredentials, MirrorOK

(* What reaches the mirror over Bluetooth, from the manager, the station   *)
(* and the settings page.                                                  *)
LEMMA OutsideOK ==
    ASSUME MirrorOK,
           \/ GotAddress \/ Disconnected \/ ServiceDown
           \/ \E c \in {Good, Bad}, joined \in BOOLEAN : ReceiveCredentials(c, joined)
           \/ Confirmed \/ StoreFails \/ Erases \/ Saves
    PROVE  MirrorOK'
  <1>1. CASE GotAddress \/ Disconnected
    <2>1. radio' \in Radio
      BY <1>1, Zenon DEF GotAddress, Disconnected, MirrorOK, Radio
    <2>2. radio'.driver = radio.driver /\ (radio'.up => radio.driver = Good)
      BY <1>1, SMT DEF GotAddress, Disconnected, MirrorOK, Radio
    <2>3. QED
      BY <1>1, <2>1, <2>2 DEF GotAddress, Disconnected, MirrorOK
  <1>2. CASE ServiceDown
    <2>1. m' \in Mirror
      BY <1>2, Zenon DEF ServiceDown, MirrorOK, Mirror
    <2>2. m'.service = "down"
      BY <1>2, SMT DEF ServiceDown, MirrorOK, Mirror
    <2>3. QED
      BY <1>2, <2>1, <2>2 DEF ServiceDown, MirrorOK
  <1>3. CASE \E c \in {Good, Bad}, joined \in BOOLEAN : ReceiveCredentials(c, joined)
    BY <1>3, CredentialsOK
  <1>4. CASE Confirmed
    <2>1. m' \in Mirror
      BY <1>4, Zenon DEF Confirmed, MirrorOK, Mirror
    <2>2. m'.service = m.service /\ m'.released = m.released
      BY <1>4, SMT DEF Confirmed, MirrorOK, Mirror
    <2>3. QED
      BY <1>4, <2>1, <2>2 DEF Confirmed, MirrorOK
  <1>5. CASE StoreFails
    BY <1>5, FailOK DEF StoreFails
  <1>6. CASE Erases
    <2>0. ForgetEverything \/ FactoryReset
      BY <1>6 DEF Erases, HoldTwenty
    <2>1. m' \in Mirror
      BY <2>0, Zenon DEF ForgetEverything, FactoryReset, MirrorOK, Mirror
    <2>2. m'.service = m.service /\ m'.released = m.released
      BY <2>0, SMT DEF ForgetEverything, FactoryReset, MirrorOK, Mirror
    <2>3. nvs' \in Settings /\ UNCHANGED task
      BY <2>0, Constants DEF ForgetEverything, FactoryReset, MirrorOK
    <2>4. radio' \in Radio /\ (radio'.up => radio'.driver = Good)
      <3>1. CASE ForgetEverything
        BY <3>1 DEF ForgetEverything, MirrorOK
      <3>2. CASE FactoryReset
        BY <3>2 DEF FactoryReset, MirrorOK, Radio
      <3>3. QED
        BY <2>0, <3>1, <3>2
    <2>5. QED
      BY <2>1, <2>2, <2>3, <2>4 DEF MirrorOK
  <1>7. CASE Saves
    <2>0. PICK ssid \in {Good, Bad, nvs.ssid}, url \in BOOLEAN : SaveSettings(ssid, url)
      BY <1>7 DEF Saves
    <2>1. m' \in Mirror
      BY <2>0, Zenon DEF SaveSettings, MirrorOK, Mirror
    <2>2. m'.service = m.service /\ m'.released = m.released
      BY <2>0, SMT DEF SaveSettings, MirrorOK, Mirror
    <2>3. ssid \in {None, Good, Bad}
      BY DEF MirrorOK, Settings
    <2>4. [nvs EXCEPT !.ssid = ssid] \in Settings
          /\ [nvs EXCEPT !.ssid = ssid, !.url = url] \in Settings
      BY <2>3, Zenon DEF MirrorOK, Settings
    <2>5. nvs' \in Settings
      BY <2>0, <2>4 DEF SaveSettings
    <2>6. QED
      BY <2>0, <2>1, <2>2, <2>5 DEF SaveSettings, MirrorOK
  <1>8. QED
    BY <1>1, <1>2, <1>3, <1>4, <1>5, <1>6, <1>7

-----------------------------------------------------------------------------
(* The phone.                                                              *)

Attempted == phone.step \in {"sending", "confirm"} => phone.attempt \in Tokens
Over      == phone.step = "success" => ~phone.busy /\ phone.retry = ""
PhoneOK   == phone \in Phone /\ Attempted /\ Over

(* One more attempt, while there is one.                                   *)
LEMMA SendOK ==
    ASSUME NEW p \in Phone, p.attempt < Attempts
    PROVE  /\ Send(p) \in Phone /\ Send(p).attempt \in Tokens /\ Send(p).step = "sending"
           /\ \A right \in BOOLEAN :
                 /\ [Send(p) EXCEPT !.typed = right] \in Phone
                 /\ [Send(p) EXCEPT !.typed = right].attempt \in Tokens
                 /\ [Send(p) EXCEPT !.typed = right].step = "sending"
  <1>1. p.attempt \in 0 .. Attempts
    BY DEF Phone
  <1>2. p.attempt + 1 \in 0 .. Attempts /\ p.attempt + 1 \in Tokens
    BY <1>1, AttemptsAssumption, TokensAreAttempts
  <1>3. Send(p) \in Phone
    BY <1>2, Zenon DEF Send, Phone, Steps, Stages
  <1>4. Send(p).attempt = p.attempt + 1 /\ Send(p).step = "sending"
    BY Zenon DEF Send, Phone, Steps, Stages
  <1>5. ASSUME NEW right \in BOOLEAN
        PROVE  /\ [Send(p) EXCEPT !.typed = right] \in Phone
               /\ [Send(p) EXCEPT !.typed = right].attempt = Send(p).attempt
               /\ [Send(p) EXCEPT !.typed = right].step = Send(p).step
    <2> DEFINE q == Send(p)
    <2> HIDE DEF q
    <2>1. q \in Phone
      BY <1>3 DEF q
    <2>2. [q EXCEPT !.typed = right] \in Phone
      BY <2>1, Zenon DEF Phone
    <2>3. [q EXCEPT !.typed = right].attempt = q.attempt
          /\ [q EXCEPT !.typed = right].step = q.step
      BY <2>1, Zenon DEF Phone
    <2>4. QED
      BY <2>2, <2>3 DEF q
  <1>6. QED
    BY <1>2, <1>3, <1>4, <1>5

(* An operation that fails, a link that drops, a start over.               *)
LEMMA LessOK ==
    ASSUME PhoneOK, phone' = Unlinked \/ StartOver \/ (phone.busy /\ (Failed \/ Timeout))
    PROVE  PhoneOK' /\ (phone'.step = "success" => phone.step = "success")
  <1>1. CASE phone' = Unlinked
    <2>1. phone' \in Phone
      BY <1>1, Zenon DEF Unlinked, PhoneOK, Phone
    <2>2. /\ phone'.step = phone.step /\ phone'.attempt = phone.attempt
          /\ phone'.busy = phone.busy /\ phone'.retry = phone.retry
      BY <1>1, Zenon DEF Unlinked, PhoneOK, Phone
    <2>3. QED
      BY <2>1, <2>2 DEF PhoneOK, Attempted, Over
  <1>2. CASE StartOver
    <2>1. phone' \in Phone
      BY <1>2, Zenon DEF StartOver, Begin, PhoneOK, Phone, Steps, Stages
    <2>2. phone'.step = "discover"
      BY <1>2, Zenon DEF StartOver, Begin
    <2>3. QED
      BY <2>1, <2>2 DEF PhoneOK, Attempted, Over
  <1>3. CASE phone.busy /\ Failed
    <2> DEFINE step == IF phone.step = "confirm" THEN "sending" ELSE phone.step
    <2>1. /\ step \in {"discover", "wifi", "sending"}
          /\ step = "sending" => phone.step \in {"sending", "confirm"}
      BY <1>3 DEF PhoneOK, Over, Phone, Steps
    <2>2. phone' = [phone EXCEPT !.step = step, !.busy = FALSE, !.retry = step]
      BY <1>3 DEF Failed, FailAt
    <2> HIDE DEF step
    <2>3. phone' \in Phone
      BY <2>1, <2>2, Zenon DEF PhoneOK, Phone, Steps
    <2>4. phone'.step = step /\ phone'.attempt = phone.attempt
      BY <2>2, Zenon DEF PhoneOK, Phone
    <2>5. QED
      BY <2>1, <2>3, <2>4 DEF PhoneOK, Attempted, Over
  <1>4. CASE Timeout
    <2>1. phone' \in Phone
      BY <1>4, Zenon DEF Timeout, PhoneOK, Phone
    <2>2. phone'.step = "confirm" /\ phone'.attempt = phone.attempt
      BY <1>4, Zenon DEF Timeout, Running, PhoneOK, Phone
    <2>3. QED
      BY <1>4, <2>1, <2>2 DEF PhoneOK, Attempted, Over, Timeout, Running
  <1>5. QED
    BY <1>1, <1>2, <1>3, <1>4

(* The progress of an operation that succeeds; only the mirror's word that *)
(* it is claimed ends in success.                                          *)
LEMMA MoreOK ==
    ASSUME PhoneOK, Found \/ Connected \/ Minted \/ PayloadSent \/ Replied \/ Awaiting
    PROVE  PhoneOK' /\ phone'.step # "success"
  <1>1. phone' \in Phone
    BY Zenon DEF Found, Connected, Minted, PayloadSent, Replied, Awaiting, PhoneOK, Phone, Steps, Stages
  <1>2. CASE Found \/ Connected
    <2>1. phone'.step = phone.step
      BY <1>2, Zenon DEF Found, Connected, PhoneOK, Phone
    <2>2. QED
      BY <1>1, <1>2, <2>1 DEF Found, Connected, Running, PhoneOK, Attempted, Over
  <1>3. CASE Minted \/ PayloadSent \/ Replied
    <2>1. phone'.step = phone.step /\ phone'.attempt = phone.attempt
      BY <1>3, Zenon DEF Minted, PayloadSent, Replied, PhoneOK, Phone
    <2>2. phone.step = "sending"
      BY <1>3 DEF Minted, PayloadSent, Replied, Sending, Running
    <2>3. QED
      BY <1>1, <2>1, <2>2 DEF PhoneOK, Attempted, Over
  <1>4. CASE Awaiting
    <2>1. phone'.step = "confirm" /\ phone'.attempt = phone.attempt
      BY <1>4, Zenon DEF Awaiting, PhoneOK, Phone
    <2>2. phone.step = "sending"
      BY <1>4 DEF Awaiting, Sending, Running
    <2>3. QED
      BY <1>1, <2>1, <2>2 DEF PhoneOK, Attempted, Over
  <1>5. QED
    BY <1>2, <1>3, <1>4

LEMMA ResultOK ==
    ASSUME PhoneOK, NEW status, Result(status)
    PROVE  PhoneOK' /\ (phone'.step = "success" => status = "claimed")
  <1>1. CASE status = "claimed"
             /\ phone' = [phone EXCEPT !.step = "success", !.busy = FALSE, !.retry = ""]
    <2>1. phone' \in Phone
      BY <1>1, Zenon DEF PhoneOK, Phone, Steps
    <2>2. phone'.step = "success" /\ ~phone'.busy /\ phone'.retry = ""
      BY <1>1, Zenon DEF PhoneOK, Phone
    <2>3. QED
      BY <1>1, <2>1, <2>2 DEF PhoneOK, Attempted, Over
  <1>2. CASE phone' = [phone EXCEPT !.busy = FALSE, !.retry = "sending"]
    <2>1. phone' \in Phone
      BY <1>2, Zenon DEF PhoneOK, Phone
    <2>2. phone'.step = phone.step /\ phone'.attempt = phone.attempt
      BY <1>2, Zenon DEF PhoneOK, Phone
    <2>3. phone.step = "confirm"
      BY DEF Result, Running
    <2>4. QED
      BY <2>1, <2>2, <2>3 DEF PhoneOK, Attempted, Over
  <1>3. QED
    BY <1>1, <1>2 DEF Result

(* What the user taps.                                                     *)
LEMMA TapsOK ==
    ASSUME PhoneOK, ScanAgain \/ Select \/ TryAgain \/ \E right \in BOOLEAN : SubmitWifi(right)
    PROVE  PhoneOK' /\ phone'.step # "success"
  <1>1. CASE ScanAgain \/ Select
    <2>1. phone' \in Phone
      BY <1>1, Zenon DEF ScanAgain, Select, PhoneOK, Phone, Steps
    <2>2. phone'.step \in {"discover", "wifi"}
      <3>1. CASE ScanAgain
        BY <3>1, Zenon DEF ScanAgain, PhoneOK, Phone
      <3>2. CASE Select
        BY <3>2, Zenon DEF Select, PhoneOK, Phone
      <3>3. QED
        BY <1>1, <3>1, <3>2
    <2>3. QED
      BY <2>1, <2>2 DEF PhoneOK, Attempted, Over
  <1>2. CASE TryAgain
    <2>1. phone.step # "success"
      BY <1>2 DEF TryAgain, PhoneOK, Over
    <2>2. CASE phone.attempt < Attempts /\ phone' = Send(phone)
      BY <2>2, SendOK DEF PhoneOK, Attempted, Over
    <2>3. CASE \/ phone' = [phone EXCEPT !.busy = FALSE, !.retry = ""]
               \/ phone' = [phone EXCEPT !.busy = TRUE, !.found = FALSE, !.retry = ""]
      <3>1. phone' \in Phone
        BY <2>3, Zenon DEF PhoneOK, Phone
      <3>2. phone'.step = phone.step /\ phone'.attempt = phone.attempt
        BY <2>3, Zenon DEF PhoneOK, Phone
      <3>3. QED
        BY <2>1, <3>1, <3>2 DEF PhoneOK, Attempted, Over
    <2>4. QED
      BY <1>2, <2>2, <2>3 DEF TryAgain
  <1>3. CASE \E right \in BOOLEAN : SubmitWifi(right)
    BY <1>3, SendOK DEF SubmitWifi, PhoneOK, Attempted, Over
  <1>4. QED
    BY <1>1, <1>2, <1>3

-----------------------------------------------------------------------------
(* The inductive invariant.                                                *)

Addressed == nvs.url \/ cleared
UrlFirst  == task.pc = "token" \/ Claimed => Addressed

(* What the task carries is what the server accepts, and what it has       *)
(* stored stays so until a restart; nothing reports success before that,   *)
(* but for the moment between a new payload's window and its answer.       *)
InForce == m.reboot \/ (Claimed /\ nvs.token = server.current)
Entered == m.endpoint = "entered"
Working == {"begun", "joining", "redeeming", "url", "token", "adopt"}
Current ==
    /\ task.pc \in {"url", "token"} => task.token = server.current
    /\ task.pc = "adopt" => InForce
    /\ m.result = "claimed" => InForce \/ Entered
    /\ task.pc \in Working => m.result # "claimed" \/ Entered
    /\ m.state = "awaiting" /\ m.result = "claimed" => task.pc = "finish" \/ Entered

Kept == UrlFirst /\ Current

LEMMA TaskFields ==
    NoTask.pc = "none" /\ NoTask.token = None /\ NewTask.pc = "tick" /\ NewTask.token = None
  BY SMT DEF NoTask, NewTask

(* After a start nothing of a pairing is left.                             *)
LEMMA StartedKept ==
    ASSUME Kept, Started(nvs), UNCHANGED <<server, cleared>>
    PROVE  Kept'
  <1>1. task'.pc \in {"none", "tick"}
    BY TaskFields DEF Started
  <1>2. UrlFirst'
    BY <1>1 DEF Started, Kept, UrlFirst, Addressed, Claimed
  <1>3. Current'
    BY <1>1 DEF Started, Current, Working
  <1>4. QED
    BY <1>2, <1>3 DEF Kept

LEMMA AfreshKept ==
    ASSUME Kept, Afresh(m, task), UNCHANGED <<nvs, server, cleared>>
    PROVE  Kept'
  <1>1. task'.pc \in {"none", "tick"} \/ task' = task
    BY TaskFields DEF Afresh
  <1>2. UrlFirst'
    BY <1>1 DEF Kept, UrlFirst, Addressed, Claimed
  <1>3. InForce => InForce'
    BY DEF Afresh, InForce, Claimed
  <1>4. Current'
    BY <1>1, <1>3 DEF Afresh, Kept, Current, Working
  <1>5. QED
    BY <1>2, <1>4 DEF Kept

(* The globals change under the task: what they say of a claim may be      *)
(* withdrawn, or a window opens over it that will withdraw it.             *)
Withdraws ==
    \/ m'.result # "claimed"
    \/ /\ m'.result = m.result
       /\ Entered => Entered'
       /\ m'.state = "awaiting" => m.state = "awaiting" \/ Entered'

LEMMA GlobalsKept ==
    ASSUME Kept, Withdraws, m.reboot => m'.reboot, nvs'.token = nvs.token,
           UNCHANGED <<task, server>>, Addressed => Addressed'
    PROVE  Kept'
  <1>1. InForce => InForce'
    BY SMT DEF InForce, Claimed
  <1>2. Current'
    BY <1>1, SMT DEF Withdraws, Kept, Current
  <1>3. UrlFirst'
    BY SMT DEF Kept, UrlFirst, Claimed
  <1>4. QED
    BY <1>2, <1>3 DEF Kept

(* The task goes on, with nothing new in the settings, and neither starts  *)
(* nor ends a claim.                                                       *)
LEMMA MovesKept ==
    ASSUME Kept, task'.pc \notin {"url", "token", "adopt"}, nvs'.token = nvs.token,
           task'.pc \in Working => m'.result # "claimed" \/ Entered',
           m'.result # "claimed" \/ m'.result = m.result, Entered => Entered',
           m'.state = "awaiting" /\ m'.result = "claimed" => task'.pc = "finish" \/ Entered',
           m'.reboot = m.reboot, UNCHANGED server, Addressed => Addressed'
    PROVE  Kept'
  <1>1. InForce => InForce'
    BY SMT DEF InForce, Claimed
  <1>2. Current'
    BY <1>1, SMT DEF Kept, Current
  <1>3. UrlFirst'
    BY SMT DEF Kept, UrlFirst, Claimed
  <1>4. QED
    BY <1>2, <1>3 DEF Kept

LEMMA FailKept ==
    ASSUME MirrorOK, Kept, Fail, Addressed => Addressed'
    PROVE  Kept'
  <1>1. m'.result = "failed" /\ task'.pc = "failing"
    BY FailOK
  <1>2. UrlFirst'
    BY <1>1, SMT DEF Fail, Kept, UrlFirst, Claimed
  <1>3. Current'
    BY <1>1, SMT DEF Current, Working
  <1>4. QED
    BY <1>2, <1>3 DEF Kept

(* A claim that is reported is stored.                                     *)
LEMMA ReportKept ==
    ASSUME MirrorOK, Kept, task.pc = "adopt", ReportClaimed,
           nvs'.token = nvs.token, UNCHANGED server, Addressed => Addressed'
    PROVE  Kept'
  <1>1. m'.state = m.state /\ m'.reboot = m.reboot /\ m'.result = "claimed"
    BY SMT DEF ReportClaimed, MirrorOK, Mirror
  <1>2. task'.pc = "finish"
    BY SMT DEF ReportClaimed, NoTask
  <1>3. InForce'
    BY <1>1, SMT DEF Kept, Current, InForce, Claimed
  <1>4. Current'
    BY <1>1, <1>2, <1>3, SMT DEF Current, Working
  <1>5. UrlFirst'
    BY <1>2, SMT DEF Kept, UrlFirst, Claimed
  <1>6. QED
    BY <1>4, <1>5 DEF Kept

(* What a step of the task means for the address.                          *)
Remembers == cleared' = (cleared /\ ~nvs'.url)

LEMMA AddressKept ==
    ASSUME Remembers, nvs'.url = nvs.url \/ nvs'.url PROVE Addressed => Addressed'
  BY Zenon DEF Remembers, Addressed

(* The task by itself.                                                     *)
LEMMA TaskKept ==
    ASSUME MirrorOK, Kept, TaskAlone, UNCHANGED server, Remembers
    PROVE  Kept'
  <1>0. nvs' = nvs => (Addressed => Addressed')
    BY AddressKept
  <1>1. CASE WindowCloses
    <2>1. /\ m'.state = "idle" /\ m'.result = m.result
          /\ m'.endpoint = m.endpoint /\ m'.reboot = m.reboot /\ task'.pc = "leaving" /\ nvs' = nvs
      BY <1>1, SMT DEF WindowCloses, At, MirrorOK, Mirror, Task
    <2>2. QED
      BY <1>0, <1>1, <2>1, MovesKept, SMT DEF WindowCloses, Kept, Current, Working, Entered
  <1>2. CASE ServiceStopped
    <2>1. /\ m'.state = m.state /\ m'.result = m.result
          /\ m'.endpoint = m.endpoint /\ m'.reboot = m.reboot /\ task'.pc = "stopped" /\ nvs' = nvs
      BY <1>2, SMT DEF ServiceStopped, StopService, At, MirrorOK, Mirror, Task
    <2>2. QED
      BY <1>0, <1>2, <2>1, MovesKept, SMT DEF ServiceStopped, Kept, Current, Working, Entered
  <1>3. CASE Leave
    <2>1. /\ m'.state = m.state /\ m'.result = m.result
          /\ m'.endpoint = m.endpoint /\ m'.reboot = m.reboot /\ task'.pc = "none" /\ nvs' = nvs
      BY <1>3, SMT DEF Leave, NoTask, At, MirrorOK, Mirror, Task
    <2>2. QED
      BY <1>0, <1>3, <2>1, MovesKept, SMT DEF Leave, Kept, Current, Working, Entered
  <1>4. CASE ConfirmTimeout
    <2>1. /\ m'.state = m.state /\ m'.result = "failed"
          /\ m'.endpoint = m.endpoint /\ m'.reboot = m.reboot /\ task'.pc = "unconfirmed" /\ nvs' = nvs
      BY <1>4, SMT DEF ConfirmTimeout, At, MirrorOK, Mirror, Task
    <2>2. QED
      BY <1>0, <1>4, <2>1, MovesKept, SMT DEF ConfirmTimeout, Kept, Current, Working, Entered
  <1>5. CASE Unconfirmed
    <2>1. /\ m'.state = m.state /\ m'.result = m.result
          /\ m'.endpoint = m.endpoint /\ m'.reboot = m.reboot /\ task'.pc = "reopening" /\ nvs' = nvs
      BY <1>5, SMT DEF Unconfirmed, At, MirrorOK, Mirror, Task
    <2>2. QED
      BY <1>0, <1>5, <2>1, MovesKept, SMT DEF Unconfirmed, Kept, Current, Working, Entered
  <1>6. CASE Rediscoverable
    <2>1. /\ m'.state = "pairing" /\ m'.result = m.result
          /\ m'.endpoint = m.endpoint /\ m'.reboot = m.reboot /\ task'.pc = "tick" /\ nvs' = nvs
      BY <1>6, SMT DEF Rediscoverable, At, MirrorOK, Mirror, Task
    <2>2. QED
      BY <1>0, <1>6, <2>1, MovesKept, SMT DEF Rediscoverable, Kept, Current, Working, Entered
  <1>7. CASE BeginClaim
    <2>1. /\ m'.state = m.state /\ m'.result = m.result
          /\ m'.endpoint = m.endpoint /\ m'.reboot = m.reboot /\ task'.pc = "begun" /\ nvs' = nvs
      BY <1>7, SMT DEF BeginClaim, At, MirrorOK, Mirror, Task
    <2>2. QED
      BY <1>0, <1>7, <2>1, MovesKept, SMT DEF BeginClaim, Kept, Current, Working, Entered
  <1>8. CASE EnterClaiming
    <2>1. /\ m'.state = "claiming" /\ m'.result = m.result
          /\ m'.endpoint = m.endpoint /\ m'.reboot = m.reboot /\ task'.pc = "joining" /\ nvs' = nvs
      BY <1>8, SMT DEF EnterClaiming, At, MirrorOK, Mirror, Task
    <2>2. QED
      BY <1>0, <1>8, <2>1, MovesKept, SMT DEF EnterClaiming, Kept, Current, Working, Entered
  <1>9. CASE Joined
    <2>1. /\ m'.state = m.state /\ m'.result = m.result
          /\ m'.endpoint = m.endpoint /\ m'.reboot = m.reboot /\ task'.pc = "redeeming" /\ nvs' = nvs
      BY <1>9, SMT DEF Joined, At, MirrorOK, Mirror, Task
    <2>2. QED
      BY <1>0, <1>9, <2>1, MovesKept, SMT DEF Joined, Kept, Current, Working, Entered
  <1>10. CASE NotJoined
    BY <1>0, <1>10, FailKept DEF NotJoined, Fail
  <1>11. CASE BackToPairing
    <2>1. /\ m'.state = m.state /\ m'.result = m.result
          /\ m'.endpoint = m.endpoint /\ m'.reboot = m.reboot /\ task'.pc = "reopening" /\ nvs' = nvs
      BY <1>11, SMT DEF BackToPairing, At, MirrorOK, Mirror, Task
    <2>2. QED
      BY <1>0, <1>11, <2>1, MovesKept, SMT DEF BackToPairing, Kept, Current, Working, Entered
  <1>12. CASE StoreUrl
    <2>1. /\ nvs'.url /\ nvs'.token = nvs.token
          /\ task'.pc = "token" /\ task'.token = task.token /\ UNCHANGED m
      BY <1>12, SMT DEF StoreUrl, At, Keep, MirrorOK, Task, Settings
    <2>2. UrlFirst'
      BY <2>1, Zenon DEF UrlFirst, Addressed
    <2>3. Current'
      BY <1>12, <2>1, SMT DEF StoreUrl, Kept, Current, InForce, Entered, Working, Claimed
    <2>4. QED
      BY <2>2, <2>3 DEF Kept
  <1>13. CASE StoreToken
    <2>1. /\ nvs'.url = nvs.url /\ nvs'.token = task.token /\ task.token # None
          /\ task'.pc = "adopt" /\ UNCHANGED m
      BY <1>13, SMT DEF StoreToken, At, Keep, Carries, MirrorOK, Task, Settings
    <2>2. Addressed => Addressed'
      BY <2>1, AddressKept
    <2>3. UrlFirst'
      BY <1>13, <2>2, SMT DEF StoreToken, Kept, UrlFirst
    <2>4. Current'
      BY <1>13, <2>1, SMT DEF StoreToken, Kept, Current, InForce, Entered, Working, Claimed
    <2>5. QED
      BY <2>3, <2>4 DEF Kept
  <1>14. CASE AdoptNetwork
    <2>1. nvs'.url = nvs.url /\ nvs'.token = nvs.token
      BY <1>14, SMT DEF AdoptNetwork, Keep, MirrorOK, Settings
    <2>2. QED
      BY <1>14, <2>1, AddressKept, ReportKept DEF AdoptNetwork
  <1>15. CASE AdoptFails
    BY <1>0, <1>15, ReportKept DEF AdoptFails
  <1>16. CASE Finish
    <2>1. /\ m'.state = "idle" /\ m'.result = m.result
          /\ m'.endpoint = m.endpoint /\ m'.reboot = m.reboot /\ task'.pc = "tick" /\ nvs' = nvs
      BY <1>16, SMT DEF Finish, At, MirrorOK, Mirror, Task
    <2>2. QED
      BY <1>0, <1>16, <2>1, MovesKept, SMT DEF Finish, Kept, Current, Working, Entered
  <1>17. QED
    BY <1>1, <1>2, <1>3, <1>4, <1>5, <1>6, <1>7, <1>8, <1>9, <1>10, <1>11, <1>12, <1>13, <1>14, <1>15, <1>16 DEF TaskAlone

(* The server grants a claim with its answer, or without.                  *)
LEMMA RedeemKept ==
    ASSUME MirrorOK, Kept, RedeemClaim, server \in Server, Remembers
    PROVE  Kept' /\ MirrorOK' /\ server' \in Server
  <1>0. nvs' = nvs => (Addressed => Addressed')
    BY AddressKept
  <1>1. CASE /\ m.payload \notin server.used \cup {None} /\ Grant
             /\ Redeem(TRUE)
    <2>1. /\ task'.pc = "url" /\ task'.token = m.payload /\ UNCHANGED <<m, nvs, radio>>
          /\ task.pc = "redeeming"
      BY <1>1 DEF Redeem
    <2>2. server'.current = m.payload
      BY <1>1 DEF Grant
    <2>3. m.payload \in Tokens
      BY <1>1 DEF MirrorOK, Mirror
    <2>4. server' \in Server
      BY <1>1, <2>3 DEF Grant, Server
    <2>5. MirrorOK'
      BY <1>1, RedeemOK
    <2>6. UrlFirst'
      BY <1>0, <2>1, SMT DEF Kept, UrlFirst, Claimed
    <2>7. Current'
      BY <2>1, <2>2, SMT DEF Kept, Current, Entered, Working
    <2>8. QED
      BY <2>4, <2>5, <2>6, <2>7 DEF Kept
  <1>2. CASE /\ Redeem(FALSE)
             /\ UNCHANGED server \/ (m.payload \notin server.used \cup {None} /\ Grant)
    <2>1. task.pc = "redeeming" /\ Fail
      BY <1>2 DEF Redeem
    <2>2. Kept'
      BY <1>0, <2>1, FailKept DEF Fail
    <2>3. server' \in Server
      BY <1>2 DEF Grant, Server, MirrorOK, Mirror
    <2>4. QED
      BY <2>1, <2>2, <2>3, FailOK
  <1>3. QED
    BY <1>1, <1>2 DEF RedeemClaim

(* The steps of the endpoint, the join and the button change the globals   *)
(* under a task that may be claiming.                                      *)
LEMMA OutsideKept ==
    ASSUME MirrorOK, Kept, UNCHANGED <<server, cleared>>,
           \/ \E t \in Tokens : PayloadCopied(t)
           \/ PressVoided \/ WindowOpens \/ PayloadAnswered
           \/ \E c \in {Good, Bad}, joined \in BOOLEAN : ReceiveCredentials(c, joined)
           \/ Confirmed \/ GotAddress \/ Disconnected \/ ServiceDown
    PROVE  Kept'
  <1>1. UNCHANGED <<task, nvs>>
    BY DEF PayloadCopied, PressVoided, WindowOpens, PayloadAnswered, ReceiveCredentials,
       Confirmed, GotAddress, Disconnected, ServiceDown
  <1>2. Withdraws /\ m'.reboot = m.reboot
    <2>1. CASE (\E t \in Tokens : PayloadCopied(t)) \/ PressVoided \/ Confirmed \/ ServiceDown
      <3>1. /\ m'.state = m.state /\ m'.result = m.result /\ m'.reboot = m.reboot
            /\ m.endpoint # "entered" \/ m'.endpoint = m.endpoint
        <4>1. CASE \E t \in Tokens : PayloadCopied(t)
          <5>1. m'.state = m.state /\ m'.result = m.result /\ m'.reboot = m.reboot
            BY <4>1, Zenon DEF PayloadCopied, MirrorOK, Mirror
          <5>2. QED
            BY <4>1, <5>1 DEF PayloadCopied
        <4>2. CASE PressVoided
          BY <4>2, SMT DEF PressVoided, MirrorOK, Mirror
        <4>3. CASE Confirmed
          BY <4>3, SMT DEF Confirmed, MirrorOK, Mirror
        <4>4. CASE ServiceDown
          BY <4>4, SMT DEF ServiceDown, MirrorOK, Mirror
        <4>5. QED
          BY <2>1, <4>1, <4>2, <4>3, <4>4
      <3>2. QED
        BY <3>1 DEF Withdraws, Entered
    <2>2. CASE WindowOpens
      <3>1. m'.endpoint = "entered" /\ m'.result = m.result /\ m'.reboot = m.reboot
        BY <2>2, SMT DEF WindowOpens, MirrorOK, Mirror
      <3>2. QED
        BY <3>1 DEF Withdraws, Entered
    <2>3. CASE PayloadAnswered
      <3>1. m'.result = "awaiting_confirm" /\ m'.reboot = m.reboot
        BY <2>3, SMT DEF PayloadAnswered, MirrorOK, Mirror
      <3>2. QED
        BY <3>1 DEF Withdraws
    <2>4. CASE m' = m
      BY <2>4 DEF Withdraws, Entered
    <2>5. CASE m' = [m EXCEPT !.result = "failed"]
      <3>1. m'.result = "failed" /\ m'.reboot = m.reboot
        BY <2>5, SMT DEF MirrorOK, Mirror
      <3>2. QED
        BY <3>1 DEF Withdraws
    <2>6. QED
      BY <2>1, <2>2, <2>3, <2>4, <2>5 DEF ReceiveCredentials, GotAddress, Disconnected
  <1>3. Addressed => Addressed'
    BY <1>1, Zenon DEF Addressed
  <1>4. QED
    BY <1>1, <1>2, <1>3, GlobalsKept

(* Settings that a person erases or saves: an address that goes is         *)
(* remembered as cleared.                                                  *)
LEMMA PersonKept ==
    ASSUME MirrorOK, Kept, Erases \/ Saves, UNCHANGED server,
           cleared' = ((nvs.url \/ cleared) /\ ~nvs'.url)
    PROVE  Kept'
  <1>1. Addressed => Addressed'
    BY Zenon DEF Addressed
  <1>2. CASE Erases
    <2>1. ForgetEverything \/ FactoryReset
      BY <1>2 DEF Erases, HoldTwenty
    <2>2. m' = [m EXCEPT !.reboot = TRUE] /\ UNCHANGED task /\ nvs' \in {Erased, nvs}
      BY <2>1 DEF ForgetEverything, FactoryReset
    <2>3. /\ m'.state = m.state /\ m'.endpoint = m.endpoint
          /\ m'.reboot /\ m'.result = m.result
      BY <2>2, SMT DEF MirrorOK, Mirror
    <2>4. Claimed' => Claimed
      BY <2>2 DEF Claimed, Erased
    <2>5. UrlFirst'
      BY <1>1, <2>2, <2>4, SMT DEF Kept, UrlFirst
    <2>6. Current'
      BY <2>2, <2>3, SMT DEF Kept, Current, InForce, Entered, Working
    <2>7. QED
      BY <2>5, <2>6 DEF Kept
  <1>3. CASE Saves
    <2>1. PICK ssid, url : SaveSettings(ssid, url)
      BY <1>3 DEF Saves
    <2>2. /\ m'.state = m.state /\ m'.endpoint = m.endpoint
          /\ (m.reboot => m'.reboot) /\ m'.result = m.result
      BY <2>1, SMT DEF SaveSettings, MirrorOK, Mirror
    <2>3. nvs'.token = nvs.token
      <3>1. /\ [nvs EXCEPT !.ssid = ssid].token = nvs.token
            /\ [nvs EXCEPT !.ssid = ssid, !.url = url].token = nvs.token
        BY Zenon DEF MirrorOK, Settings
      <3>2. QED
        BY <2>1, <3>1 DEF SaveSettings
    <2>4. UNCHANGED task
      BY <2>1 DEF SaveSettings
    <2>5. Withdraws
      BY <2>2 DEF Withdraws, Entered
    <2>6. QED
      BY <1>1, <2>2, <2>3, <2>4, <2>5, GlobalsKept
  <1>4. QED
    BY <1>2, <1>3

-----------------------------------------------------------------------------
(* The specification.                                                      *)

RestOK == /\ press \in PressState /\ server \in Server /\ events \in 0 .. MaxEvents
          /\ cleared \in BOOLEAN

IInv == MirrorOK /\ PhoneOK /\ RestOK /\ Kept

LEMMA IInvTypes == IInv => TypeOK
  BY Zenon DEF IInv, MirrorOK, PhoneOK, RestOK, TypeOK, Task, Radio, Server, Carries

(* The rest of an initial state, whatever the mirror.                      *)
LEMMA InitRest == ASSUME Init, nvs.token \in {None, Old} PROVE RestOK
  <1>1. /\ press = NoPress /\ server = [current |-> nvs.token, used |-> {}]
        /\ events = 0 /\ cleared = FALSE
    BY Zenon DEF Init
  <1>2. press \in PressState
    BY <1>1, Zenon DEF NoPress, PressState
  <1>3. server \in Server
    BY <1>1, SMT DEF Server
  <1>4. events \in 0 .. MaxEvents
    BY <1>1, EventsAssumption
  <1>5. QED
    BY <1>1, <1>2, <1>3, <1>4, Zenon DEF RestOK

LEMMA InitOK == Init => IInv
  <1> SUFFICES ASSUME Init PROVE IInv
    OBVIOUS
  <1>1. PhoneOK
    <2>0. 0 \in 0 .. Attempts
      BY AttemptsAssumption
    <2>1. Begin \in Phone
      BY <2>0, Zenon DEF Begin, Phone, Steps, Stages
    <2>2. Begin.step = "discover"
      BY DEF Begin
    <2>3. QED
      BY <2>1, <2>2 DEF Init, PhoneOK, Attempted, Over
  <1>2. CASE /\ nvs = Erased
             /\ m = [Discoverable(PoweredOff) EXCEPT !.service = "up"]
             /\ task = [NoTask EXCEPT !.pc = "tick"]
             /\ radio = [driver |-> None, want |-> FALSE, up |-> FALSE]
    <2> DEFINE d == Discoverable(PoweredOff)
    <2>1. /\ d \in Mirror /\ d.state = "pairing" /\ d.confirmed = FALSE
          /\ d.payload = None /\ d.result = "awaiting_confirm" /\ ~d.released
      BY Constants, DiscoverableFields DEF PoweredOff
    <2> HIDE DEF d
    <2>2. m = [d EXCEPT !.service = "up"]
      BY <1>2 DEF d
    <2>3. m \in Mirror
      BY <2>1, <2>2, Zenon DEF Mirror
    <2>4. /\ m.state = "pairing" /\ m.confirmed = FALSE
          /\ m.payload = None /\ m.result = "awaiting_confirm" /\ ~m.released
      BY <2>1, <2>2, Zenon DEF Mirror
    <2>5. task = NewTask /\ task.pc = "tick" /\ task.token = None /\ task \in Task
      BY <1>2, TaskFields, Constants DEF NewTask
    <2>6. radio \in Radio /\ ~radio.up
      BY <1>2 DEF Radio
    <2>7. nvs \in Settings /\ nvs.token = None
      BY <1>2, Constants DEF Erased
    <2>8. MirrorOK
      BY <2>3, <2>4, <2>5, <2>6, <2>7 DEF MirrorOK, Carries
    <2>9. Kept
      BY <2>4, <2>5, <2>7 DEF Kept, UrlFirst, Addressed, Claimed, Current, Working, Entered
    <2>10. RestOK
      BY <2>7, InitRest
    <2>11. QED
      BY <1>1, <2>8, <2>9, <2>10 DEF IInv
  <1>3. CASE /\ nvs = [token |-> Old, url |-> TRUE, ssid |-> Good, boot |-> FALSE]
             /\ m = PoweredOff /\ task = NoTask
             /\ radio = [driver |-> Good, want |-> TRUE, up |-> TRUE]
    <2>1. /\ m \in Mirror /\ m.state = "idle" /\ m.confirmed = FALSE
          /\ m.result = "awaiting_confirm" /\ ~m.released
      BY <1>3, Constants DEF PoweredOff
    <2>2. task.pc = "none" /\ task.token = None /\ task \in Task
      BY <1>3, TaskFields, Constants
    <2>3. radio \in Radio /\ radio.driver = Good
      BY <1>3 DEF Radio
    <2>4. nvs \in Settings /\ nvs.token = Old /\ nvs.url
      BY <1>3 DEF Settings
    <2>5. MirrorOK
      BY <2>1, <2>2, <2>3, <2>4 DEF MirrorOK, Carries
    <2>6. Kept
      BY <2>1, <2>2, <2>4 DEF Kept, UrlFirst, Addressed, Claimed, Current, Working, Entered
    <2>7. RestOK
      BY <2>4, InitRest
    <2>8. QED
      BY <1>1, <2>5, <2>6, <2>7 DEF IInv
  <1>4. QED
    BY <1>2, <1>3 DEF Init

(* What a step that leaves the mirror, or the phone, alone preserves.      *)
LEMMA MirrorStays ==
    ASSUME MirrorOK, Kept, UNCHANGED mirrorVars, UNCHANGED <<server, cleared>>
    PROVE  MirrorOK' /\ Kept'
  <1>1. MirrorOK'
    BY DEF MirrorOK, Carries
  <1>2. Kept'
    BY DEF Kept, UrlFirst, Addressed, Claimed, Current, InForce, Entered
  <1>3. QED
    BY <1>1, <1>2

LEMMA PhoneStays == ASSUME PhoneOK, UNCHANGED phone PROVE PhoneOK'
  BY DEF PhoneOK, Attempted, Over

LEMMA RestStays ==
    ASSUME RestOK, UNCHANGED press, Undisturbed
    PROVE  RestOK'
  BY DEF RestOK, Undisturbed

LEMMA GoesOK ==
    ASSUME press \in PressState, NEW r \in Runners, NEW busy \in BOOLEAN,
           NEW pc \in {"rest", "confirm", "go", "shoot", "spool"}, Goes(r, pc, busy)
    PROVE  press' \in PressState
  BY Zenon DEF Goes, PressState

LEMMA PressOK ==
    ASSUME press \in PressState, NEW r \in Runners, PressStep(r)
    PROVE  press' \in PressState
  <1>1. press.busy \in BOOLEAN
    BY DEF PressState
  <1>2. QED
    BY <1>1, GoesOK DEF PressStep, Confirmed, Countdown, Shutter, ToFlash, Runners

LEMMA NoPressOK == NoPress \in PressState
  BY Zenon DEF NoPress, PressState

(* A start of the mirror takes the phone's session and the presses with it. *)
LEMMA RestartOK ==
    ASSUME MirrorOK, PhoneOK, Kept, Boot(nvs) \/ Started(nvs), Restarted,
           UNCHANGED <<server, cleared>>
    PROVE  MirrorOK' /\ PhoneOK' /\ Kept' /\ press' \in PressState
  <1>1. Started(nvs)
    BY BootEffect DEF MirrorOK
  <1>2. QED
    BY <1>1, StartedOK, StartedKept, LessOK, NoPressOK DEF Restarted

-----------------------------------------------------------------------------
(* The steps of Next, each with what the app may conclude from it.         *)

Promised == phone'.step = "success" /\ phone.step # "success" => InForce

LEMMA TaskStepOK == ASSUME IInv, TaskStep PROVE IInv' /\ Promised
  <1>0. Remembers /\ cleared' \in BOOLEAN
    BY DEF TaskStep, Remembers
  <1>1. PhoneOK' /\ Promised
    BY PhoneStays DEF TaskStep, IInv, Promised
  <1>2. CASE TaskAlone /\ UNCHANGED server
    BY <1>0, <1>1, <1>2, TaskOK, TaskKept DEF TaskStep, IInv, RestOK
  <1>3. CASE RedeemClaim
    BY <1>0, <1>1, <1>3, RedeemKept DEF TaskStep, IInv, RestOK
  <1>4. QED
    BY <1>2, <1>3 DEF TaskStep

LEMMA StationStepOK ==
    ASSUME IInv, EndpointStep \/ StationStep \/ Shutdown \/ Restart
    PROVE  IInv' /\ Promised
  <1>1. CASE StationStep
    <2>1. PhoneOK' /\ Promised /\ RestOK'
      BY <1>1, PhoneStays, RestStays DEF StationStep, IInv, Promised
    <2>2. MirrorOK' /\ Kept'
      BY <1>1, OutsideOK, OutsideKept DEF StationStep, Undisturbed, IInv
    <2>3. QED
      BY <2>1, <2>2 DEF IInv
  <1>2. CASE Shutdown
    <2>1. PhoneOK' /\ Promised /\ RestOK'
      BY <1>2, LessOK, RestStays DEF Shutdown, IInv, Promised
    <2>2. MirrorOK' /\ Kept'
      BY <1>2, OutsideOK, OutsideKept DEF Shutdown, Undisturbed, IInv
    <2>3. QED
      BY <2>1, <2>2 DEF IInv
  <1>3. CASE Restart
    <2>1. MirrorOK' /\ PhoneOK' /\ Kept' /\ press' \in PressState
      BY <1>3, RestartOK DEF Restart, Reboot, Undisturbed, IInv
    <2>2. Promised
      BY <1>3, LessOK DEF Restart, Restarted, IInv, Promised
    <2>3. QED
      BY <1>3, <2>1, <2>2 DEF Restart, Undisturbed, IInv, RestOK
  <1>4. CASE EndpointStep
    <2>1. PhoneOK' /\ Promised /\ RestOK'
      BY <1>4, PhoneStays, RestStays DEF EndpointStep, IInv, Promised
    <2>2. MirrorOK' /\ Kept'
      BY <1>4, PayloadOK, OutsideKept DEF EndpointStep, Undisturbed, IInv
    <2>3. QED
      BY <2>1, <2>2 DEF IInv
  <1>5. QED
    BY <1>1, <1>2, <1>3, <1>4

LEMMA PhoneStepOK == ASSUME IInv, PhoneStep PROVE IInv' /\ Promised
  <1>1. RestOK'
    BY RestStays DEF PhoneStep, IInv
  <1>2. CASE MirrorAlone
    <2>1. MirrorOK' /\ Kept'
      BY <1>2, MirrorStays DEF PhoneStep, MirrorAlone, Undisturbed, IInv
    <2>2. CASE Found \/ Connected \/ Minted \/ Replied
      BY <1>1, <2>1, <2>2, MoreOK DEF IInv, Promised
    <2>3. CASE Reaches /\ Result(m.result)
      <3>1. PhoneOK' /\ (phone'.step = "success" => m.result = "claimed")
        BY <2>3, ResultOK DEF IInv
      <3>2. Promised
        BY <2>3, <3>1 DEF PhoneStep, Reaches, IInv, Kept, Current, Entered, Promised
      <3>3. QED
        BY <1>1, <2>1, <3>1, <3>2 DEF IInv
    <2>4. CASE PhoneGivesUp
      BY <1>1, <2>1, <2>4, LessOK DEF PhoneGivesUp, IInv, Promised
    <2>5. CASE SendPayload \/ SendCredentials
      <3>1. PhoneOK' /\ Promised
        BY <2>5, MoreOK, LessOK DEF SendPayload, SendCredentials, Sending, Running, IInv, Promised
      <3>2. QED
        BY <1>1, <2>1, <3>1 DEF IInv
    <2>6. QED
      BY <2>2, <2>3, <2>4, <2>5 DEF PhoneStep
  <1>3. CASE SendPayload
    <2>1. phone.attempt \in Tokens
      BY <1>3 DEF SendPayload, PayloadSent, Sending, Running, IInv, PhoneOK, Attempted
    <2>2. MirrorOK' /\ Kept'
      BY <1>3, <2>1, PayloadOK, OutsideKept DEF SendPayload, PhoneStep, Undisturbed, IInv
    <2>3. PhoneOK' /\ Promised
      BY <1>3, MoreOK DEF SendPayload, IInv, Promised
    <2>4. QED
      BY <1>1, <2>2, <2>3 DEF IInv
  <1>4. CASE SendCredentials
    <2>1. PICK c \in {Good, Bad}, joined \in BOOLEAN : ReceiveCredentials(c, joined)
      BY <1>4 DEF SendCredentials
    <2>2. MirrorOK' /\ Kept'
      BY <2>1, CredentialsOK, OutsideKept DEF PhoneStep, Undisturbed, IInv
    <2>3. PhoneOK' /\ Promised
      BY <1>4, MoreOK, LessOK DEF SendCredentials, Sending, Running, IInv, Promised
    <2>4. QED
      BY <1>1, <2>2, <2>3 DEF IInv
  <1>5. QED
    BY <1>2, <1>3, <1>4 DEF PhoneStep, PhoneGivesUp

LEMMA PeopleOK == ASSUME IInv, Taps \/ Confirms \/ (\E r \in Runners : PressStep(r)) PROVE IInv' /\ Promised
  <1>1. CASE Taps
    <2>1. RestOK' /\ MirrorOK' /\ Kept'
      BY <1>1, RestStays, MirrorStays DEF Taps, MirrorAlone, Undisturbed, IInv
    <2>2. PhoneOK' /\ Promised
      BY <1>1, TapsOK DEF Taps, IInv, Promised
    <2>3. QED
      BY <2>1, <2>2 DEF IInv
  <1>2. CASE Confirms
    <2>1. UNCHANGED mirrorVars
      BY <1>2 DEF Confirms, ConfirmPress
    <2>2. MirrorOK' /\ Kept' /\ PhoneOK' /\ Promised
      BY <1>2, <2>1, MirrorStays, PhoneStays DEF Confirms, Undisturbed, IInv, Promised
    <2>3. press.busy \in BOOLEAN
      BY DEF IInv, RestOK, PressState
    <2>4. RestOK'
      BY <1>2, <2>3, GoesOK DEF Confirms, ConfirmPress, Runners, Undisturbed, IInv, RestOK
    <2>5. QED
      BY <2>2, <2>4 DEF IInv
  <1>3. ASSUME NEW r \in Runners, PressStep(r) PROVE IInv' /\ Promised
    <2>1. RestOK'
      BY <1>3, PressOK DEF PressStep, Undisturbed, IInv, RestOK
    <2>2. PhoneOK' /\ Promised
      BY <1>3, PhoneStays DEF PressStep, IInv, Promised
    <2>3. CASE Confirmed
      BY <1>3, <2>1, <2>2, <2>3, OutsideOK, OutsideKept DEF PressStep, Undisturbed, IInv
    <2>4. CASE UNCHANGED mirrorVars
      BY <1>3, <2>1, <2>2, <2>4, MirrorStays DEF PressStep, Undisturbed, IInv
    <2>5. QED
      BY <1>3, <2>3, <2>4 DEF PressStep, Countdown, Shutter, ToFlash
  <1>4. QED
    BY <1>1, <1>2, <1>3

LEMMA FaultOK == ASSUME IInv, Fault PROVE IInv' /\ Promised
  <1>1. RestOK'
    BY RestStays DEF Fault, IInv
  <1>2. CASE Disconnected \/ StoreFails
    <2>1. PhoneOK' /\ Promised
      BY <1>2, PhoneStays, LessOK DEF Fault, IInv, Promised
    <2>2. MirrorOK'
      BY <1>2, OutsideOK DEF IInv
    <2>3. Kept'
      <3>1. CASE Disconnected
        BY <3>1, OutsideKept DEF Fault, Undisturbed, IInv
      <3>2. CASE StoreFails
        <4>1. Addressed => Addressed'
          BY <3>2, Zenon DEF StoreFails, Fail, Fault, Undisturbed, Addressed
        <4>2. QED
          BY <3>2, <4>1, FailKept DEF StoreFails, IInv
      <3>3. QED
        BY <1>2, <3>1, <3>2
    <2>4. QED
      BY <1>1, <2>1, <2>2, <2>3 DEF IInv
  <1>3. CASE phone' = Unlinked /\ MirrorAlone
    BY <1>1, <1>3, MirrorStays, LessOK DEF Fault, MirrorAlone, Undisturbed, IInv, Promised
  <1>4. QED
    BY <1>2, <1>3 DEF Fault

LEMMA EventOK == ASSUME IInv, Events PROVE IInv' /\ Promised
  <1>1. events' \in 0 .. MaxEvents /\ UNCHANGED server
    BY EventsAssumption DEF Events, IInv, RestOK
  <1>2. CASE /\ PowerLoss \/ (HoldFive /\ m.released)
             /\ Restarted /\ UNCHANGED cleared
    <2>1. Boot(nvs) \/ Started(nvs)
      BY <1>2, LongPressEffect DEF PowerLoss, HoldFive, IInv
    <2>2. MirrorOK' /\ PhoneOK' /\ Kept' /\ press' \in PressState
      BY <1>1, <1>2, <2>1, RestartOK DEF IInv
    <2>3. Promised
      BY <1>2, LessOK DEF Restarted, IInv, Promised
    <2>4. QED
      BY <1>1, <1>2, <2>2, <2>3 DEF IInv, RestOK
  <1>3. CASE /\ Erases \/ Saves
             /\ cleared' = ((nvs.url \/ cleared) /\ ~nvs'.url)
             /\ UNCHANGED phone
    <2>1. MirrorOK' /\ Kept'
      BY <1>1, <1>3, OutsideOK, PersonKept DEF IInv
    <2>2. PhoneOK' /\ Promised
      BY <1>3, PhoneStays DEF IInv, Promised
    <2>3. UNCHANGED press /\ cleared' \in BOOLEAN
      BY <1>3 DEF Erases, Saves, HoldTwenty
    <2>4. QED
      BY <1>1, <2>1, <2>2, <2>3 DEF IInv, RestOK
  <1>4. CASE HoldFive /\ ~m.released /\ UNCHANGED <<phone, cleared>>
    <2>1. Afresh(m, task) /\ UNCHANGED <<nvs, radio>>
      BY <1>4, LongPressEffect DEF HoldFive, IInv
    <2>2. MirrorOK' /\ Kept'
      BY <1>1, <1>4, <2>1, AfreshOK, AfreshKept DEF IInv
    <2>3. PhoneOK' /\ Promised /\ UNCHANGED press
      BY <1>4, PhoneStays DEF HoldFive, IInv, Promised
    <2>4. QED
      BY <1>1, <1>4, <2>2, <2>3 DEF IInv, RestOK
  <1>5. CASE (CapturePress \/ HttpPress) /\ UNCHANGED <<phone, cleared>>
    <2>1. press.busy \in BOOLEAN
      BY DEF IInv, RestOK, PressState
    <2>2. press' \in PressState
      BY <1>5, <2>1, GoesOK DEF CapturePress, HttpPress, Runners, IInv, RestOK
    <2>3. MirrorOK' /\ Kept' /\ PhoneOK' /\ Promised
      BY <1>1, <1>5, MirrorStays, PhoneStays DEF CapturePress, HttpPress, IInv, Promised
    <2>4. QED
      BY <1>1, <1>5, <2>2, <2>3 DEF IInv, RestOK
  <1>6. CASE StartOver /\ MirrorAlone /\ UNCHANGED <<press, cleared>>
    BY <1>1, <1>6, MirrorStays, LessOK DEF MirrorAlone, IInv, RestOK, Promised
  <1>7. QED
    BY <1>2, <1>3, <1>4, <1>5, <1>6 DEF Events, Event

LEMMA NextOK == ASSUME IInv, [Next]_vars PROVE IInv' /\ Promised
  <1>1. CASE UNCHANGED vars
    BY <1>1, MirrorStays, PhoneStays, RestStays DEF vars, Undisturbed, IInv, Promised
  <1>2. QED
    BY <1>1, TaskStepOK, StationStepOK, PhoneStepOK, PeopleOK, FaultOK, EventOK DEF Next

-----------------------------------------------------------------------------
(* The inductive invariant of every behaviour: beside the types, what the  *)
(* tasks that share the globals of mirror_pair.c rely on.                  *)
THEOREM InvariantOK == Spec => []IInv
  <1>1. IInv /\ [Next]_vars => IInv'
    BY NextOK
  <1>2. QED
    BY InitOK, <1>1, PTL DEF Spec

(* Every variable keeps its type, an address means the network is the good *)
(* one, released Bluetooth memory means no service, and the task carries a *)
(* device token exactly while it stores one (redeem_claim).                *)
THEOREM TypeCorrect == Spec => []TypeOK
  BY InvariantOK, IInvTypes, PTL

(* "The token is written last" (redeem_claim): whichever write fails and   *)
(* whenever power goes, a mirror that counts as claimed has its server's   *)
(* address, unless a person took it away and none was given since.         *)
THEOREM TokenIsLast == Spec => []TokenLast
  <1>1. IInv => TokenLast
    BY DEF IInv, Kept, UrlFirst, Addressed, TokenLast
  <1>2. QED
    BY InvariantOK, <1>1, PTL

(* When the app reports success (awaitConfirmation), the mirror has the    *)
(* token the server accepts in flash, or is restarting.                    *)
THEOREM SuccessMeansStored == Spec => SuccessIsStored
  <1>1. IInv /\ [Next]_vars
          => [phone'.step = "success" /\ phone.step # "success"
                => m.reboot \/ (Claimed /\ nvs.token = server.current)]_vars
    BY NextOK DEF Promised, InForce
  <1>2. QED
    BY InvariantOK, <1>1, PTL DEF Spec, SuccessIsStored
=============================================================================
