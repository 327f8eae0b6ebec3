----------------------------- MODULE MirrorPair -----------------------------
(***************************************************************************)
(* The ESP-IDF mirror while it is being paired: the state that the BLE     *)
(* endpoint, the pairing task, the button task and the settings page share *)
(* (mirror_pair.c), the settings in NVS (mirror_config.c) and the station  *)
(* (mirror_net.c).  Every task runs on its own; the pairing task's         *)
(* sequences are cut where another task can see them half done.  Timers    *)
(* are free to fire at any moment of the state that arms them.             *)
(***************************************************************************)
EXTENDS Naturals

CONSTANTS
  None,          \* nothing stored, nothing received
  Tokens,        \* claim tokens; the device token a claim returns has its name
  Old,           \* the device token of an earlier claim
  Good, Bad      \* credentials that join the household network, and that do not

ASSUME DistinctNames ==
  /\ None \notin Tokens /\ Old \notin Tokens /\ Old # None
  /\ Good # Bad /\ None \notin {Good, Bad}

VARIABLES
  m,             \* the globals of mirror_pair.c, and where its endpoint handler is
  task,          \* the pairing task: where it is, the device token it carries
  nvs,           \* the stored settings; boot is pair_on_boot
  radio          \* what the Wi-Fi driver holds, whether to keep retrying, the address

mirrorVars == <<m, task, nvs, radio>>

PairStates == {"idle", "pairing", "awaiting", "claiming"}
TaskSteps == {"none", "tick", "leaving", "stopped", "unconfirmed", "begun", "joining",
              "redeeming", "url", "token", "adopt", "finish", "failing", "reopening"}
EndpointSteps == {"rest", "copied", "voided", "entered"}
Mirror == [state: PairStates, confirmed: BOOLEAN, service: {"down", "up", "stopping"},
           released: BOOLEAN, payload: Tokens \cup {None},
           result: {"awaiting_confirm", "claimed", "failed"}, reboot: BOOLEAN,
           endpoint: EndpointSteps]
Settings == [token: Tokens \cup {None, Old}, url: BOOLEAN, ssid: {None, Good, Bad}, boot: BOOLEAN]

PoweredOff == [state |-> "idle", confirmed |-> FALSE, service |-> "down", released |-> FALSE,
               payload |-> None, result |-> "awaiting_confirm", reboot |-> FALSE,
               endpoint |-> "rest"]
NoTask == [pc |-> "none", token |-> None]
Erased == [token |-> None, url |-> FALSE, ssid |-> None, boot |-> FALSE]

(* mirror_pair_claimed, mirror_pair_busy *)
Claimed == nvs.token # None
Busy == m.state # "idle"

At(pc) == [task EXCEPT !.pc = pc]

(* mirror_config_set: committed to flash before anyone can read it. *)
Keep(key, value) == nvs' = [nvs EXCEPT ![key] = value]

-----------------------------------------------------------------------------
(* mirror_pair_start, from the globals d: any half-finished attempt is     *)
(* cleared.  The service may refuse to come up, which ends pairing again;  *)
(* and there may be no memory for the task, which does not.                *)

Discoverable(d) == [d EXCEPT !.state = "pairing", !.confirmed = FALSE, !.payload = None,
                             !.result = "awaiting_confirm"]

StartService(d) == IF d.service = "down" THEN {d, [d EXCEPT !.service = "up"]} ELSE {d}

StartPairing(d, t) ==
  \E s \in StartService(Discoverable(d)) :
    IF s.service # "down"
    THEN /\ m' = s
         /\ task' \in IF t.pc # "none" THEN {t} ELSE {NoTask, [NoTask EXCEPT !.pc = "tick"]}
    ELSE m' = [s EXCEPT !.state = "idle"] /\ task' = t

(* mirror_net_start: the station tries the stored network, and only that.  *)
StartStation(ssid) ==
  radio' = [driver |-> IF ssid # None THEN ssid ELSE radio.driver,
            want |-> ssid # None, up |-> FALSE]

WantedAtBoot(n) == n.boot \/ n.token = None

(* app_main on the settings n: the station, and pairing for an unclaimed   *)
(* mirror or one whose button asked for it, once.                          *)
Boot(n) ==
  /\ nvs' = [n EXCEPT !.boot = FALSE]
  /\ StartStation(n.ssid)
  /\ IF WantedAtBoot(n)
     THEN StartPairing(PoweredOff, NoTask)
     ELSE m' = PoweredOff /\ task' = NoTask

(* A hold of five seconds.  A service on its way down is waited for, but   *)
(* not for ever; Bluetooth memory that is gone comes back only with a      *)
(* restart.                                                                *)
LongPress == IF m.released
             THEN Boot([nvs EXCEPT !.boot = TRUE])
             ELSE StartPairing(m, task) /\ UNCHANGED <<nvs, radio>>

PowerLoss == Boot(nvs)

Reboot == m.reboot /\ Boot(nvs)

-----------------------------------------------------------------------------
(* The "daily-mirror" endpoint, on the one task that serves Bluetooth: a   *)
(* payload's token is copied, any press is voided, the confirmation window *)
(* opens in whatever state the mirror is, the answer is written.  The      *)
(* other tasks run in between.  A poll changes nothing and reads result.   *)

PayloadCopied(t) ==
  /\ m.endpoint = "rest"
  /\ m' = [m EXCEPT !.endpoint = "copied", !.payload = t]
  /\ UNCHANGED <<task, nvs, radio>>

PressVoided ==
  /\ m.endpoint = "copied"
  /\ m' = [m EXCEPT !.endpoint = "voided", !.confirmed = FALSE]
  /\ UNCHANGED <<task, nvs, radio>>

WindowOpens ==
  /\ m.endpoint = "voided"
  /\ m' = [m EXCEPT !.endpoint = "entered", !.state = "awaiting"]
  /\ UNCHANGED <<task, nvs, radio>>

PayloadAnswered ==
  /\ m.endpoint = "entered"
  /\ m' = [m EXCEPT !.endpoint = "rest", !.result = "awaiting_confirm"]
  /\ UNCHANGED <<task, nvs, radio>>

(* Mutant: the old address outlives the credentials that earned it. *)
ReceiveCredentialsKeepsAddress(c, joined) ==
  /\ joined => c = Good
  /\ radio' = [radio EXCEPT !.driver = c, !.up = @ \/ joined]
  /\ m' = IF joined THEN m ELSE [m EXCEPT !.result = "failed"]
  /\ UNCHANGED <<task, nvs>>

(* The standard wifi_config exchange: the manager hands the credentials to *)
(* the driver at once; a failed join is reported over the endpoint too.    *)
ReceiveCredentials(c, joined) ==
  /\ joined => c = Good
  /\ radio' = [radio EXCEPT !.driver = c, !.up = joined]
  /\ m' = IF joined THEN m ELSE [m EXCEPT !.result = "failed"]
  /\ UNCHANGED <<task, nvs>>

(* WIFI_PROV_DEINIT, a second after the service was asked to stop. *)
ServiceDown ==
  /\ m.service = "stopping" /\ m.endpoint = "rest"
  /\ m' = [m EXCEPT !.service = "down", !.released = TRUE]
  /\ UNCHANGED <<task, nvs, radio>>

-----------------------------------------------------------------------------
(* The pairing task. *)

(* Five minutes without a payload, or the linger after a claim: leave. *)
(* Mutant: nothing ends the linger after a claim. *)
WindowClosesInPairing ==
  /\ task.pc = "tick" /\ m.state = "pairing"
  /\ m' = [m EXCEPT !.state = "idle"]
  /\ task' = At("leaving")
  /\ UNCHANGED <<nvs, radio>>

WindowCloses ==
  /\ task.pc = "tick" /\ m.state \in {"pairing", "idle"}
  /\ m' = [m EXCEPT !.state = "idle"]
  /\ task' = At("leaving")
  /\ UNCHANGED <<nvs, radio>>

StopService(d) == IF d.service = "up" THEN [d EXCEPT !.service = "stopping"] ELSE d

ServiceStopped ==
  /\ task.pc = "leaving"
  /\ m' = StopService(m)
  /\ task' = At("stopped")
  /\ UNCHANGED <<nvs, radio>>

Leave ==
  /\ task.pc = "stopped"
  /\ task' = NoTask
  /\ UNCHANGED <<m, nvs, radio>>

(* Thirty seconds without the press: report, forget the payload, and back  *)
(* to discoverable, over whatever arrived in between.                      *)
ConfirmTimeout ==
  /\ task.pc = "tick" /\ m.state = "awaiting" /\ ~m.confirmed
  /\ m' = [m EXCEPT !.result = "failed"]
  /\ task' = At("unconfirmed")
  /\ UNCHANGED <<nvs, radio>>

Unconfirmed ==
  /\ task.pc = "unconfirmed"
  /\ m' = [m EXCEPT !.payload = None]
  /\ task' = At("reopening")
  /\ UNCHANGED <<nvs, radio>>

Rediscoverable ==
  /\ task.pc = "reopening"
  /\ m' = [m EXCEPT !.state = "pairing"]
  /\ task' = At("tick")
  /\ UNCHANGED <<nvs, radio>>

(* The press is used up; only then does the state say that a claim runs.   *)
BeginClaim ==
  /\ task.pc = "tick" /\ m.state = "awaiting" /\ m.confirmed
  /\ m' = [m EXCEPT !.confirmed = FALSE]
  /\ task' = At("begun")
  /\ UNCHANGED <<nvs, radio>>

EnterClaiming ==
  /\ task.pc = "begun"
  /\ m' = [m EXCEPT !.state = "claiming"]
  /\ task' = At("joining")
  /\ UNCHANGED <<nvs, radio>>

Joined ==
  /\ task.pc = "joining" /\ radio.up
  /\ task' = At("redeeming")
  /\ UNCHANGED <<m, nvs, radio>>

(* back_to_pairing: the failure is reported, the ring shows it, the press  *)
(* and the payload are forgotten; the state follows.                       *)
Fail == /\ m' = [m EXCEPT !.result = "failed"]
        /\ task' = [NoTask EXCEPT !.pc = "failing"]
        /\ UNCHANGED <<nvs, radio>>

NotJoined == task.pc = "joining" /\ ~radio.up /\ Fail

BackToPairing ==
  /\ task.pc = "failing"
  /\ m' = [m EXCEPT !.confirmed = FALSE, !.payload = None]
  /\ task' = At("reopening")
  /\ UNCHANGED <<nvs, radio>>

(* redeem_claim presents the payload the globals hold when it is called. *)
Redeem(answered) ==
  /\ task.pc = "redeeming"
  /\ IF answered
     THEN task' = [pc |-> "url", token |-> m.payload] /\ UNCHANGED <<m, nvs, radio>>
     ELSE Fail

(* The server's origin, the name and the household; then the token; then   *)
(* the network.  A write of the first three that fails fails the claim,    *)
(* one of the network is only logged.                                      *)
(* Mutant: the token is written first. *)
StoreTokenFirst ==
  /\ task.pc = "url"
  /\ Keep("token", task.token)
  /\ task' = At("token")
  /\ UNCHANGED <<m, radio>>

StoreUrl ==
  /\ task.pc = "url"
  /\ Keep("url", TRUE)
  /\ task' = At("token")
  /\ UNCHANGED <<m, radio>>

StoreToken ==
  /\ task.pc = "token"
  /\ Keep("token", task.token)
  /\ task' = At("adopt")
  /\ UNCHANGED <<m, radio>>

(* Mutant: a write that fails is logged and the claim goes on. *)
StoreFailsLogged ==
  /\ task.pc \in {"url", "token"}
  /\ task' = [NoTask EXCEPT !.pc = "finish"]
  /\ m' = [m EXCEPT !.result = "claimed"]
  /\ UNCHANGED <<nvs, radio>>

StoreFails == task.pc \in {"url", "token"} /\ Fail

ReportClaimed ==
  /\ m' = [m EXCEPT !.result = "claimed"]
  /\ task' = [NoTask EXCEPT !.pc = "finish"]

AdoptNetwork ==
  /\ task.pc = "adopt" /\ radio.driver # None
  /\ Keep("ssid", radio.driver)
  /\ radio' = [radio EXCEPT !.want = TRUE]
  /\ ReportClaimed

AdoptFails ==
  /\ task.pc = "adopt"
  /\ ReportClaimed
  /\ UNCHANGED <<nvs, radio>>

Finish ==
  /\ task.pc = "finish"
  /\ m' = [m EXCEPT !.state = "idle"]
  /\ task' = At("tick")
  /\ UNCHANGED <<nvs, radio>>

-----------------------------------------------------------------------------
(* The station: a disconnect is retried only for credentials that are kept. *)

Disconnected ==
  /\ radio.up
  /\ radio' = [radio EXCEPT !.up = FALSE]
  /\ UNCHANGED <<m, task, nvs>>

GotAddress ==
  /\ ~radio.up /\ radio.want /\ radio.driver = Good
  /\ radio' = [radio EXCEPT !.up = TRUE]
  /\ UNCHANGED <<m, task, nvs>>

-----------------------------------------------------------------------------
(* The settings page and the full reset restart the mirror, a moment after *)
(* the settings changed.  The form may change the credentials, give an     *)
(* address or leave it blank, which erases the one there is; it writes in  *)
(* that order, stops at the first write that fails, and does not restart   *)
(* then.                                                                   *)

SaveSettings(ssid, url) ==
  /\ \/ nvs' = [nvs EXCEPT !.ssid = ssid, !.url = url] /\ m' = [m EXCEPT !.reboot = TRUE]
     \/ nvs' \in {[nvs EXCEPT !.ssid = ssid], [nvs EXCEPT !.ssid = ssid, !.url = url]} /\ m' = m
  /\ UNCHANGED <<task, radio>>

ForgetEverything ==
  /\ nvs' = Erased
  /\ m' = [m EXCEPT !.reboot = TRUE]
  /\ UNCHANGED <<task, radio>>

FactoryReset ==
  /\ nvs' \in {Erased, nvs}                            \* the erase is not checked
  /\ radio' = [driver |-> None, want |-> radio.want, up |-> FALSE]
  /\ m' = [m EXCEPT !.reboot = TRUE]
  /\ UNCHANGED task
=============================================================================
