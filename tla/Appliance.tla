----------------------------- MODULE Appliance -----------------------------
(***************************************************************************)
(* The capture appliance as its runtime drives it                          *)
(* (crates/mirror-core/runtime.rs over the host adapters): the loop polls  *)
(* the button, the provisioning link and the clock, feeds each event to    *)
(* the machine and carries out the commands it answers with, one after     *)
(* another, on a device that may lose power at any point and a network     *)
(* that may refuse a request or lose its answer.                           *)
(*                                                                         *)
(* A device token is named by the payload whose claim token it was issued  *)
(* for: a claim token is redeemed once.  A capture is named by a number,   *)
(* in the order of capture; capture ids sort that way.                     *)
(***************************************************************************)
EXTENDS Gesture, Machine, FiniteSets, FiniteSetsExt

CONSTANTS HouseholdOf, \* the household a payload's claim token is minted for
          MaxShots,    \* bound on the captures taken
          MaxInbox     \* bound on the payloads that wait on the link

ASSUME PayloadAssumption == /\ IsFiniteSet(Creds) /\ None \notin Creds
                            /\ DOMAIN HouseholdOf = Creds
ASSUME NoneAssumption    == None \notin Nat \cup Window \cup Gestures \cup [creds : Creds, token : Creds]
ASSUME BoundAssumption   == MaxShots \in Nat /\ MaxInbox \in Nat

VARIABLES
    stage,    \* "off", or what the loop polls next: "button", "link", "tick"
    st,       \* the machine's state
    detector, \* the gesture detector
    queue,    \* events not handled yet
    cmds,     \* commands of the last event not carried out yet
    ram,      \* Runtime: credentials, claimed, provisioned
    flash,    \* the store's provisioned.json
    spool,    \* the store's captures
    shots,    \* captures taken so far
    inbox,    \* payloads the link received
    link,     \* the provisioning link is open
    server    \* bound: token of this device id; accepted: tokens the server takes;
              \* redeemed: claim tokens consumed; photos: captures it acknowledged

loop   == <<stage, st, detector, queue, cmds>>
stored == <<flash, spool, shots>>
vars   == <<loop, ram, stored, inbox, link, server>>

Shots       == 1..MaxShots
Provisioned == [creds : Creds, token : Creds]
NewRam      == [credentials |-> None, claimed |-> None, provisioned |-> None]

On    == stage # "off"
Quiet == On /\ queue = << >> /\ cmds = << >>

Init ==
    /\ stage = "off" /\ st = Unprovisioned /\ detector = NewDetector
    /\ queue = << >> /\ cmds = << >> /\ ram = NewRam
    /\ flash = None /\ spool = {} /\ shots = 0 /\ inbox = << >> /\ link = FALSE
    /\ server = [bound |-> None, accepted |-> {}, redeemed |-> {}, photos |-> {}]

-----------------------------------------------------------------------------
(* Power, and the loop: boot, then button, link and tick over and over.    *)

(* A store that cannot be read counts as an empty one.                     *)
Boot ==
    /\ ~On
    /\ \E provisioned \in {flash, None} :
         /\ ram' = [NewRam EXCEPT !.provisioned = provisioned]
         /\ queue' = <<Event(IF provisioned = None THEN "BootNew" ELSE "BootProvisioned")>>
    /\ stage' = "button"
    /\ UNCHANGED <<st, detector, cmds, stored, inbox, link, server>>

PowerOff ==
    /\ stage' = "off" /\ st' = Unprovisioned /\ detector' = NewDetector
    /\ queue' = << >> /\ cmds' = << >> /\ ram' = NewRam /\ inbox' = << >> /\ link' = FALSE

PowerLoss == On /\ PowerOff /\ UNCHANGED <<stored, server>>

Elapse ==
    /\ On
    /\ st' = OlderState(st) /\ detector' = Older(detector)
    /\ UNCHANGED <<stage, queue, cmds, ram, stored, inbox, link, server>>

PollGesture(pressed) ==
    /\ Quiet /\ stage = "button"
    /\ LET polled == PollButton(detector, pressed)
       IN  /\ detector' = polled.detector
           /\ queue' = IF polled.gesture = None THEN << >> ELSE <<Event(polled.gesture)>>
    /\ stage' = "link"
    /\ UNCHANGED <<st, cmds, ram, stored, inbox, link, server>>

PollCredentials ==
    /\ Quiet /\ stage = "link"
    /\ queue' = IF inbox = << >> THEN << >> ELSE <<Credentials(Head(inbox))>>
    /\ inbox' = IF inbox = << >> THEN << >> ELSE Tail(inbox)
    /\ stage' = "tick"
    /\ UNCHANGED <<st, detector, cmds, ram, stored, link, server>>

PollTick ==
    /\ Quiet /\ stage = "tick"
    /\ queue' = <<Event("Tick")>> /\ stage' = "button"
    /\ UNCHANGED <<st, detector, cmds, ram, stored, inbox, link, server>>

(* The phone posts a payload; the listener takes it in any state.          *)
PhoneSends(c) ==
    /\ link /\ Len(inbox) < MaxInbox
    /\ inbox' = Append(inbox, c)
    /\ UNCHANGED <<loop, ram, stored, link, server>>

(* Runtime::dispatch: the credentials are kept before the machine decides. *)
RememberCredentials(e) ==
    IF e.kind = "Credentials" THEN [ram EXCEPT !.credentials = e.creds] ELSE ram

Dispatch ==
    /\ On /\ cmds = << >> /\ queue # << >>
    /\ LET e == Head(queue)
           outcome == Handle(st, e)
       IN  st' = outcome.state /\ cmds' = outcome.commands /\ ram' = RememberCredentials(e)
    /\ queue' = Tail(queue)
    /\ UNCHANGED <<stage, detector, stored, inbox, link, server>>

-----------------------------------------------------------------------------
(* Runtime::run, one action per command.                                   *)

Running(op) == On /\ cmds # << >> /\ Head(cmds).op = op
Answer(kind) == queue' = Append(queue, Event(kind)) /\ cmds' = Tail(cmds)
NoAnswer     == cmds' = Tail(cmds) /\ UNCHANGED queue
RunStep      == UNCHANGED <<stage, st, detector, inbox>>

(* The listener may fail to bind; an open one stays.                       *)
RunStartProvisioning ==
    /\ Running("StartProvisioning") /\ NoAnswer /\ link' \in {TRUE, link}
    /\ RunStep /\ UNCHANGED <<ram, stored, server>>

RunStopProvisioning ==
    /\ Running("StopProvisioning") /\ NoAnswer /\ link' = FALSE
    /\ RunStep /\ UNCHANGED <<ram, stored, server>>

RunReport ==
    /\ \E op \in {"ReportAwaitingConfirm", "ReportClaimed", "ReportFailed"} : Running(op)
    /\ NoAnswer /\ RunStep /\ UNCHANGED <<ram, stored, link, server>>

RunJoinWifi ==
    /\ Running("JoinWifi") /\ \E kind \in {"WifiUp", "WifiFailed"} : Answer(kind)
    /\ RunStep /\ UNCHANGED <<ram, stored, link, server>>

(* DeviceRegistry::claim: a token is redeemed once, and a device bound to  *)
(* one household is not claimed by another.                                *)
Grants(c) == /\ c \notin server.redeemed
             /\ server.bound # None => HouseholdOf[server.bound] = HouseholdOf[c]
Granted(c) == [server EXCEPT !.bound = c, !.redeemed = @ \cup {c},
                             !.accepted = (@ \ {server.bound}) \cup {c}]

(* Mutant: a second claim in one session keeps the first answer.           *)
BugKeepsFirstClaim ==
    /\ Running("RedeemClaim")
    /\ LET c == Head(cmds).creds
       IN  \/ Grants(c) /\ server' = Granted(c) /\ Answer("ClaimAccepted")
              /\ ram' = [ram EXCEPT !.claimed = IF @ = None THEN c ELSE @]
           \/ Answer("ClaimRejected") /\ UNCHANGED <<ram, server>>
    /\ RunStep /\ UNCHANGED <<stored, link>>

(* The claim is answered, or refused, or its answer is lost.               *)
RunRedeemClaim ==
    /\ Running("RedeemClaim")
    /\ LET c == Head(cmds).creds
       IN  \/ Grants(c) /\ server' = Granted(c) /\ Answer("ClaimAccepted")
              /\ ram' = [ram EXCEPT !.claimed = c]
           \/ Grants(c) /\ server' = Granted(c) /\ Answer("ClaimRejected") /\ UNCHANGED ram
           \/ Answer("ClaimRejected") /\ UNCHANGED <<ram, server>>
    /\ RunStep /\ UNCHANGED <<stored, link>>

(* The save is one rename: it happens whole or not at all.                 *)
RunPersist ==
    /\ Running("PersistProvisioned") /\ NoAnswer
    /\ LET new == [creds |-> ram.credentials, token |-> ram.claimed]
       IN  \/ /\ ram.credentials # None /\ ram.claimed # None
              /\ flash' = new /\ ram' = [ram EXCEPT !.provisioned = new]
           \/ UNCHANGED <<flash, ram>>
    /\ RunStep /\ UNCHANGED <<spool, shots, link, server>>

RunCapture ==
    /\ Running("Capture")
    /\ \/ /\ shots < MaxShots /\ Answer("CaptureCommitted")
          /\ shots' = shots + 1 /\ spool' = spool \cup {shots + 1}
       \/ Answer("CaptureFailed") /\ UNCHANGED <<shots, spool>>
    /\ RunStep /\ UNCHANGED <<ram, flash, link, server>>

Draining(todo, ok) == [op |-> "Draining", todo |-> todo, ok |-> ok]

(* Runtime::drain: without a token, or when the listing fails, no upload.  *)
RunDrainQueue ==
    /\ Running("DrainQueue")
    /\ \/ Answer("UploadFailed")
       \/ /\ ram.provisioned # None
          /\ cmds' = <<Draining(spool, TRUE)>> \o Tail(cmds) /\ UNCHANGED queue
    /\ RunStep /\ UNCHANGED <<ram, stored, link, server>>

(* Mutant: the capture is removed whatever the server answered.            *)
BugRemoveUnacked ==
    /\ Running("Draining") /\ Head(cmds).todo # {}
    /\ LET d == Head(cmds)
           p == Min(d.todo)
       IN  cmds' = <<Draining(d.todo \ {p}, d.ok)>> \o Tail(cmds) /\ spool' = spool \ {p}
    /\ RunStep /\ UNCHANGED <<queue, ram, flash, shots, link, server>>

(* One capture, oldest first.  The server may acknowledge it, and then the *)
(* removal may fail; the answer may be lost; or nothing reaches it.        *)
DrainOne ==
    /\ Running("Draining")
    /\ LET d == Head(cmds)
           p == Min(d.todo)
           Next1(ok) == cmds' = <<Draining(d.todo \ {p}, d.ok /\ ok)>> \o Tail(cmds)
           Uploaded  == /\ ram.provisioned.token \in server.accepted
                        /\ server' = [server EXCEPT !.photos = @ \cup {p}]
       IN  /\ d.todo # {}
           /\ \/ Uploaded /\ spool' = spool \ {p} /\ Next1(TRUE)
              \/ Uploaded /\ Next1(FALSE) /\ UNCHANGED spool
              \/ Next1(FALSE) /\ UNCHANGED <<spool, server>>
    /\ RunStep /\ UNCHANGED <<queue, ram, flash, shots, link>>

(* Mutant: only a clean drain is answered.                                 *)
BugSilentFailure ==
    /\ Running("Draining") /\ Head(cmds).todo = {}
    /\ IF Head(cmds).ok THEN Answer("UploadSucceeded") ELSE NoAnswer
    /\ RunStep /\ UNCHANGED <<ram, stored, link, server>>

DrainEnds ==
    /\ Running("Draining") /\ Head(cmds).todo = {}
    /\ Answer(IF Head(cmds).ok THEN "UploadSucceeded" ELSE "UploadFailed")
    /\ RunStep /\ UNCHANGED <<ram, stored, link, server>>

(* Store::erase_all removes the whole tree, provisioned.json, captures and *)
(* device id, and mints a new id; a failure leaves any part of it.         *)
RunEraseAll ==
    /\ Running("EraseAll") /\ NoAnswer
    /\ flash' \in {None, flash} /\ spool' \in SUBSET spool
    /\ server' \in {server, [server EXCEPT !.bound = None]}
    /\ ram' = NewRam
    /\ RunStep /\ UNCHANGED <<shots, link>>

RunReboot == Running("Reboot") /\ PowerOff /\ UNCHANGED <<stored, server>>

Work ==
    \/ Dispatch \/ RunStartProvisioning \/ RunStopProvisioning \/ RunReport \/ RunJoinWifi
    \/ RunRedeemClaim \/ RunPersist \/ RunCapture \/ RunDrainQueue \/ DrainOne \/ DrainEnds
    \/ RunEraseAll \/ RunReboot

Poll3 == (\E pressed \in BOOLEAN : PollGesture(pressed)) \/ PollCredentials \/ PollTick

Next == Boot \/ PowerLoss \/ Elapse \/ Poll3 \/ (\E c \in Creds : PhoneSends(c)) \/ Work

Spec == Init /\ [][Next]_vars

-----------------------------------------------------------------------------
Ops == {"StartProvisioning", "StopProvisioning", "ReportAwaitingConfirm", "ReportClaimed",
        "ReportFailed", "PersistProvisioned", "DrainQueue", "Capture", "EraseAll", "Reboot"}
Commands == [op : Ops] \cup [op : {"JoinWifi", "RedeemClaim"}, creds : Creds]
            \cup [op : {"Draining"}, todo : SUBSET Shots, ok : BOOLEAN]

(* Every variable has its type; the machine is in one of its states with   *)
(* an armed reset never nested in another.                                 *)
TypeOK ==
    /\ stage \in {"off", "button", "link", "tick"}
    /\ st \in States /\ detector \in Detector
    /\ queue \in Seq(Events) /\ cmds \in Seq(Commands)
    /\ ram.credentials \in Creds \cup {None} /\ ram.claimed \in Creds \cup {None}
    /\ {ram.provisioned, flash} \subseteq Provisioned \cup {None}
    /\ spool \subseteq Shots /\ shots \in 0..MaxShots
    /\ inbox \in Seq(Creds) /\ Len(inbox) <= MaxInbox /\ link \in BOOLEAN
    /\ server.bound \in Creds \cup {None} /\ server.photos \subseteq Shots
    /\ server.accepted \subseteq server.redeemed /\ server.redeemed \subseteq Creds

(* Between polls the machine never waits for an answer nobody will give:   *)
(* Joining, Claiming, Capturing and Uploading end within the dispatch that *)
(* entered them, whatever the network and the store answer.                *)
NeverStranded ==
    Quiet => st \in Resting \/ (st.kind = "ResetArmed" /\ st.previous \in Resting)

(* The detector and the machine agree on whether a reset is armed: neither *)
(* a click, an expiry nor a restart leaves one armed without the other.    *)
ArmedTogether == Quiet => (Armed(detector) <=> st.kind = "ResetArmed")

(* The link is open only while the machine is pairing, so a phone's        *)
(* payload cannot arrive at a mirror that is in use.                       *)
Base(s) == IF s.kind = "ResetArmed" THEN s.previous ELSE s
LinkOnlyWhilePairing ==
    (Quiet /\ link) => Base(st).kind \in {"Pairing", "AwaitingConfirm"}

Erasing == Running("EraseAll")

(* A capture leaves the spool only once the server has it, or in a full    *)
(* reset; no failed upload, lost answer, power cut or re-pairing drops it. *)
CaptureKept == [][\A p \in spool \ spool' : p \in server'.photos \/ Erasing]_vars

(* Credentials in flash are replaced only by those of a claim that the     *)
(* server granted and still stands by, and removed only by a full reset.   *)
OldCredentialsSurvive ==
    [][flash' # flash => IF flash' = None THEN Erasing ELSE flash'.token = server.bound]_vars

(* The plan: the press accepts the phone that just sent credentials.  The  *)
(* credentials stored are those of the payload that was confirmed, the one *)
(* the token was issued for.                                               *)
PersistedWasConfirmed == flash # None => flash.creds = flash.token
=============================================================================
