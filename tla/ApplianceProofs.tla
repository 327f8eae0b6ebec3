--------------------------- MODULE ApplianceProofs ---------------------------
(***************************************************************************)
(* Theorems about Appliance, for any payloads, households, thresholds,     *)
(* timeouts and number of captures: its invariants, and what no step does  *)
(* to captures and credentials.                                            *)
(***************************************************************************)
EXTENDS Appliance, WellFoundedInduction, TLAPS

-----------------------------------------------------------------------------
(* What the least number of a set is.                                      *)

Less == {p \in Nat \X Nat : p[1] < p[2]}

LEMMA LessIsWellFounded == IsWellFoundedOn(Less, Nat)
  BY NatLessThanWellFounded DEF OpToRel, Less

LEMMA LeastExists ==
    ASSUME NEW S \in SUBSET Nat, S # {}
    PROVE  \E x \in S : \A y \in S : x <= y
  <1>1. PICK x \in S : \A y \in S : <<y, x>> \notin Less
    BY LessIsWellFounded, WFMin
  <1>2. ASSUME NEW y \in S PROVE x <= y
    <2>1. <<y, x>> \in Nat \X Nat /\ <<y, x>>[1] = y /\ <<y, x>>[2] = x
      BY Zenon
    <2>2. CASE y < x
      <3>1. <<y, x>> \in Less
        BY <2>1, <2>2, Zenon DEF Less
      <3>2. QED
        BY <1>1, <3>1, Zenon
    <2>3. QED
      BY <2>2
  <1>3. QED
    BY <1>2

LEMMA MinOK ==
    ASSUME NEW S \in SUBSET Nat, S # {}
    PROVE  Min(S) \in S /\ \A y \in S : Min(S) <= y
  BY LeastExists, Zenon DEF Min

-----------------------------------------------------------------------------
(* The inductive invariant.                                                *)

(* The states a poll may find: nothing is awaited from a command.          *)
Restful == Resting \cup {ResetArmed(s) : s \in Resting}

RamRec     == [credentials : Creds \cup {None}, claimed : Creds \cup {None},
               provisioned : Provisioned \cup {None}]
ServerRec  == [bound : Creds \cup {None}, accepted : SUBSET Creds,
               redeemed : SUBSET Creds, photos : SUBSET Shots]

Types ==
    /\ stage \in {"off", "button", "link", "tick"}
    /\ st \in States
    /\ detector \in Detector /\ (detector.window # None => detector.held = None)
    /\ ram \in RamRec /\ flash \in Provisioned \cup {None}
    /\ spool \subseteq Shots /\ shots \in 0..MaxShots
    /\ inbox \in Seq(Creds) /\ Len(inbox) <= MaxInbox /\ link \in BOOLEAN
    /\ server \in ServerRec /\ server.accepted \subseteq server.redeemed

(* What is left of the commands of an event, and the states in which.      *)
Do(op)       == [op |-> op]
With(op, c)  == [op |-> op, creds |-> c]
Claimed      == <<Do("PersistProvisioned"), Do("ReportClaimed"), Do("StopProvisioning"), Drain>>
Claimed2     == <<Do("ReportClaimed"), Do("StopProvisioning"), Drain>>
Claimed3     == <<Do("StopProvisioning"), Drain>>
Erase        == <<Do("EraseAll"), Do("Reboot")>>
Drains       == {<<Drain>>} \cup {<<Draining(todo, ok)>> : todo \in SUBSET Shots, ok \in BOOLEAN}

Script(s, c) ==
    \/ s.kind = "Pairing" /\ c \in {<<Do("StartProvisioning")>>, <<Do("ReportFailed")>>}
    \/ s.kind = "AwaitingConfirm" /\ c = <<Do("ReportAwaitingConfirm")>>
    \/ s.kind = "Joining" /\ c = <<With("JoinWifi", s.creds)>>
    \/ s.kind = "Claiming" /\ c = <<With("RedeemClaim", s.creds)>>
    \/ s.kind = "Capturing" /\ c = <<Do("Capture")>>
    \/ s.kind = "Ready" /\ c \in {Claimed, Claimed2, Claimed3}
    \/ s.kind \in {"Ready", "Uploading"} /\ c \in Drains
    \/ s.kind = "Unprovisioned" /\ c \in {<<Do("StopProvisioning")>>, Erase, <<Do("Reboot")>>}

(* Commands that close the link before they are through.                   *)
Closing == {Claimed, Claimed2, Claimed3, <<Do("StopProvisioning")>>, Erase, <<Do("Reboot")>>}

(* The event that waits, and the states in which it may.                   *)
Awaited(s, e) ==
    /\ e.kind \in {"WifiUp", "WifiFailed"} => s.kind = "Joining"
    /\ e.kind \in {"ClaimAccepted", "ClaimRejected"} => s.kind = "Claiming"
    /\ e.kind \in {"CaptureCommitted", "CaptureFailed"} => s.kind = "Capturing"
    /\ e.kind \in {"UploadSucceeded", "UploadFailed"} => s.kind \in {"Uploading", "Ready"}
    /\ e.kind \notin Answers => s \in Restful
    /\ e.kind \in {"BootNew", "BootProvisioned"} => s = Unprovisioned

(* Whether the detector has a reset armed, given what the machine knows    *)
(* and has not been told yet.                                              *)
InStep(s, e) ==
    /\ e.kind = "ResetArmed" => Armed(detector) /\ s.kind # "ResetArmed"
    /\ e.kind \in {"FullReset", "ResetAborted"} => ~Armed(detector) /\ s.kind = "ResetArmed"
    /\ e.kind \notin {"ResetArmed", "FullReset", "ResetAborted"} =>
         (Armed(detector) <=> s.kind = "ResetArmed")

Course ==
    \/ /\ queue = << >> /\ cmds = << >>
       /\ st \in Restful /\ (Armed(detector) <=> st.kind = "ResetArmed")
    \/ /\ cmds = << >>
       /\ \E e \in Events : queue = <<e>> /\ Awaited(st, e) /\ InStep(st, e)
    \/ /\ queue = << >>
       /\ Script(st, cmds) /\ ~Armed(detector)

(* Off, nothing of it is left.                                             *)
OffClean ==
    ~On => /\ st = Unprovisioned /\ detector = NewDetector
           /\ queue = << >> /\ cmds = << >> /\ link = FALSE

(* The link is open while a phone is to be heard or about to be told.      *)
LinkKept ==
    link => \/ Base(st).kind \in {"Pairing", "AwaitingConfirm", "Joining", "Claiming"}
            \/ cmds \in Closing

(* What is about to be stored is the claim the server stands by.           *)
ClaimStands ==
    cmds = Claimed \/ queue = <<Event("ClaimAccepted")>> => ram.claimed = server.bound

IInv == Types /\ Course /\ OffClean /\ LinkKept /\ ClaimStands

-----------------------------------------------------------------------------
(* The states.                                                             *)

LEMMA Limits ==
    /\ PairingTimeout \in Nat /\ ConfirmTimeout \in Nat /\ CountdownTime \in Nat
    /\ 0 \in 0..PairingTimeout /\ 0 \in 0..ConfirmTimeout /\ 0 \in 0..CountdownTime
  BY TimerAssumption

LEMMA Made ==
    /\ Unprovisioned \in Resting /\ Ready \in Resting /\ Pairing \in Resting
    /\ \A c \in Creds : AwaitingConfirm(c) \in Resting
    /\ \A off \in BOOLEAN : Countdown(off) \in Resting /\ Capturing(off) \in Working
    /\ \A c \in Creds : Joining(c) \in Working /\ Claiming(c) \in Working
    /\ Uploading \in Working
  BY Limits DEF Resting, Working, Unprovisioned, Ready, Pairing, AwaitingConfirm, Countdown,
                Capturing, Joining, Claiming, Uploading

LEMMA MadeKinds ==
    /\ Unprovisioned.kind = "Unprovisioned" /\ Ready.kind = "Ready" /\ Pairing.kind = "Pairing"
    /\ Uploading.kind = "Uploading"
    /\ \A c : AwaitingConfirm(c).kind = "AwaitingConfirm"
    /\ \A off : Countdown(off).kind = "Countdown" /\ Capturing(off).kind = "Capturing"
    /\ \A c : Joining(c).kind = "Joining" /\ Claiming(c).kind = "Claiming"
    /\ \A c : Joining(c).creds = c /\ Claiming(c).creds = c
    /\ \A s : ResetArmed(s).kind = "ResetArmed" /\ ResetArmed(s).previous = s
  BY DEF Unprovisioned, Ready, Pairing, AwaitingConfirm, Countdown,
         Capturing, Joining, Claiming, Uploading, ResetArmed

LEMMA RestingKinds ==
    ASSUME NEW s \in Resting
    PROVE  /\ s.kind \in {"Unprovisioned", "Ready", "Pairing", "AwaitingConfirm", "Countdown"}
           /\ s.kind = "Unprovisioned" => s = Unprovisioned
           /\ s.kind = "Ready" => s = Ready
           /\ s.kind = "Pairing" => s \in [kind : {"Pairing"}, age : 0..PairingTimeout]
           /\ s.kind = "AwaitingConfirm" =>
                s \in [kind : {"AwaitingConfirm"}, age : 0..ConfirmTimeout, creds : Creds]
           /\ s.kind = "Countdown" =>
                s \in [kind : {"Countdown"}, age : 0..CountdownTime, offline : BOOLEAN]
  BY DEF Resting, Unprovisioned, Ready

LEMMA WorkingKinds ==
    ASSUME NEW s \in Working
    PROVE  /\ s.kind \in {"Uploading", "Joining", "Claiming", "Capturing"}
           /\ s.kind \in {"Joining", "Claiming"} => s.creds \in Creds
           /\ s.kind = "Capturing" => s.offline \in BOOLEAN
  BY DEF Working, Uploading

LEMMA StateKinds ==
    ASSUME NEW s \in States
    PROVE  /\ s.kind = "ResetArmed" <=> s \notin Resting /\ s \notin Working
           /\ s.kind = "ResetArmed" => s.previous \in Resting /\ s = ResetArmed(s.previous)
           /\ s \in Restful <=> s \notin Working
           /\ s \in Working <=> s.kind \in {"Uploading", "Joining", "Claiming", "Capturing"}
           /\ s \in Restful /\ s.kind # "ResetArmed" => s \in Resting
  <1>1. CASE s \in Resting
    BY <1>1, RestingKinds, WorkingKinds DEF Restful
  <1>2. CASE s \in Working
    <2>1. s \notin Resting
      BY <1>2, RestingKinds, WorkingKinds
    <2>2. \A r : s # ResetArmed(r)
      BY <1>2, MadeKinds, WorkingKinds
    <2>3. QED
      BY <1>2, <2>1, <2>2, WorkingKinds DEF Restful
  <1>3. CASE s \in {ResetArmed(r) : r \in Resting}
    <2>1. PICK r \in Resting : s = ResetArmed(r)
      BY <1>3
    <2>2. s.kind = "ResetArmed" /\ s.previous = r
      BY <2>1, MadeKinds
    <2>3. s \notin Resting /\ s \notin Working
      BY <2>2, RestingKinds, WorkingKinds
    <2>4. QED
      BY <1>3, <2>1, <2>2, <2>3 DEF Restful
  <1>4. QED
    BY <1>1, <1>2, <1>3 DEF States

LEMMA RestfulIsState == Restful \subseteq States /\ Resting \subseteq Restful
  BY DEF Restful, States

(* Time changes ages only.                                                 *)
LEMMA AgedOK ==
    ASSUME NEW s \in Resting
    PROVE  Aged(s) \in Resting /\ Aged(s).kind = s.kind
  <1>1. CASE s.kind = "Pairing"
    BY <1>1, RestingKinds, Limits DEF Aged, Timed, LimitOf, Resting
  <1>2. CASE s.kind = "AwaitingConfirm"
    BY <1>2, RestingKinds, Limits DEF Aged, Timed, LimitOf, Resting
  <1>3. CASE s.kind = "Countdown"
    BY <1>3, RestingKinds, Limits DEF Aged, Timed, LimitOf, Resting
  <1>4. QED
    BY <1>1, <1>2, <1>3, RestingKinds DEF Aged, Timed

LEMMA OlderStateOK ==
    ASSUME NEW s \in States
    PROVE  /\ OlderState(s) \in States /\ OlderState(s).kind = s.kind
           /\ Base(OlderState(s)).kind = Base(s).kind
           /\ s \in Restful => OlderState(s) \in Restful
           /\ s \in Working => OlderState(s) = s
           /\ s = Unprovisioned => OlderState(s) = s
  <1>1. CASE s.kind = "ResetArmed"
    <2>1. s.previous \in Resting /\ OlderState(s) = ResetArmed(Aged(s.previous))
      BY <1>1, StateKinds DEF OlderState
    <2>2. Aged(s.previous) \in Resting /\ Aged(s.previous).kind = s.previous.kind
      BY <2>1, AgedOK
    <2>3. OlderState(s) \in Restful
      BY <2>1, <2>2 DEF Restful
    <2>4. OlderState(s).kind = "ResetArmed" /\ OlderState(s).previous = Aged(s.previous)
      BY <2>1, MadeKinds
    <2>5. QED
      BY <1>1, <2>2, <2>3, <2>4, RestfulIsState, StateKinds, MadeKinds DEF Base
  <1>2. CASE s \in Resting
    <2>1. s.kind # "ResetArmed" /\ OlderState(s) = Aged(s)
      BY <1>2, RestingKinds DEF OlderState
    <2>2. s = Unprovisioned => Aged(s) = s
      BY <2>1, MadeKinds DEF Aged, Timed
    <2>3. s \notin Working
      BY <1>2, RestingKinds, WorkingKinds
    <2>4. QED
      BY <1>2, <2>1, <2>2, <2>3, AgedOK, RestfulIsState DEF Base
  <1>3. CASE s \in Working
    <2>1. OlderState(s) = s
      BY <1>3, WorkingKinds DEF OlderState, Aged, Timed
    <2>2. QED
      BY <2>1
  <1>4. QED
    BY <1>1, <1>2, <1>3, StateKinds

-----------------------------------------------------------------------------
(* What the machine makes of an event that may be waiting.                 *)

OpenKinds == {"Pairing", "AwaitingConfirm", "Joining", "Claiming"}

Arms(s, e) == e.kind = "ResetArmed" \/ (s.kind = "ResetArmed"
                                        /\ e.kind \notin {"FullReset", "ResetAborted"})

(* A reset is armed once, and ended only when armed.                       *)
Possible(s, e) ==
    /\ s \in States /\ e \in Events /\ Awaited(s, e)
    /\ e.kind = "ResetArmed" => s.kind # "ResetArmed"
    /\ e.kind \in {"FullReset", "ResetAborted"} => s.kind = "ResetArmed"

(* Nothing is left to do in a state of rest, or there are commands that    *)
(* belong to the state; a link that is open may stay or is about to close. *)
Sound(s, e, o) ==
    /\ o.state \in States
    /\ (o.commands = << >> /\ o.state \in Restful) \/ Script(o.state, o.commands)
    /\ o.state.kind = "ResetArmed" <=> Arms(s, e)
    /\ Base(s).kind \in OpenKinds => Base(o.state).kind \in OpenKinds \/ o.commands \in Closing
    /\ o.commands = Claimed => e.kind = "ClaimAccepted"

LEMMA GoIs == \A s, c : Go(s, c).state = s /\ Go(s, c).commands = c
  BY DEF Go

LEMMA NotClaimed ==
    /\ \A x : <<x>> # Claimed /\ <<x>> # << >>
    /\ \A x, y : <<x, y>> # Claimed
    /\ << >> # Claimed /\ Erase # Claimed
  BY DEF Claimed, Erase

(* Staying in, or returning to, a state of rest.                           *)
LEMMA StaySound ==
    ASSUME NEW s \in States, NEW e, NEW n \in Restful,
           n.kind = "ResetArmed" <=> Arms(s, e),
           Base(s).kind \in OpenKinds => Base(n).kind \in OpenKinds
    PROVE  Sound(s, e, Stay(n))
  BY GoIs, NotClaimed, RestfulIsState DEF Sound, Stay

(* Another attempt at pairing.                                             *)
LEMMA PairingSound ==
    ASSUME NEW s \in States, NEW e, ~Arms(s, e)
    PROVE  Sound(s, e, EnterPairing) /\ Sound(s, e, FailPairing)
  <1>1. Pairing \in States /\ Pairing.kind = "Pairing" /\ Base(Pairing).kind = "Pairing"
    BY Made, MadeKinds, RestfulIsState DEF Base
  <1>2. /\ Script(Pairing, <<Do("StartProvisioning")>>)
        /\ Script(Pairing, <<Do("ReportFailed")>>)
    BY <1>1 DEF Script
  <1>3. QED
    BY <1>1, <1>2, GoIs, NotClaimed DEF Sound, EnterPairing, FailPairing, Do, OpenKinds

(* From one state at work, or into one: commands of the new state alone.   *)
LEMMA GoSound ==
    ASSUME NEW s \in States, NEW e, NEW n \in Resting \cup Working, NEW c, Script(n, c),
           ~Arms(s, e), c # Claimed \/ e.kind = "ClaimAccepted",
           Base(s).kind \in OpenKinds => n.kind \in OpenKinds \/ c \in Closing
    PROVE  Sound(s, e, Go(n, c))
  <1>1. n.kind # "ResetArmed" /\ n \in States /\ Base(n) = n
    BY RestingKinds, WorkingKinds DEF States, Base
  <1>2. QED
    BY <1>1, GoIs DEF Sound

LEMMA HandleAnywhereSound ==
    ASSUME NEW s, NEW e, Possible(s, e), e.kind \in Anywhere
    PROVE  Sound(s, e, HandleAnywhere(s, e))
  <1>1. s \in Restful /\ s \in States /\ Arms(s, e) \in BOOLEAN
    BY DEF Possible, Awaited, Answers, Anywhere, Gestures, Arms
  <1>2. CASE e.kind = "ResetArmed"
    <2>1. s \in Resting /\ s.kind # "ResetArmed"
      BY <1>1, <1>2, StateKinds DEF Possible
    <2>2. ResetArmed(s) \in Restful /\ ResetArmed(s).kind = "ResetArmed" /\ Base(ResetArmed(s)) = s
          /\ Base(s) = s
      BY <2>1, MadeKinds DEF Restful, Base
    <2>3. Sound(s, e, Stay(ResetArmed(s)))
      BY <1>1, <1>2, <2>2, StaySound DEF Arms
    <2>4. QED
      BY <1>2, <2>3 DEF HandleAnywhere
  <1>3. CASE e.kind = "FullReset"
    <2>1. ~Arms(s, e)
      BY <1>3 DEF Arms
    <2>2. Script(Unprovisioned, Erase) /\ Erase \in Closing
      BY MadeKinds DEF Script, Closing
    <2>3. Sound(s, e, Go(Unprovisioned, Erase))
      BY <1>1, <2>1, <2>2, Made, MadeKinds, GoSound, NotClaimed
    <2>4. QED
      BY <1>3, <2>3 DEF HandleAnywhere, Erase, Do
  <1>4. CASE e.kind = "ResetAborted"
    <2>1. s.kind = "ResetArmed" /\ s.previous \in Resting /\ ~Arms(s, e)
      BY <1>1, <1>4, StateKinds DEF Possible, Arms
    <2>2. s.previous.kind # "ResetArmed" /\ s.previous \in Restful
          /\ Base(s) = s.previous /\ Base(s.previous) = s.previous
      BY <2>1, RestingKinds DEF Restful, Base
    <2>3. Sound(s, e, Stay(s.previous))
      BY <1>1, <2>1, <2>2, StaySound
    <2>4. QED
      BY <1>4, <2>1, <2>3 DEF HandleAnywhere
  <1>5. CASE e.kind = "LongPress" /\ s.kind # "ResetArmed"
    BY <1>1, <1>5, PairingSound DEF HandleAnywhere, Arms
  <1>6. CASE /\ e.kind \notin {"ResetArmed", "FullReset", "ResetAborted"}
             /\ ~(e.kind = "LongPress" /\ s.kind # "ResetArmed")
    BY <1>1, <1>6, StaySound DEF HandleAnywhere, Arms
  <1>7. QED
    BY <1>2, <1>3, <1>4, <1>5, <1>6

LEMMA HandleTickSound ==
    ASSUME NEW s, NEW e, Possible(s, e), e.kind = "Tick"
    PROVE  Sound(s, e, HandleTick(s))
  <1>1. s \in Restful /\ s \in States /\ (Arms(s, e) <=> s.kind = "ResetArmed")
    BY DEF Possible, Awaited, Answers, Arms
  <1>2. CASE ~Due(s)
    BY <1>1, <1>2, StaySound DEF HandleTick
  <1>3. CASE Due(s)
    <2>1. s.kind \in {"Pairing", "AwaitingConfirm", "Countdown"} /\ s \in Resting
      BY <1>1, <1>3, StateKinds DEF Due, Timed
    <2>2. ~Arms(s, e) /\ Base(s) = s
      BY <1>1, <2>1 DEF Base
    <2>3. CASE s.kind = "Pairing"
      <3>1. Script(Unprovisioned, <<Do("StopProvisioning")>>)
            /\ <<Do("StopProvisioning")>> \in Closing
        BY MadeKinds DEF Script, Closing
      <3>2. Sound(s, e, Go(Unprovisioned, <<Do("StopProvisioning")>>))
        BY <1>1, <2>2, <3>1, Made, MadeKinds, GoSound, NotClaimed
      <3>3. QED
        BY <1>3, <2>3, <3>2 DEF HandleTick, Do
    <2>4. CASE s.kind = "AwaitingConfirm"
      BY <1>1, <1>3, <2>2, <2>4, PairingSound DEF HandleTick
    <2>5. CASE s.kind = "Countdown"
      <3>1. s.offline \in BOOLEAN
        BY <2>1, <2>5, RestingKinds
      <3>2. Capturing(s.offline) \in Working /\ Script(Capturing(s.offline), <<Do("Capture")>>)
        BY <3>1, Made, MadeKinds DEF Script
      <3>3. Sound(s, e, Go(Capturing(s.offline), <<Do("Capture")>>))
        BY <1>1, <2>2, <2>5, <3>2, GoSound, NotClaimed DEF OpenKinds
      <3>4. QED
        BY <1>3, <2>5, <3>3 DEF HandleTick, Do
    <2>6. QED
      BY <2>1, <2>3, <2>4, <2>5
  <1>4. QED
    BY <1>2, <1>3

LEMMA HandleShortSound ==
    ASSUME NEW s, NEW e, Possible(s, e), e.kind = "Short"
    PROVE  Sound(s, e, HandleShort(s))
  <1>1. s \in Restful /\ s \in States /\ (Arms(s, e) <=> s.kind = "ResetArmed")
    BY DEF Possible, Awaited, Answers, Arms
  <1>2. CASE s.kind \in {"Unprovisioned", "Ready"}
    <2>1. Base(s).kind \notin OpenKinds /\ ~Arms(s, e)
      BY <1>1, <1>2 DEF Base, OpenKinds
    <2>2. \A off \in BOOLEAN : Countdown(off) \in Restful /\ Countdown(off).kind = "Countdown"
      BY Made, MadeKinds DEF Restful
    <2>3. Sound(s, e, Stay(Countdown(TRUE))) /\ Sound(s, e, Stay(Countdown(FALSE)))
      BY <1>1, <2>1, <2>2, StaySound
    <2>4. QED
      BY <1>2, <2>3 DEF HandleShort
  <1>3. CASE s.kind = "AwaitingConfirm"
    <2>1. s.creds \in Creds /\ ~Arms(s, e)
      BY <1>1, <1>3, StateKinds, RestingKinds
    <2>2. /\ Joining(s.creds) \in Working /\ Joining(s.creds).kind = "Joining"
          /\ Script(Joining(s.creds), <<With("JoinWifi", s.creds)>>)
      BY <2>1, Made, MadeKinds DEF Script
    <2>3. Sound(s, e, Go(Joining(s.creds), <<With("JoinWifi", s.creds)>>))
      BY <1>1, <2>1, <2>2, GoSound, NotClaimed DEF OpenKinds
    <2>4. QED
      BY <1>3, <2>3 DEF HandleShort, With
  <1>4. CASE s.kind \notin {"Unprovisioned", "Ready", "AwaitingConfirm"}
    BY <1>1, <1>4, StaySound DEF HandleShort
  <1>5. QED
    BY <1>2, <1>3, <1>4

LEMMA HandleAnswerSound ==
    ASSUME NEW s, NEW e, Possible(s, e), e.kind \in Answers
    PROVE  Sound(s, e, HandleAnswer(s, e))
  <1>1. s \in States /\ (Arms(s, e) <=> s.kind = "ResetArmed")
    BY DEF Possible, Answers, Arms
  <1>2. CASE e.kind = "WifiUp"
    <2>1. s.kind = "Joining" /\ s \in Working
      BY <1>1, <1>2, StateKinds DEF Possible, Awaited
    <2>2. Claiming(s.creds) \in Working /\ Claiming(s.creds).kind = "Claiming"
          /\ Script(Claiming(s.creds), <<With("RedeemClaim", s.creds)>>)
      BY <2>1, WorkingKinds, Made, MadeKinds DEF Script
    <2>3. Sound(s, e, Go(Claiming(s.creds), <<With("RedeemClaim", s.creds)>>))
      BY <1>1, <2>1, <2>2, GoSound, NotClaimed DEF OpenKinds
    <2>4. QED
      BY <1>2, <2>1, <2>3 DEF HandleAnswer, With
  <1>3. CASE e.kind \in {"WifiFailed", "ClaimRejected"}
    <2>1. s.kind = (IF e.kind = "WifiFailed" THEN "Joining" ELSE "Claiming")
      BY <1>3 DEF Possible, Awaited
    <2>2. HandleAnswer(s, e) = FailPairing
      BY <1>3, <2>1 DEF HandleAnswer
    <2>3. QED
      BY <1>1, <2>1, <2>2, PairingSound
  <1>4. CASE e.kind = "ClaimAccepted"
    <2>1. s.kind = "Claiming"
      BY <1>4 DEF Possible, Awaited
    <2>2. Script(Ready, Claimed) /\ Claimed \in Closing
      BY MadeKinds DEF Script, Closing
    <2>3. Sound(s, e, Go(Ready, Claimed))
      BY <1>1, <1>4, <2>1, <2>2, Made, GoSound
    <2>4. QED
      BY <1>4, <2>1, <2>3 DEF HandleAnswer, Claimed, Do
  <1>5. CASE e.kind = "CaptureCommitted"
    <2>1. s.kind = "Capturing" /\ Base(s).kind \notin OpenKinds
      BY <1>5 DEF Possible, Awaited, Base, OpenKinds
    <2>2. Sound(s, e, Stay(Unprovisioned))
      BY <1>1, <2>1, Made, MadeKinds, RestfulIsState, StaySound
    <2>3. Script(Uploading, <<Drain>>)
      BY MadeKinds DEF Script, Drains
    <2>4. Sound(s, e, Go(Uploading, <<Drain>>))
      BY <1>1, <2>1, <2>3, Made, GoSound, NotClaimed
    <2>5. QED
      BY <1>5, <2>1, <2>2, <2>4 DEF HandleAnswer
  <1>6. CASE e.kind = "CaptureFailed"
    <2>1. s.kind = "Capturing" /\ Base(s).kind \notin OpenKinds
      BY <1>6 DEF Possible, Awaited, Base, OpenKinds
    <2>2. Sound(s, e, Stay(Unprovisioned)) /\ Sound(s, e, Stay(Ready))
      BY <1>1, <2>1, Made, MadeKinds, RestfulIsState, StaySound
    <2>3. QED
      BY <1>6, <2>1, <2>2 DEF HandleAnswer
  <1>7. CASE e.kind \in {"UploadSucceeded", "UploadFailed"}
    <2>1. s.kind \in {"Uploading", "Ready"} /\ Base(s).kind \notin OpenKinds
      BY <1>7 DEF Possible, Awaited, Base, OpenKinds
    <2>2. Sound(s, e, Stay(Ready))
      BY <1>1, <2>1, Made, MadeKinds, RestfulIsState, StaySound
    <2>3. s.kind = "Ready" => s = Ready
      BY <1>1, StateKinds, RestingKinds
    <2>4. QED
      BY <1>7, <2>1, <2>2, <2>3 DEF HandleAnswer
  <1>8. QED
    BY <1>2, <1>3, <1>4, <1>5, <1>6, <1>7 DEF Answers

LEMMA EventKinds ==
    ASSUME NEW e \in Events
    PROVE  /\ e.kind \in Gestures \cup Answers
                         \cup {"BootProvisioned", "BootNew", "Tick", "Credentials"}
           /\ e.kind = "Credentials" => e.creds \in Creds
  BY DEF Events, Gestures, Answers

LEMMA HandleSound ==
    ASSUME NEW s, NEW e, Possible(s, e)
    PROVE  Sound(s, e, Handle(s, e))
  <1>1. CASE e.kind \in Anywhere
    BY <1>1, HandleAnywhereSound DEF Handle, Anywhere, Gestures
  <1>2. CASE e.kind = "Credentials"
    <2>1. s \in Restful /\ s \in States /\ (Arms(s, e) <=> s.kind = "ResetArmed")
      BY <1>2 DEF Possible, Awaited, Answers, Arms
    <2>2. CASE s.kind = "Pairing"
      <3>1. e.creds \in Creds
        BY <1>2, EventKinds DEF Possible
      <3>2. AwaitingConfirm(e.creds) \in Resting /\ AwaitingConfirm(e.creds).kind = "AwaitingConfirm"
            /\ Script(AwaitingConfirm(e.creds), <<Do("ReportAwaitingConfirm")>>)
        BY <3>1, Made, MadeKinds DEF Script
      <3>3. Sound(s, e, Go(AwaitingConfirm(e.creds), <<Do("ReportAwaitingConfirm")>>))
        BY <2>1, <2>2, <3>2, GoSound, NotClaimed DEF OpenKinds
      <3>4. QED
        BY <1>2, <2>2, <3>3 DEF Handle, Anywhere, Gestures, Do
    <2>3. CASE s.kind # "Pairing"
      BY <1>2, <2>1, <2>3, StaySound DEF Handle, Anywhere, Gestures
    <2>4. QED
      BY <2>2, <2>3
  <1>3. CASE e.kind = "Short"
    BY <1>3, HandleShortSound DEF Handle, Anywhere
  <1>4. CASE e.kind = "Tick"
    BY <1>4, HandleTickSound DEF Handle, Anywhere, Gestures
  <1>5. CASE e.kind \in {"BootNew", "BootProvisioned"}
    <2>1. s = Unprovisioned /\ s \in States /\ ~Arms(s, e) /\ Base(s).kind \notin OpenKinds
      BY <1>5, MadeKinds DEF Possible, Awaited, Arms, Base, OpenKinds
    <2>2. Script(Ready, <<Drain>>)
      BY MadeKinds DEF Script, Drains
    <2>3. Sound(s, e, EnterPairing) /\ Sound(s, e, Go(Ready, <<Drain>>))
      BY <2>1, <2>2, Made, PairingSound, GoSound, NotClaimed
    <2>4. QED
      BY <1>5, <2>1, <2>3 DEF Handle, Anywhere, Gestures
  <1>6. CASE e.kind \in Answers
    BY <1>6, HandleAnswerSound DEF Handle, Answers, Anywhere, Gestures
  <1>7. QED
    BY <1>1, <1>2, <1>3, <1>4, <1>5, <1>6, EventKinds DEF Possible, Anywhere, Gestures

-----------------------------------------------------------------------------
(* The gesture detector.                                                   *)

DetectorOK(d) == d \in Detector /\ (d.window # None => d.held = None)

Tells(d, o) ==
    /\ DetectorOK(o.detector) /\ o.gesture \in Gestures \cup {None}
    /\ o.gesture = "ResetArmed" => ~Armed(d) /\ Armed(o.detector)
    /\ o.gesture \in {"FullReset", "ResetAborted"} => Armed(d) /\ ~Armed(o.detector)
    /\ o.gesture \notin {"ResetArmed", "FullReset", "ResetAborted"} =>
         (Armed(o.detector) <=> Armed(d))

LEMMA Thresholds ==
    /\ HoldArm \in Nat /\ HoldPair \in Nat /\ HoldReset \in Nat
    /\ ClickWindow \in Nat /\ ClickCount \in Nat
    /\ 0 < HoldArm /\ HoldArm < HoldPair /\ HoldPair < HoldReset /\ 0 < ClickWindow
    /\ 0 < ClickCount
  BY HoldAssumption

LEMMA NoneIsNoOther ==
    /\ None \notin Window /\ None \notin Gestures
    /\ \A n \in Nat : None # n /\ \A p \in Provisioned : None # p /\ None \notin Creds
  BY NoneAssumption, PayloadAssumption DEF Provisioned

LEMMA PollIs == \A d, g : Poll(d, g).detector = d /\ Poll(d, g).gesture = g
  BY DEF Poll

LEMMA TellsPoll ==
    ASSUME NEW d, NEW n, NEW g \in Gestures \cup {None}, DetectorOK(n),
           g = "ResetArmed" => ~Armed(d) /\ Armed(n),
           g \in {"FullReset", "ResetAborted"} => Armed(d) /\ ~Armed(n),
           g \notin {"ResetArmed", "FullReset", "ResetAborted"} => (Armed(n) <=> Armed(d))
    PROVE  Tells(d, Poll(n, g))
  BY PollIs DEF Tells

LEMMA GestureNames ==
    /\ {"Short", "HoldProgress", "LongPress", "ResetArmed", "ResetClick", "FullReset",
        "ResetAborted"} \subseteq Gestures
    /\ None \notin {"ResetArmed", "FullReset", "ResetAborted"}
  BY NoneIsNoOther DEF Gestures

LEMMA DetectorFields ==
    ASSUME NEW d \in Detector
    PROVE  /\ d.held \in 0..HoldReset \cup {None} /\ d.long \in BOOLEAN /\ d.reset \in BOOLEAN
           /\ d.window \in Window \cup {None}
  BY DEF Detector

LEMMA WindowFields ==
    ASSUME NEW w \in Window
    PROVE  w.age \in 0..(ClickWindow + 1) /\ w.clicks \in 0..ClickCount /\ w.down \in BOOLEAN
  BY DEF Window

LEMMA PollWindowOK ==
    ASSUME NEW d, DetectorOK(d), d.window # None, NEW pressed \in BOOLEAN
    PROVE  Tells(d, PollWindow(d, pressed))
  <1> DEFINE w    == d.window
             edge == pressed /\ ~w.down
             next == [w EXCEPT !.down = pressed, !.clicks = IF edge THEN @ + 1 ELSE @]
             shut == [d EXCEPT !.window = None]
             open == [d EXCEPT !.window = next]
  <1>1. d \in Detector /\ d.held = None /\ w \in Window /\ Armed(d)
    BY DetectorFields DEF DetectorOK, Armed
  <1>2. shut \in Detector /\ shut.window = None /\ shut.held = None
    BY <1>1 DEF Detector
  <1>3. DetectorOK(shut) /\ ~Armed(shut)
    BY <1>2 DEF DetectorOK, Armed
  <1>4. w.age \in 0..(ClickWindow + 1) /\ w.clicks \in 0..ClickCount /\ w.down \in BOOLEAN
    BY <1>1, WindowFields
  <1>5. next.clicks = (IF edge THEN w.clicks + 1 ELSE w.clicks)
    BY <1>1 DEF Window
  <1>6. ASSUME ~edge \/ next.clicks < ClickCount
        PROVE  DetectorOK(open) /\ Armed(open)
    <2>1. next.clicks \in 0..ClickCount
      BY <1>4, <1>5, <1>6, Thresholds
    <2>2. next \in Window
      BY <1>1, <1>4, <2>1 DEF Window
    <2>3. open \in Detector /\ open.window = next /\ open.held = None
      BY <1>1, <2>2 DEF Detector
    <2>4. QED
      BY <2>2, <2>3, NoneIsNoOther DEF DetectorOK, Armed
  <1>7. CASE w.age > ClickWindow
    <2>1. PollWindow(d, pressed) = Poll(shut, "ResetAborted")
      BY <1>4, <1>7, Thresholds DEF PollWindow
    <2>2. QED
      BY <1>1, <1>3, <2>1, TellsPoll, GestureNames
  <1>8. CASE w.age <= ClickWindow /\ edge /\ next.clicks >= ClickCount
    <2>1. PollWindow(d, pressed) = Poll(shut, "FullReset")
      BY <1>4, <1>5, <1>8, Thresholds DEF PollWindow
    <2>2. QED
      BY <1>1, <1>3, <2>1, TellsPoll, GestureNames
  <1>9. CASE w.age <= ClickWindow /\ edge /\ next.clicks < ClickCount
    <2>1. PollWindow(d, pressed) = Poll(open, "ResetClick")
      BY <1>4, <1>5, <1>9, Thresholds DEF PollWindow
    <2>2. QED
      <3>1. DetectorOK(open) /\ Armed(open)
        BY <1>6, <1>9
      <3>2. QED
        BY <1>1, <2>1, <3>1, TellsPoll, GestureNames
  <1>10. CASE w.age <= ClickWindow /\ ~edge
    <2>1. PollWindow(d, pressed) = Poll(open, None)
      BY <1>4, <1>5, <1>10, Thresholds DEF PollWindow
    <2>2. QED
      <3>1. DetectorOK(open) /\ Armed(open)
        BY <1>6, <1>10
      <3>2. QED
        BY <1>1, <2>1, <3>1, TellsPoll, GestureNames
  <1>11. QED
    BY <1>4, <1>5, <1>7, <1>8, <1>9, <1>10, Thresholds

LEMMA PollHeldOK ==
    ASSUME NEW d, DetectorOK(d), d.window = None, d.held # None
    PROVE  Tells(d, PollHeld(d))
  <1> DEFINE armed == [d EXCEPT !.reset = TRUE]
             long  == [d EXCEPT !.long = TRUE]
  <1>1. d \in Detector /\ d.held \in 0..HoldReset /\ d.reset \in BOOLEAN /\ d.long \in BOOLEAN
    BY DetectorFields DEF DetectorOK
  <1>2. /\ armed \in Detector /\ armed.window = None /\ armed.held # None /\ armed.reset
        /\ long \in Detector /\ long.window = None /\ long.held # None
        /\ long.reset = d.reset
    BY <1>1 DEF Detector
  <1>3. DetectorOK(armed) /\ Armed(armed) /\ DetectorOK(long) /\ (Armed(long) <=> Armed(d))
    BY <1>2 DEF DetectorOK, Armed
  <1>4. CASE d.held >= HoldReset /\ ~d.reset
    <2>1. PollHeld(d) = Poll(armed, "ResetArmed")
      BY <1>1, <1>4, Thresholds DEF PollHeld
    <2>2. QED
      <3>1. ~Armed(d)
        BY <1>4 DEF Armed
      <3>2. QED
        BY <1>3, <2>1, <3>1, TellsPoll, GestureNames
  <1>5. CASE ~(d.held >= HoldReset /\ ~d.reset)
    <2>1. \/ PollHeld(d) = Poll(long, "LongPress")
          \/ PollHeld(d) = Poll(d, "HoldProgress")
          \/ PollHeld(d) = Poll(d, None)
      BY <1>1, <1>5, Thresholds DEF PollHeld
    <2>2. QED
      BY <1>3, <2>1, TellsPoll, GestureNames
  <1>6. QED
    BY <1>4, <1>5

LEMMA PollReleasedOK ==
    ASSUME NEW d, DetectorOK(d), d.window = None, d.held # None
    PROVE  Tells(d, PollReleased(d))
  <1> DEFINE up   == [d EXCEPT !.held = None]
             open == [up EXCEPT !.window = OpenWindow]
  <1>1. d \in Detector /\ d.held \in 0..HoldReset /\ d.reset \in BOOLEAN
    BY DetectorFields DEF DetectorOK
  <1>2. OpenWindow \in Window
    BY Thresholds DEF OpenWindow, Window
  <1>3. /\ up \in Detector /\ up.window = None /\ up.held = None
        /\ open \in Detector /\ open.window = OpenWindow /\ open.held = None
    BY <1>1, <1>2 DEF Detector
  <1>4. DetectorOK(up) /\ ~Armed(up) /\ DetectorOK(open) /\ Armed(open)
    BY <1>2, <1>3, NoneIsNoOther DEF DetectorOK, Armed
  <1>5. CASE d.reset
    <2>1. PollReleased(d) = Poll(open, None)
      BY <1>5 DEF PollReleased
    <2>2. QED
      <3>1. Armed(d)
        BY <1>5 DEF Armed
      <3>2. QED
        BY <1>4, <2>1, <3>1, TellsPoll, GestureNames
  <1>6. CASE ~d.reset
    <2>1. PollReleased(d) = Poll(up, "Short") \/ PollReleased(d) = Poll(up, None)
      BY <1>6 DEF PollReleased
    <2>2. QED
      <3>1. ~Armed(d)
        BY <1>6 DEF Armed
      <3>2. QED
        BY <1>4, <2>1, <3>1, TellsPoll, GestureNames
  <1>7. QED
    BY <1>5, <1>6

LEMMA PollButtonOK ==
    ASSUME NEW d, DetectorOK(d), NEW pressed \in BOOLEAN
    PROVE  Tells(d, PollButton(d, pressed))
  <1>1. CASE d.window # None
    BY <1>1, PollWindowOK DEF PollButton
  <1>2. CASE d.window = None /\ d.held = None /\ pressed
    <2> DEFINE down == [d EXCEPT !.held = 0, !.long = FALSE, !.reset = FALSE]
    <2>1. down \in Detector /\ down.window = None /\ down.reset = FALSE
      <3>1. d \in Detector /\ 0 \in 0..HoldReset
        BY Thresholds DEF DetectorOK
      <3>2. down \in Detector
        BY <3>1 DEF Detector
      <3>3. down.window = d.window /\ down.reset = FALSE
        BY <3>1 DEF Detector
      <3>4. QED
        BY <1>2, <3>2, <3>3
    <2>2. DetectorOK(down) /\ ~Armed(down) /\ ~Armed(d)
      BY <1>2, <2>1 DEF DetectorOK, Armed
    <2>3. PollButton(d, pressed) = Poll(down, None)
      BY <1>2 DEF PollButton
    <2>4. QED
      BY <2>2, <2>3, TellsPoll, GestureNames
  <1>3. CASE d.window = None /\ d.held # None /\ pressed
    BY <1>3, PollHeldOK DEF PollButton
  <1>4. CASE d.window = None /\ d.held # None /\ ~pressed
    BY <1>4, PollReleasedOK DEF PollButton
  <1>5. CASE d.window = None /\ d.held = None /\ ~pressed
    <2>1. PollButton(d, pressed) = Poll(d, None)
      BY <1>5 DEF PollButton
    <2>2. QED
      BY <2>1, TellsPoll, GestureNames
  <1>6. QED
    BY <1>1, <1>2, <1>3, <1>4, <1>5

LEMMA OlderOK ==
    ASSUME NEW d, DetectorOK(d)
    PROVE  DetectorOK(Older(d)) /\ (Armed(Older(d)) <=> Armed(d))
  <1> DEFINE h == OlderHeld(d.held)
             w == OlderWindow(d.window)
  <1>1. d \in Detector /\ d.held \in 0..HoldReset \cup {None} /\ d.window \in Window \cup {None}
    BY DetectorFields DEF DetectorOK
  <1>2. h \in 0..HoldReset \cup {None} /\ (h = None <=> d.held = None)
    BY <1>1, Thresholds, NoneIsNoOther DEF Capped, OlderHeld
  <1>3. w \in Window \cup {None} /\ (w = None <=> d.window = None)
    <2>1. ASSUME d.window # None
          PROVE  [d.window EXCEPT !.age = Capped(@, ClickWindow + 1)] \in Window
      <3>1. d.window \in Window /\ d.window.age \in 0..(ClickWindow + 1)
        BY <1>1, <2>1, WindowFields
      <3>2. Capped(d.window.age, ClickWindow + 1) \in 0..(ClickWindow + 1)
        BY <3>1, Thresholds DEF Capped
      <3>3. QED
        BY <3>1, <3>2 DEF Window
    <2>2. QED
      BY <2>1, NoneIsNoOther DEF OlderWindow
  <1>4. Older(d) \in Detector
    BY <1>1, <1>2, <1>3 DEF Older, Detector
  <1>5. Older(d).held = h /\ Older(d).window = w /\ Older(d).reset = d.reset
    BY <1>1 DEF Older, Detector
  <1>6. QED
    BY <1>2, <1>3, <1>4, <1>5 DEF DetectorOK, Armed

-----------------------------------------------------------------------------
(* Commands and where they may be in an event's course.                    *)

LEMMA Ones ==
    /\ \A x : Head(<<x>>) = x /\ Tail(<<x>>) = << >> /\ <<x>> # << >>
    /\ \A x : Append(<< >>, x) = <<x>> /\ <<x>> \o << >> = <<x>>
    /\ \A x, y : <<x>> = <<y>> <=> x = y
    /\ \A x, y : Head(<<x, y>>) = x /\ Tail(<<x, y>>) = <<y>> /\ <<x, y>> # << >>
  OBVIOUS

LEMMA Names ==
    /\ \A op : Do(op).op = op
    /\ \A op, c : With(op, c).op = op /\ With(op, c).creds = c
    /\ Drain = Do("DrainQueue")
    /\ \A todo, ok : Draining(todo, ok).op = "Draining" /\ Draining(todo, ok).todo = todo
                     /\ Draining(todo, ok).ok = ok
    /\ \A kind : Event(kind).kind = kind
  BY DEF Do, With, Drain, Draining, Event

LEMMA ClaimedRuns ==
    /\ Head(Claimed) = Do("PersistProvisioned") /\ Tail(Claimed) = Claimed2
    /\ Head(Claimed2) = Do("ReportClaimed") /\ Tail(Claimed2) = Claimed3
    /\ Head(Claimed3) = Do("StopProvisioning") /\ Tail(Claimed3) = <<Drain>>
    /\ Head(Erase) = Do("EraseAll") /\ Tail(Erase) = <<Do("Reboot")>>
    /\ Claimed # << >> /\ Claimed2 # << >> /\ Claimed3 # << >> /\ Erase # << >>
    /\ Claimed2 # Claimed /\ Claimed3 # Claimed
  BY DEF Claimed, Claimed2, Claimed3, Erase

(* The command at the front tells where the machine is and what follows.   *)
Place(s, c) ==
    LET op == Head(c).op
    IN  /\ op = "StartProvisioning" => s.kind = "Pairing" /\ Tail(c) = << >>
        /\ op = "ReportFailed" => s.kind = "Pairing" /\ Tail(c) = << >>
        /\ op = "ReportAwaitingConfirm" => s.kind = "AwaitingConfirm" /\ Tail(c) = << >>
        /\ op = "JoinWifi" => s.kind = "Joining" /\ Tail(c) = << >>
        /\ op = "RedeemClaim" => s.kind = "Claiming" /\ Tail(c) = << >> /\ Head(c).creds = s.creds
        /\ op = "Capture" => s.kind = "Capturing" /\ Tail(c) = << >> /\ c \notin Closing
        /\ op = "PersistProvisioned" => s.kind = "Ready" /\ c = Claimed
        /\ op = "ReportClaimed" => s.kind = "Ready" /\ c = Claimed2
        /\ op = "StopProvisioning" => \/ s.kind = "Ready" /\ c = Claimed3
                                      \/ s.kind = "Unprovisioned" /\ Tail(c) = << >>
        /\ op = "EraseAll" => s.kind = "Unprovisioned" /\ c = Erase
        /\ op = "DrainQueue" => /\ s.kind \in {"Ready", "Uploading"} /\ Tail(c) = << >>
                                /\ c \notin Closing
        /\ op = "Draining" => /\ s.kind \in {"Ready", "Uploading"} /\ Tail(c) = << >>
                              /\ c \notin Closing
                              /\ Head(c).todo \in SUBSET Shots /\ Head(c).ok \in BOOLEAN
                              /\ Head(c) = Draining(Head(c).todo, Head(c).ok)

(* What closes the link begins with one of these.                          *)
LEMMA ClosingHeads ==
    ASSUME NEW c \in Closing
    PROVE  Head(c).op \in {"PersistProvisioned", "ReportClaimed", "StopProvisioning",
                           "EraseAll", "Reboot"}
  BY ClaimedRuns, Ones, Names DEF Closing

LEMMA ScriptPlace ==
    ASSUME NEW s, NEW c, Script(s, c)
    PROVE  Place(s, c) /\ c # << >> /\ s.kind # "ResetArmed"
  <1>0. ASSUME NEW op, c = <<Do(op)>>
        PROVE  Head(c).op = op /\ Tail(c) = << >> /\ c # << >>
    BY <1>0, Ones, Names
  <1>1. CASE s.kind \in {"Pairing", "AwaitingConfirm"}
    <2>1. PICK op \in {"StartProvisioning", "ReportFailed", "ReportAwaitingConfirm"} :
             /\ c = <<Do(op)>>
             /\ s.kind = (IF op = "ReportAwaitingConfirm" THEN "AwaitingConfirm" ELSE "Pairing")
      BY <1>1 DEF Script
    <2>2. Head(c).op = op /\ Tail(c) = << >> /\ c # << >>
      BY <1>0, <2>1
    <2>3. QED
      BY <2>1, <2>2 DEF Place
  <1>2. CASE s.kind \in {"Joining", "Claiming"}
    <2>1. PICK op \in {"JoinWifi", "RedeemClaim"} :
             c = <<With(op, s.creds)>> /\ s.kind = (IF op = "JoinWifi" THEN "Joining" ELSE "Claiming")
      BY <1>2 DEF Script
    <2>2. Head(c).op = op /\ Head(c).creds = s.creds /\ Tail(c) = << >> /\ c # << >>
      BY <2>1, Ones, Names
    <2>3. QED
      BY <2>1, <2>2 DEF Place
  <1>3. CASE s.kind = "Capturing"
    <2>1. Head(c).op = "Capture" /\ Tail(c) = << >> /\ c # << >>
      BY <1>0, <1>3 DEF Script
    <2>2. c \notin Closing
      BY <2>1, ClosingHeads
    <2>3. QED
      BY <1>3, <2>1, <2>2 DEF Place
  <1>4. CASE s.kind = "Unprovisioned"
    <2>1. CASE c = Erase
      <3>1. Head(c).op = "EraseAll" /\ c # << >>
        BY <2>1, ClaimedRuns, Names
      <3>2. QED
        BY <1>4, <2>1, <3>1 DEF Place
    <2>2. CASE \E op \in {"StopProvisioning", "Reboot"} : c = <<Do(op)>>
      <3>1. Head(c).op \in {"StopProvisioning", "Reboot"} /\ Tail(c) = << >> /\ c # << >>
        BY <1>0, <2>2
      <3>2. QED
        BY <1>4, <3>1 DEF Place
    <2>3. QED
      BY <1>4, <2>1, <2>2 DEF Script
  <1>5. CASE s.kind = "Ready" /\ c \in {Claimed, Claimed2, Claimed3}
    BY <1>5, Names, ClaimedRuns DEF Place
  <1>6. CASE s.kind \in {"Ready", "Uploading"} /\ c = <<Drain>>
    BY <1>6, Names, Ones, ClosingHeads DEF Place
  <1>7. ASSUME s.kind \in {"Ready", "Uploading"}, NEW todo \in SUBSET Shots, NEW ok \in BOOLEAN,
               c = <<Draining(todo, ok)>>
        PROVE  Place(s, c) /\ c # << >>
    <2>1. Head(c) = Draining(todo, ok) /\ Tail(c) = << >> /\ c # << >>
      BY <1>7, Ones
    <2>2. Head(c).op = "Draining" /\ Head(c).todo = todo /\ Head(c).ok = ok
      BY <2>1, Names
    <2>3. c \notin Closing
      BY <2>2, ClosingHeads
    <2>4. QED
      BY <1>7, <2>1, <2>2, <2>3 DEF Place
  <1>8. QED
    BY <1>1, <1>2, <1>3, <1>4, <1>5, <1>6, <1>7 DEF Script, Drains

LEMMA RunningPlace ==
    ASSUME IInv, cmds # << >>
    PROVE  queue = << >> /\ Script(st, cmds) /\ Place(st, cmds) /\ ~Armed(detector)
           /\ st.kind # "ResetArmed"
  BY ScriptPlace DEF IInv, Course

(* A step of the runtime that moves neither the machine nor the detector.  *)
LEMMA RunOK ==
    ASSUME IInv, On, cmds # << >>, RunStep, Types', Course', cmds' # Claimed,
           \/ link' = FALSE
           \/ Base(st).kind \in OpenKinds
           \/ link' = link /\ (cmds' \in Closing \/ cmds \notin Closing),
           queue' # <<Event("ClaimAccepted")>> \/ ram'.claimed = server'.bound
    PROVE  IInv'
  <1>1. On' /\ st' = st
    BY DEF RunStep, On
  <1>2. OffClean'
    BY <1>1 DEF OffClean
  <1>3. LinkKept'
    BY <1>1 DEF IInv, LinkKept, OpenKinds, Base
  <1>4. ClaimStands'
    BY DEF ClaimStands
  <1>5. QED
    BY <1>2, <1>3, <1>4 DEF IInv

LEMMA AnswerCourse ==
    ASSUME IInv, cmds # << >>, RunStep, NEW kind \in Answers, Answer(kind), Tail(cmds) = << >>,
           Awaited(st, Event(kind))
    PROVE  Course' /\ queue' = <<Event(kind)>> /\ cmds' = << >> /\ cmds' # Claimed
  <1>1. queue' = <<Event(kind)>> /\ cmds' = << >> /\ st' = st /\ detector' = detector
    BY RunningPlace, Ones DEF Answer, RunStep
  <1>2. Event(kind) \in Events
    BY DEF Event, Events
  <1>3. InStep(st, Event(kind))'
    BY <1>1, RunningPlace, Names DEF InStep, Answers, Armed
  <1>4. QED
    BY <1>1, <1>2, <1>3, NotClaimed DEF Course

LEMMA QuietCourse ==
    ASSUME IInv, cmds # << >>, RunStep, NoAnswer,
           (Tail(cmds) = << >> /\ st \in Restful) \/ Script(st, Tail(cmds))
    PROVE  Course' /\ queue' = << >> /\ cmds' = Tail(cmds)
  <1>1. queue' = << >> /\ cmds' = Tail(cmds) /\ st' = st /\ detector' = detector
    BY RunningPlace DEF NoAnswer, RunStep
  <1>2. QED
    BY <1>1, RunningPlace DEF Course, Armed

LEMMA RestfulKinds ==
    ASSUME IInv
    PROVE  st.kind \in {"Unprovisioned", "Ready", "Pairing", "AwaitingConfirm"} => st \in Restful
  BY StateKinds DEF IInv, Types

-----------------------------------------------------------------------------
(* The commands, one after another.                                        *)

(* The parts of the types that a command may change.                       *)
LEMMA RunTypes ==
    ASSUME IInv, RunStep, ram' \in RamRec, flash' \in Provisioned \cup {None},
           spool' \subseteq Shots, shots' \in 0..MaxShots, link' \in BOOLEAN,
           server' \in ServerRec, server'.accepted \subseteq server'.redeemed
    PROVE  Types'
  BY DEF IInv, Types, RunStep

LEMMA RunningIs == \A op : Running(op) => On /\ cmds # << >> /\ Head(cmds).op = op
  BY DEF Running

LEMMA StartOK == IInv /\ RunStartProvisioning => IInv'
  <1> SUFFICES ASSUME IInv, RunStartProvisioning PROVE IInv'
    OBVIOUS
  <1>1. st.kind = "Pairing" /\ Tail(cmds) = << >> /\ cmds # << >> /\ On
    BY RunningIs, RunningPlace DEF RunStartProvisioning, Place
  <1>2. Course' /\ cmds' = << >> /\ queue' = << >>
    BY <1>1, RestfulKinds, QuietCourse DEF RunStartProvisioning
  <1>3. Types'
    BY RunTypes DEF RunStartProvisioning, stored, IInv, Types
  <1>4. QED
    BY <1>1, <1>2, <1>3, RunOK, NotClaimed, Ones DEF RunStartProvisioning, OpenKinds, Base

LEMMA StopOK == IInv /\ RunStopProvisioning => IInv'
  <1> SUFFICES ASSUME IInv, RunStopProvisioning PROVE IInv'
    OBVIOUS
  <1>1. /\ cmds # << >> /\ On
        /\ \/ st.kind = "Ready" /\ cmds = Claimed3
           \/ st.kind = "Unprovisioned" /\ Tail(cmds) = << >>
    BY RunningIs, RunningPlace DEF RunStopProvisioning, Place
  <1>2. \/ Tail(cmds) = << >> /\ st \in Restful
        \/ Tail(cmds) = <<Drain>> /\ Script(st, <<Drain>>)
    <2>1. <<Drain>> \in Drains
      BY DEF Drains
    <2>2. st.kind = "Ready" => Script(st, <<Drain>>)
      BY <2>1 DEF Script
    <2>3. QED
      <3>1. CASE st.kind = "Ready" /\ cmds = Claimed3
        BY <2>2, <3>1, ClaimedRuns
      <3>2. CASE st.kind = "Unprovisioned" /\ Tail(cmds) = << >>
        BY <3>2, RestfulKinds
      <3>3. QED
        BY <1>1, <3>1, <3>2
  <1>3. Course' /\ cmds' = Tail(cmds) /\ queue' = << >>
    BY <1>1, <1>2, QuietCourse DEF RunStopProvisioning
  <1>4. Types'
    BY RunTypes DEF RunStopProvisioning, stored, IInv, Types
  <1>5. QED
    BY <1>1, <1>2, <1>3, <1>4, RunOK, NotClaimed, Ones DEF RunStopProvisioning

LEMMA ReportOK == IInv /\ RunReport => IInv'
  <1> SUFFICES ASSUME IInv, RunReport PROVE IInv'
    OBVIOUS
  <1>1. /\ cmds # << >> /\ On
        /\ \/ st.kind \in {"Pairing", "AwaitingConfirm"} /\ Tail(cmds) = << >>
           \/ st.kind = "Ready" /\ cmds = Claimed2
    BY RunningIs, RunningPlace DEF RunReport, Place
  <1>2. (Tail(cmds) = << >> /\ st \in Restful) \/ Script(st, Tail(cmds))
    BY <1>1, RestfulKinds, ClaimedRuns DEF Script
  <1>3. Course' /\ cmds' = Tail(cmds) /\ queue' = << >>
    BY <1>1, <1>2, QuietCourse DEF RunReport
  <1>4. Types'
    BY RunTypes DEF RunReport, stored, IInv, Types
  <1>5. Base(st).kind \in OpenKinds \/ cmds' \in Closing
    BY <1>1, <1>3, ClaimedRuns DEF OpenKinds, Base, Closing
  <1>6. cmds' # Claimed
    BY <1>1, <1>3, ClaimedRuns, NotClaimed
  <1>7. QED
    BY <1>1, <1>3, <1>4, <1>5, <1>6, RunOK, Ones DEF RunReport

LEMMA JoinOK == IInv /\ RunJoinWifi => IInv'
  <1> SUFFICES ASSUME IInv, RunJoinWifi PROVE IInv'
    OBVIOUS
  <1>1. st.kind = "Joining" /\ Tail(cmds) = << >> /\ cmds # << >> /\ On
    BY RunningIs, RunningPlace DEF RunJoinWifi, Place
  <1>2. PICK kind \in {"WifiUp", "WifiFailed"} : Answer(kind)
    BY DEF RunJoinWifi
  <1>3. Awaited(st, Event(kind)) /\ kind \in Answers
    BY <1>1, Names DEF Awaited, Answers
  <1>4. Course' /\ queue' = <<Event(kind)>> /\ cmds' # Claimed
    BY <1>1, <1>2, <1>3, AnswerCourse DEF RunJoinWifi
  <1>5. Types'
    BY RunTypes DEF RunJoinWifi, stored, IInv, Types
  <1>6. queue' # <<Event("ClaimAccepted")>>
    BY <1>4, Ones, Names
  <1>7. QED
    BY <1>1, <1>4, <1>5, <1>6, RunOK DEF RunJoinWifi, OpenKinds, Base

LEMMA GrantTypes ==
    ASSUME IInv, NEW c \in Creds
    PROVE  /\ Granted(c) \in ServerRec /\ Granted(c).bound = c
           /\ Granted(c).accepted \subseteq Granted(c).redeemed
  <1>1. server \in ServerRec /\ server.accepted \subseteq server.redeemed
    BY DEF IInv, Types
  <1>2. /\ Granted(c).bound = c /\ Granted(c).redeemed = server.redeemed \cup {c}
        /\ Granted(c).accepted = (server.accepted \ {server.bound}) \cup {c}
        /\ Granted(c) \in ServerRec
    BY <1>1 DEF Granted, ServerRec
  <1>3. QED
    BY <1>1, <1>2

LEMMA RedeemOK == IInv /\ RunRedeemClaim => IInv'
  <1> SUFFICES ASSUME IInv, RunRedeemClaim PROVE IInv'
    OBVIOUS
  <1> DEFINE c == Head(cmds).creds
  <1>1. /\ st.kind = "Claiming" /\ Tail(cmds) = << >> /\ cmds # << >> /\ On
        /\ c = st.creds
    BY RunningIs, RunningPlace DEF RunRedeemClaim, Place
  <1>2. c \in Creds
    BY <1>1, StateKinds, WorkingKinds DEF IInv, Types
  <1>3. PICK kind \in {"ClaimAccepted", "ClaimRejected"} :
          /\ Answer(kind)
          /\ server' \in {server, Granted(c)} /\ (ram' = ram \/ ram' = [ram EXCEPT !.claimed = c])
          /\ kind = "ClaimAccepted" => server' = Granted(c) /\ ram' = [ram EXCEPT !.claimed = c]
    BY DEF RunRedeemClaim
  <1>4. Awaited(st, Event(kind)) /\ kind \in Answers
    BY <1>1, Names DEF Awaited, Answers
  <1>5. Course' /\ queue' = <<Event(kind)>> /\ cmds' # Claimed
    BY <1>1, <1>3, <1>4, AnswerCourse DEF RunRedeemClaim
  <1>6. [ram EXCEPT !.claimed = c] \in RamRec /\ [ram EXCEPT !.claimed = c].claimed = c
    BY <1>2 DEF IInv, Types, RamRec
  <1>7. Types'
    <2>1. ram' \in RamRec
      BY <1>3, <1>6 DEF IInv, Types
    <2>2. server' \in ServerRec /\ server'.accepted \subseteq server'.redeemed
      BY <1>2, <1>3, GrantTypes DEF IInv, Types
    <2>3. QED
      BY <2>1, <2>2, RunTypes DEF RunRedeemClaim, stored, IInv, Types
  <1>8. queue' # <<Event("ClaimAccepted")>> \/ ram'.claimed = server'.bound
    <2>1. CASE kind = "ClaimAccepted"
      BY <1>2, <1>3, <1>6, <2>1, GrantTypes
    <2>2. CASE kind = "ClaimRejected"
      BY <1>5, <2>2, Ones, Names
    <2>3. QED
      BY <2>1, <2>2
  <1>9. QED
    BY <1>1, <1>5, <1>7, <1>8, RunOK DEF RunRedeemClaim, OpenKinds, Base

LEMMA PersistOK == IInv /\ RunPersist => IInv'
  <1> SUFFICES ASSUME IInv, RunPersist PROVE IInv'
    OBVIOUS
  <1> DEFINE new == [creds |-> ram.credentials, token |-> ram.claimed]
  <1>1. st.kind = "Ready" /\ cmds = Claimed /\ cmds # << >> /\ On
    BY RunningIs, RunningPlace DEF RunPersist, Place
  <1>2. Tail(cmds) = Claimed2 /\ Script(st, Claimed2) /\ Claimed2 \in Closing
    BY <1>1, ClaimedRuns DEF Script, Closing
  <1>3. Course' /\ cmds' = Claimed2 /\ queue' = << >> /\ cmds' # Claimed
    BY <1>1, <1>2, QuietCourse, ClaimedRuns DEF RunPersist
  <1>4. Types'
    <2>1. CASE UNCHANGED <<flash, ram>>
      BY <2>1, RunTypes DEF RunPersist, IInv, Types
    <2>2. CASE /\ ram.credentials # None /\ ram.claimed # None
               /\ flash' = new /\ ram' = [ram EXCEPT !.provisioned = new]
      <3>1. new \in Provisioned
        BY <2>2 DEF IInv, Types, RamRec, Provisioned
      <3>2. ram' \in RamRec
        BY <2>2, <3>1 DEF IInv, Types, RamRec
      <3>3. QED
        BY <2>2, <3>1, <3>2, RunTypes DEF RunPersist, IInv, Types
    <2>3. QED
      BY <2>1, <2>2 DEF RunPersist
  <1>5. QED
    BY <1>1, <1>2, <1>3, <1>4, RunOK, Ones DEF RunPersist

LEMMA CaptureOK == IInv /\ RunCapture => IInv'
  <1> SUFFICES ASSUME IInv, RunCapture PROVE IInv'
    OBVIOUS
  <1>1. st.kind = "Capturing" /\ Tail(cmds) = << >> /\ cmds # << >> /\ On /\ cmds \notin Closing
    BY RunningIs, RunningPlace DEF RunCapture, Place
  <1>2. PICK kind \in {"CaptureCommitted", "CaptureFailed"} : Answer(kind)
    BY DEF RunCapture
  <1>3. Awaited(st, Event(kind)) /\ kind \in Answers
    BY <1>1, Names DEF Awaited, Answers
  <1>4. Course' /\ queue' = <<Event(kind)>> /\ cmds' # Claimed
    BY <1>1, <1>2, <1>3, AnswerCourse DEF RunCapture
  <1>5. shots' \in 0..MaxShots /\ spool' \subseteq Shots
    <2>1. shots \in 0..MaxShots /\ spool \subseteq Shots
      BY DEF IInv, Types
    <2>2. CASE shots < MaxShots /\ shots' = shots + 1 /\ spool' = spool \cup {shots + 1}
      BY <2>1, <2>2, BoundAssumption DEF Shots
    <2>3. CASE UNCHANGED <<shots, spool>>
      BY <2>1, <2>3
    <2>4. QED
      BY <2>2, <2>3 DEF RunCapture
  <1>6. Types'
    BY <1>5, RunTypes DEF RunCapture, IInv, Types
  <1>7. queue' # <<Event("ClaimAccepted")>>
    BY <1>4, Ones, Names
  <1>8. QED
    BY <1>1, <1>4, <1>6, <1>7, RunOK DEF RunCapture

(* Draining, one capture after the other.                                  *)
LEMMA DrainStepCourse ==
    ASSUME IInv, cmds # << >>, RunStep, st.kind \in {"Ready", "Uploading"},
           NEW todo \in SUBSET Shots, NEW ok \in BOOLEAN,
           cmds' = <<Draining(todo, ok)>>, queue' = queue
    PROVE  Course' /\ cmds' # Claimed /\ queue' # <<Event("ClaimAccepted")>>
  <1>1. cmds' \in Drains
    BY DEF Drains
  <1>2. Script(st, cmds')
    BY <1>1 DEF Script
  <1>3. queue' = << >> /\ st' = st /\ detector' = detector
    BY RunningPlace DEF RunStep
  <1>4. QED
    BY <1>2, <1>3, RunningPlace, NotClaimed, Ones DEF Course, Armed

LEMMA UploadAnswered ==
    ASSUME IInv, cmds # << >>, RunStep, st.kind \in {"Ready", "Uploading"}, Tail(cmds) = << >>,
           NEW kind \in {"UploadSucceeded", "UploadFailed"}, Answer(kind)
    PROVE  Course' /\ cmds' # Claimed /\ queue' # <<Event("ClaimAccepted")>>
  <1>1. Awaited(st, Event(kind)) /\ kind \in Answers
    BY Names DEF Awaited, Answers
  <1>2. Course' /\ queue' = <<Event(kind)>> /\ cmds' # Claimed
    BY <1>1, AnswerCourse
  <1>3. QED
    BY <1>2, Ones, Names

LEMMA DrainQueueOK == IInv /\ RunDrainQueue => IInv'
  <1> SUFFICES ASSUME IInv, RunDrainQueue PROVE IInv'
    OBVIOUS
  <1>1. /\ st.kind \in {"Ready", "Uploading"} /\ Tail(cmds) = << >> /\ cmds # << >> /\ On
        /\ cmds \notin Closing
    BY RunningIs, RunningPlace DEF RunDrainQueue, Place
  <1>2. spool \in SUBSET Shots
    BY DEF IInv, Types
  <1>3. Course' /\ cmds' # Claimed /\ queue' # <<Event("ClaimAccepted")>>
    <2>1. CASE Answer("UploadFailed")
      BY <1>1, <2>1, UploadAnswered DEF RunDrainQueue
    <2>2. CASE cmds' = <<Draining(spool, TRUE)>> \o Tail(cmds) /\ UNCHANGED queue
      <3>1. cmds' = <<Draining(spool, TRUE)>>
        BY <1>1, <2>2, Ones
      <3>2. QED
        BY <1>1, <1>2, <2>2, <3>1, DrainStepCourse DEF RunDrainQueue
    <2>3. QED
      BY <2>1, <2>2 DEF RunDrainQueue
  <1>4. Types'
    BY RunTypes DEF RunDrainQueue, stored, IInv, Types
  <1>5. QED
    BY <1>1, <1>3, <1>4, RunOK DEF RunDrainQueue

LEMMA DrainOneOK == IInv /\ DrainOne => IInv'
  <1> SUFFICES ASSUME IInv, DrainOne PROVE IInv'
    OBVIOUS
  <1> DEFINE d == Head(cmds)
             p == Min(d.todo)
  <1>1. /\ st.kind \in {"Ready", "Uploading"} /\ Tail(cmds) = << >> /\ cmds # << >> /\ On
        /\ cmds \notin Closing /\ d.todo \in SUBSET Shots /\ d.ok \in BOOLEAN
    BY RunningIs, RunningPlace DEF DrainOne, Place
  <1>2. p \in Shots
    <2>1. d.todo # {} /\ d.todo \in SUBSET Nat
      BY <1>1 DEF DrainOne, Shots
    <2>2. QED
      BY <1>1, <2>1, MinOK
  <1>3. PICK ok \in BOOLEAN : /\ cmds' = <<Draining(d.todo \ {p}, ok)>> \o Tail(cmds)
                              /\ \/ UNCHANGED server
                                 \/ server' = [server EXCEPT !.photos = @ \cup {p}]
                              /\ spool' = spool \/ spool' = spool \ {p}
    BY <1>1 DEF DrainOne
  <1>4. cmds' = <<Draining(d.todo \ {p}, ok)>>
    BY <1>1, <1>3, Ones
  <1>5. Course' /\ cmds' # Claimed /\ queue' # <<Event("ClaimAccepted")>>
    BY <1>1, <1>4, DrainStepCourse DEF DrainOne
  <1>6. server' \in ServerRec /\ server'.accepted \subseteq server'.redeemed
    <2>1. server \in ServerRec /\ server.accepted \subseteq server.redeemed
      BY DEF IInv, Types
    <2>2. CASE server' = [server EXCEPT !.photos = @ \cup {p}]
      BY <1>2, <2>1, <2>2 DEF ServerRec
    <2>3. QED
      BY <1>3, <2>1, <2>2
  <1>7. spool' \subseteq Shots
    BY <1>3 DEF IInv, Types
  <1>8. Types'
    BY <1>6, <1>7, RunTypes DEF DrainOne, IInv, Types
  <1>9. QED
    BY <1>1, <1>5, <1>8, RunOK DEF DrainOne

LEMMA DrainEndsOK == IInv /\ DrainEnds => IInv'
  <1> SUFFICES ASSUME IInv, DrainEnds PROVE IInv'
    OBVIOUS
  <1>1. /\ st.kind \in {"Ready", "Uploading"} /\ Tail(cmds) = << >> /\ cmds # << >> /\ On
        /\ cmds \notin Closing
    BY RunningIs, RunningPlace DEF DrainEnds, Place
  <1>2. Course' /\ cmds' # Claimed /\ queue' # <<Event("ClaimAccepted")>>
    BY <1>1, UploadAnswered DEF DrainEnds
  <1>3. Types'
    BY RunTypes DEF DrainEnds, stored, IInv, Types
  <1>4. QED
    BY <1>1, <1>2, <1>3, RunOK DEF DrainEnds

LEMMA EraseOK == IInv /\ RunEraseAll => IInv'
  <1> SUFFICES ASSUME IInv, RunEraseAll PROVE IInv'
    OBVIOUS
  <1>1. st.kind = "Unprovisioned" /\ cmds = Erase /\ cmds # << >> /\ On
    BY RunningIs, RunningPlace DEF RunEraseAll, Place
  <1>2. Tail(cmds) = <<Do("Reboot")>> /\ Script(st, Tail(cmds)) /\ Tail(cmds) \in Closing
    BY <1>1, ClaimedRuns DEF Script, Closing
  <1>3. Course' /\ cmds' = Tail(cmds) /\ queue' = << >>
    BY <1>1, <1>2, QuietCourse DEF RunEraseAll
  <1>4. server' \in ServerRec /\ server'.accepted \subseteq server'.redeemed
    <2>1. server \in ServerRec /\ server.accepted \subseteq server.redeemed
      BY DEF IInv, Types
    <2>2. CASE server' = [server EXCEPT !.bound = None]
      BY <2>1, <2>2 DEF ServerRec
    <2>3. QED
      BY <2>1, <2>2 DEF RunEraseAll
  <1>5. ram' \in RamRec
    BY DEF RunEraseAll, NewRam, RamRec
  <1>6. Types'
    BY <1>4, <1>5, RunTypes DEF RunEraseAll, IInv, Types
  <1>7. QED
    BY <1>1, <1>2, <1>3, <1>6, RunOK, NotClaimed, Ones DEF RunEraseAll

-----------------------------------------------------------------------------
(* Power, the clock, the polls and the phone.                              *)

LEMMA NewOK == DetectorOK(NewDetector) /\ ~Armed(NewDetector) /\ NewRam \in RamRec
               /\ Unprovisioned \in Restful /\ Unprovisioned \in States
               /\ Unprovisioned.kind = "Unprovisioned"
  <1>1. NewDetector \in Detector /\ NewDetector.window = None /\ NewDetector.held = None
    BY DEF NewDetector, Detector
  <1>2. QED
    BY <1>1, Made, MadeKinds, RestfulIsState DEF DetectorOK, Armed, NewRam, RamRec

LEMMA InitOK == Init => IInv
  <1> SUFFICES ASSUME Init PROVE IInv
    OBVIOUS
  <1>1. Types
    <2>1. server \in ServerRec /\ server.accepted \subseteq server.redeemed
      BY DEF Init, ServerRec
    <2>2. 0 \in 0..MaxShots /\ Len(inbox) <= MaxInbox /\ inbox \in Seq(Creds)
      BY BoundAssumption DEF Init
    <2>3. QED
      BY <2>1, <2>2, NewOK DEF Init, Types, DetectorOK
  <1>2. Course
    BY NewOK DEF Init, Course
  <1>3. QED
    BY <1>1, <1>2, NotClaimed, Ones DEF Init, IInv, OffClean, LinkKept, ClaimStands

LEMMA PowerOffOK == IInv /\ PowerOff /\ UNCHANGED <<stored, server>> => IInv'
  <1> SUFFICES ASSUME IInv, PowerOff, UNCHANGED <<stored, server>> PROVE IInv'
    OBVIOUS
  <1>1. Types'
    <2>1. Len(inbox') <= MaxInbox /\ inbox' \in Seq(Creds)
      BY BoundAssumption DEF PowerOff
    <2>2. QED
      BY <2>1, NewOK DEF PowerOff, stored, IInv, Types, DetectorOK
  <1>2. Course'
    BY NewOK DEF PowerOff, Course, Armed
  <1>3. OffClean' /\ LinkKept' /\ ClaimStands'
    BY NotClaimed, Ones DEF PowerOff, OffClean, LinkKept, ClaimStands
  <1>4. QED
    BY <1>1, <1>2, <1>3 DEF IInv

LEMMA BootOK == IInv /\ Boot => IInv'
  <1> SUFFICES ASSUME IInv, Boot PROVE IInv'
    OBVIOUS
  <1>1. /\ st = Unprovisioned /\ detector = NewDetector /\ cmds = << >> /\ link = FALSE
        /\ On'
    BY DEF IInv, OffClean, Boot, On
  <1>2. PICK provisioned \in {flash, None} : ram' = [NewRam EXCEPT !.provisioned = provisioned]
    BY DEF Boot
  <1>3. PICK kind \in {"BootNew", "BootProvisioned"} : queue' = <<Event(kind)>>
    BY DEF Boot
  <1>4. Types'
    <2>1. ram' \in RamRec
      BY <1>2, NewOK DEF IInv, Types, RamRec
    <2>2. QED
      BY <2>1 DEF Boot, stored, IInv, Types
  <1>5. Event(kind) \in Events /\ Event(kind).kind = kind
    BY DEF Event, Events
  <1>6. Awaited(st, Event(kind))' /\ InStep(st, Event(kind))'
    BY <1>1, <1>5, NewOK DEF Boot, Awaited, InStep, Answers, Armed
  <1>7. Course'
    BY <1>1, <1>3, <1>5, <1>6 DEF Boot, Course
  <1>8. queue' # <<Event("ClaimAccepted")>> /\ cmds' # Claimed
    BY <1>1, <1>3, Ones, Names, NotClaimed DEF Boot
  <1>9. QED
    BY <1>1, <1>4, <1>7, <1>8 DEF Boot, IInv, OffClean, LinkKept, ClaimStands

LEMMA ElapseOK == IInv /\ Elapse => IInv'
  <1> SUFFICES ASSUME IInv, Elapse PROVE IInv'
    OBVIOUS
  <1>1. st \in States /\ DetectorOK(detector)
    BY DEF IInv, Types, DetectorOK
  <1>2. /\ st' \in States /\ st'.kind = st.kind /\ Base(st').kind = Base(st).kind
        /\ st \in Restful => st' \in Restful
        /\ st \in Working => st' = st
        /\ st = Unprovisioned => st' = st
    BY <1>1, OlderStateOK DEF Elapse
  <1>3. DetectorOK(detector') /\ (Armed(detector') <=> Armed(detector))
    BY <1>1, OlderOK DEF Elapse
  <1>4. Types'
    BY <1>2, <1>3 DEF Elapse, stored, IInv, Types, DetectorOK
  <1>5. Course'
    <2>1. CASE queue = << >> /\ cmds = << >> /\ st \in Restful
               /\ (Armed(detector) <=> st.kind = "ResetArmed")
      BY <1>2, <1>3, <2>1 DEF Elapse, Course
    <2>2. ASSUME cmds = << >>, NEW e \in Events, queue = <<e>>, Awaited(st, e), InStep(st, e)
          PROVE  Course'
      <3>1. Awaited(st, e)'
        BY <1>2, <2>2 DEF Awaited
      <3>2. InStep(st, e)'
        BY <1>2, <1>3, <2>2 DEF InStep
      <3>3. QED
        BY <2>2, <3>1, <3>2 DEF Elapse, Course
    <2>3. CASE queue = << >> /\ Script(st, cmds) /\ ~Armed(detector)
      <3>1. st.kind \in {"Joining", "Claiming"} => st' = st
        BY <1>1, <1>2, StateKinds
      <3>2. Script(st', cmds)
        BY <1>2, <2>3, <3>1 DEF Script
      <3>3. QED
        BY <1>3, <2>3, <3>2 DEF Elapse, Course
    <2>4. QED
      BY <2>1, <2>2, <2>3 DEF IInv, Course
  <1>6. QED
    BY <1>2, <1>4, <1>5 DEF Elapse, IInv, OffClean, LinkKept, ClaimStands, stored, On

LEMMA QuietIs ==
    ASSUME IInv, Quiet
    PROVE  st \in Restful /\ st \in States /\ (Armed(detector) <=> st.kind = "ResetArmed")
  <1>1. queue = << >> /\ cmds = << >>
    BY DEF Quiet
  <1>2. ~\E e : queue = <<e>>
    BY <1>1
  <1>3. cmds = << >> => ~Script(st, cmds)
    BY ScriptPlace
  <1>4. QED
    BY <1>1, <1>2, <1>3 DEF IInv, Course, Types

(* An event comes up from a poll, or none does.                            *)
LEMMA PolledOK ==
    ASSUME IInv, Quiet, On', st' = st, cmds' = << >>, link' = link, Types',
           \/ queue' = << >> /\ (Armed(detector') <=> st.kind = "ResetArmed")
           \/ \E e \in Events : /\ queue' = <<e>> /\ e.kind \notin Answers
                                /\ e.kind \notin {"BootNew", "BootProvisioned"}
                                /\ InStep(st, e)'
    PROVE  IInv'
  <1>1. st \in Restful
    BY QuietIs
  <1>2. queue' # <<Event("ClaimAccepted")>> /\ cmds' # Claimed
    BY Ones, Names, NotClaimed DEF Answers
  <1>3. Course'
    <2>1. CASE queue' = << >> /\ (Armed(detector') <=> st.kind = "ResetArmed")
      BY <1>1, <2>1 DEF Course
    <2>2. ASSUME NEW e \in Events, queue' = <<e>>, e.kind \notin Answers,
                 e.kind \notin {"BootNew", "BootProvisioned"}, InStep(st, e)'
          PROVE  Course'
      <3>1. Awaited(st, e)'
        BY <1>1, <2>2 DEF Awaited, Answers
      <3>2. QED
        BY <2>2, <3>1 DEF Course
    <2>3. QED
      BY <2>1, <2>2
  <1>4. LinkKept'
    <2>1. cmds \notin Closing
      BY ClaimedRuns, Ones DEF Quiet, Closing
    <2>2. QED
      BY <2>1 DEF IInv, LinkKept
  <1>5. QED
    BY <1>2, <1>3, <1>4 DEF IInv, OffClean, ClaimStands

LEMMA PollGestureOK == \A pressed \in BOOLEAN : IInv /\ PollGesture(pressed) => IInv'
  <1> SUFFICES ASSUME NEW pressed \in BOOLEAN, IInv, PollGesture(pressed) PROVE IInv'
    OBVIOUS
  <1> DEFINE polled == PollButton(detector, pressed)
  <1>1. DetectorOK(detector) /\ (Armed(detector) <=> st.kind = "ResetArmed") /\ Quiet
    BY QuietIs DEF PollGesture, IInv, Types, DetectorOK
  <1>2. Tells(detector, polled)
    BY <1>1, PollButtonOK
  <1>3. /\ detector' = polled.detector /\ On'
        /\ queue' = IF polled.gesture = None THEN << >> ELSE <<Event(polled.gesture)>>
    BY DEF PollGesture, On
  <1>4. Types'
    BY <1>2, <1>3 DEF PollGesture, stored, IInv, Types, Tells, DetectorOK
  <1>5. CASE polled.gesture = None
    BY <1>1, <1>2, <1>3, <1>4, <1>5, GestureNames, PolledOK DEF PollGesture, Tells, Quiet
  <1>6. CASE polled.gesture # None
    <2>0. /\ polled.gesture \in Gestures
          /\ Event(polled.gesture) \in Events /\ Event(polled.gesture).kind = polled.gesture
      BY <1>2, <1>6 DEF Tells, Event, Events
    <2>1. PICK e \in Events : /\ e = Event(polled.gesture) /\ e.kind = polled.gesture
                              /\ polled.gesture \in Gestures
      BY <2>0
    <2>2. e.kind \notin Answers /\ e.kind \notin {"BootNew", "BootProvisioned"}
      BY <2>1 DEF Gestures, Answers
    <2>3. InStep(st, e)'
      BY <1>1, <1>2, <1>3, <2>1 DEF PollGesture, Tells, InStep
    <2>4. QED
      BY <1>1, <1>3, <1>4, <1>6, <2>1, <2>2, <2>3, PolledOK DEF PollGesture, Quiet
  <1>7. QED
    BY <1>5, <1>6

LEMMA PollCredentialsOK == IInv /\ PollCredentials => IInv'
  <1> SUFFICES ASSUME IInv, PollCredentials PROVE IInv'
    OBVIOUS
  <1>1. (Armed(detector) <=> st.kind = "ResetArmed") /\ Quiet /\ On' /\ detector' = detector
    BY QuietIs DEF PollCredentials, On
  <1>2. inbox \in Seq(Creds) /\ Len(inbox) <= MaxInbox
    BY DEF IInv, Types
  <1>3. inbox' \in Seq(Creds) /\ Len(inbox') <= MaxInbox
    <2>1. CASE inbox = << >>
      BY <1>2, <2>1 DEF PollCredentials
    <2>2. CASE inbox # << >>
      <3>1. inbox' = Tail(inbox)
        BY <2>2 DEF PollCredentials
      <3>2. /\ Tail(inbox) \in Seq(Creds)
            /\ Len(Tail(inbox)) = Len(inbox) - 1 /\ Len(inbox) \in Nat
        BY <1>2, <2>2
      <3>3. QED
        BY <1>2, <3>1, <3>2, BoundAssumption
    <2>3. QED
      BY <2>1, <2>2
  <1>4. Types'
    BY <1>3 DEF PollCredentials, stored, IInv, Types
  <1>5. CASE inbox = << >>
    BY <1>1, <1>4, <1>5, PolledOK DEF PollCredentials, Quiet
  <1>6. CASE inbox # << >>
    <2>1. Head(inbox) \in Creds
      BY <1>2, <1>6
    <2>2. PICK e \in Events : e.kind = "Credentials" /\ queue' = <<e>>
      BY <1>6, <2>1 DEF PollCredentials, Credentials, Events
    <2>3. InStep(st, e)'
      BY <1>1, <2>2 DEF PollCredentials, InStep, Armed
    <2>4. QED
      BY <1>1, <1>4, <2>2, <2>3, PolledOK DEF PollCredentials, Quiet, Answers
  <1>7. QED
    BY <1>5, <1>6

LEMMA PollTickOK == IInv /\ PollTick => IInv'
  <1> SUFFICES ASSUME IInv, PollTick PROVE IInv'
    OBVIOUS
  <1>1. (Armed(detector) <=> st.kind = "ResetArmed") /\ Quiet /\ On' /\ detector' = detector
    BY QuietIs DEF PollTick, On
  <1>2. Types'
    BY DEF PollTick, stored, IInv, Types
  <1>3. Event("Tick") \in Events /\ Event("Tick").kind = "Tick" /\ queue' = <<Event("Tick")>>
    BY DEF PollTick, Event, Events
  <1>4. InStep(st, Event("Tick"))'
    BY <1>1, <1>3 DEF PollTick, InStep, Armed
  <1>5. QED
    BY <1>1, <1>2, <1>3, <1>4, PolledOK DEF PollTick, Quiet, Answers

LEMMA PhoneOK == \A c \in Creds : IInv /\ PhoneSends(c) => IInv'
  <1> SUFFICES ASSUME NEW c \in Creds, IInv, PhoneSends(c) PROVE IInv'
    OBVIOUS
  <1>1. inbox' \in Seq(Creds) /\ Len(inbox') <= MaxInbox
    BY BoundAssumption DEF PhoneSends, IInv, Types
  <1>2. Types'
    BY <1>1 DEF PhoneSends, loop, stored, IInv, Types
  <1>3. QED
    BY <1>2 DEF PhoneSends, loop, IInv, Course, OffClean, LinkKept, ClaimStands, On,
                InStep, Armed

LEMMA DispatchOK == IInv /\ Dispatch => IInv'
  <1> SUFFICES ASSUME IInv, Dispatch PROVE IInv'
    OBVIOUS
  <1>1. PICK e \in Events : queue = <<e>> /\ Awaited(st, e) /\ InStep(st, e)
    BY ScriptPlace DEF Dispatch, IInv, Course
  <1> DEFINE o == Handle(st, e)
  <1>2. /\ Head(queue) = e /\ queue' = << >> /\ st' = o.state /\ cmds' = o.commands
        /\ ram' = RememberCredentials(e) /\ On /\ On' /\ cmds = << >>
    BY <1>1, Ones DEF Dispatch, On
  <1>3. Possible(st, e)
    BY <1>1 DEF IInv, Types, InStep, Possible
  <1>4. Sound(st, e, o)
    BY <1>3, HandleSound
  <1>5. ram' \in RamRec /\ ram'.claimed = ram.claimed
    <2>1. ram \in RamRec
      BY DEF IInv, Types
    <2>2. CASE e.kind = "Credentials"
      <3>1. e.creds \in Creds
        BY <2>2, EventKinds
      <3>2. QED
        BY <1>2, <2>1, <2>2, <3>1 DEF RememberCredentials, RamRec
    <2>3. CASE e.kind # "Credentials"
      BY <1>2, <2>1, <2>3 DEF RememberCredentials
    <2>4. QED
      BY <2>2, <2>3
  <1>6. Types'
    BY <1>2, <1>4, <1>5 DEF Dispatch, stored, IInv, Types, Sound
  <1>7. Armed(detector) <=> st'.kind = "ResetArmed"
    BY <1>1, <1>2, <1>4 DEF InStep, Sound, Arms
  <1>8. Course'
    <2>1. CASE o.commands = << >> /\ o.state \in Restful
      BY <1>2, <1>7, <2>1 DEF Dispatch, Course, Armed
    <2>2. CASE Script(o.state, o.commands)
      <3>1. st'.kind # "ResetArmed" /\ Script(st', cmds')
        BY <1>2, <2>2, ScriptPlace
      <3>2. QED
        BY <1>2, <1>7, <3>1 DEF Dispatch, Course, Armed
    <2>3. QED
      BY <1>4, <2>1, <2>2 DEF Sound
  <1>9. LinkKept'
    <2>1. cmds \notin Closing
      BY <1>2, ClaimedRuns, Ones DEF Closing
    <2>2. link => Base(st).kind \in OpenKinds
      BY <2>1 DEF IInv, LinkKept, OpenKinds
    <2>3. link' => Base(st').kind \in OpenKinds \/ cmds' \in Closing
      BY <1>2, <1>4, <2>2 DEF Dispatch, Sound
    <2>4. QED
      BY <2>3 DEF LinkKept, OpenKinds, Base
  <1>10. ClaimStands'
    <2>1. ASSUME cmds' = Claimed PROVE ram'.claimed = server'.bound
      <3>1. e.kind = "ClaimAccepted"
        BY <1>2, <1>4, <2>1 DEF Sound
      <3>2. e = Event("ClaimAccepted")
        BY <3>1 DEF Events, Event
      <3>3. QED
        BY <1>1, <1>5, <3>2 DEF Dispatch, IInv, ClaimStands
    <2>2. queue' # <<Event("ClaimAccepted")>>
      BY <1>2, Ones
    <2>3. QED
      BY <2>1, <2>2 DEF ClaimStands
  <1>11. QED
    BY <1>2, <1>6, <1>8, <1>9, <1>10 DEF IInv, OffClean

-----------------------------------------------------------------------------
(* Every step keeps the invariant.                                         *)

LEMMA WorkOK == IInv /\ Work => IInv'
  <1> SUFFICES ASSUME IInv, Work PROVE IInv'
    OBVIOUS
  <1>1. CASE RunReboot
    BY <1>1, PowerOffOK DEF RunReboot
  <1>2. CASE \/ Dispatch \/ RunStartProvisioning \/ RunStopProvisioning \/ RunReport
             \/ RunJoinWifi \/ RunRedeemClaim \/ RunPersist
    BY <1>2, DispatchOK, StartOK, StopOK, ReportOK, JoinOK, RedeemOK, PersistOK
  <1>3. CASE RunCapture \/ RunDrainQueue \/ DrainOne \/ DrainEnds \/ RunEraseAll
    BY <1>3, CaptureOK, DrainQueueOK, DrainOneOK, DrainEndsOK, EraseOK
  <1>4. QED
    BY <1>1, <1>2, <1>3 DEF Work

LEMMA StutterOK == IInv /\ UNCHANGED vars => IInv'
  BY DEF vars, loop, stored, IInv, Types, Course, OffClean, LinkKept, ClaimStands, On,
         InStep, Armed

LEMMA StepOK == IInv /\ [Next]_vars => IInv'
  <1> SUFFICES ASSUME IInv, [Next]_vars PROVE IInv'
    OBVIOUS
  <1>1. CASE Boot \/ PowerLoss \/ Elapse
    BY <1>1, BootOK, PowerOffOK, ElapseOK DEF PowerLoss
  <1>2. CASE Poll3
    BY <1>2, PollGestureOK, PollCredentialsOK, PollTickOK DEF Poll3
  <1>3. CASE \E c \in Creds : PhoneSends(c)
    BY <1>3, PhoneOK
  <1>4. CASE Work
    BY <1>4, WorkOK
  <1>5. CASE UNCHANGED vars
    BY <1>5, StutterOK
  <1>6. QED
    BY <1>1, <1>2, <1>3, <1>4, <1>5 DEF Next

(* Whatever the gestures, payloads, answers, failures and cuts of power:   *)
(* the invariant above holds.                                              *)
THEOREM InvariantOK == Spec => []IInv
  <1>1. Init => IInv
    BY InitOK
  <1>2. IInv /\ [Next]_vars => IInv'
    BY StepOK
  <1>3. QED
    BY <1>1, <1>2, PTL DEF Spec

-----------------------------------------------------------------------------
(* What the invariant says, and what a step may not do.                    *)

LEMMA ScriptTypes ==
    ASSUME NEW s \in States, NEW c, Script(s, c)
    PROVE  c \in Seq(Commands)
  <1>1. \A op \in Ops : Do(op) \in Commands
    BY DEF Do, Commands
  <1>2. /\ Drain \in Commands
        /\ {Do("StartProvisioning"), Do("ReportFailed"), Do("ReportAwaitingConfirm"),
            Do("Capture"), Do("StopProvisioning"), Do("Reboot"), Do("EraseAll"),
            Do("PersistProvisioned"), Do("ReportClaimed")} \subseteq Commands
    BY <1>1, Names DEF Ops
  <1>3. \A x \in Commands : <<x>> \in Seq(Commands)
    OBVIOUS
  <1>4. {Claimed, Claimed2, Claimed3, Erase} \subseteq Seq(Commands)
    BY <1>2 DEF Claimed, Claimed2, Claimed3, Erase
  <1>5. CASE s.kind \in {"Joining", "Claiming"}
    <2>1. s.creds \in Creds
      BY <1>5, StateKinds, WorkingKinds
    <2>2. With("JoinWifi", s.creds) \in Commands /\ With("RedeemClaim", s.creds) \in Commands
      BY <2>1 DEF With, Commands
    <2>3. QED
      BY <1>3, <1>5, <2>2 DEF Script
  <1>6. CASE c \in Drains
    <2>1. \A todo \in SUBSET Shots, ok \in BOOLEAN : Draining(todo, ok) \in Commands
      BY DEF Draining, Commands
    <2>2. CASE c = <<Drain>>
      BY <1>2, <1>3, <2>2
    <2>3. ASSUME NEW todo \in SUBSET Shots, NEW ok \in BOOLEAN, c = <<Draining(todo, ok)>>
          PROVE  c \in Seq(Commands)
      BY <1>3, <2>1, <2>3, Zenon
    <2>4. QED
      BY <1>6, <2>2, <2>3 DEF Drains
  <1>7. CASE s.kind \notin {"Joining", "Claiming"} /\ c \notin Drains
    BY <1>2, <1>3, <1>4, <1>7 DEF Script
  <1>8. QED
    BY <1>5, <1>6, <1>7

(* TypeOK: every variable has its type, and a reset is never armed inside  *)
(* an armed reset.                                                         *)
THEOREM TypeCorrect == Spec => []TypeOK
  <1>1. IInv => TypeOK
    <2> SUFFICES ASSUME IInv PROVE TypeOK
      OBVIOUS
    <2>1. Types
      BY DEF IInv
    <2>2. cmds \in Seq(Commands) /\ queue \in Seq(Events)
      <3>1. CASE cmds = << >> /\ queue = << >>
        BY <3>1
      <3>2. ASSUME cmds = << >>, NEW e \in Events, queue = <<e>>
            PROVE  cmds \in Seq(Commands) /\ queue \in Seq(Events)
        BY <3>2
      <3>3. CASE queue = << >> /\ Script(st, cmds)
        BY <2>1, <3>3, ScriptTypes DEF Types
      <3>4. QED
        BY <3>1, <3>2, <3>3 DEF IInv, Course
    <2>3. /\ ram.credentials \in Creds \cup {None} /\ ram.claimed \in Creds \cup {None}
          /\ ram.provisioned \in Provisioned \cup {None}
      BY <2>1 DEF Types, RamRec
    <2>4. /\ server.bound \in Creds \cup {None} /\ server.photos \subseteq Shots
          /\ server.redeemed \subseteq Creds /\ server.accepted \subseteq server.redeemed
      BY <2>1 DEF Types, ServerRec
    <2>5. QED
      BY <2>1, <2>2, <2>3, <2>4 DEF Types, TypeOK
  <1>2. QED
    BY <1>1, InvariantOK, PTL

(* NeverStranded: between polls the machine waits for no command; joining, *)
(* claiming, capturing and uploading end in the dispatch they began in.    *)
THEOREM NothingIsAwaited == Spec => []NeverStranded
  <1>1. IInv => NeverStranded
    <2> SUFFICES ASSUME IInv, Quiet
                 PROVE  st \in Resting \/ (st.kind = "ResetArmed" /\ st.previous \in Resting)
      BY DEF NeverStranded
    <2>1. QED
      BY QuietIs, StateKinds
  <1>2. QED
    BY <1>1, InvariantOK, PTL

(* ArmedTogether: the gesture detector and the machine agree on whether a  *)
(* reset is armed, for any thresholds.                                     *)
THEOREM DetectorAgrees == Spec => []ArmedTogether
  <1>1. IInv => ArmedTogether
    BY QuietIs DEF ArmedTogether
  <1>2. QED
    BY <1>1, InvariantOK, PTL

(* LinkOnlyWhilePairing: the provisioning link is open only while the      *)
(* machine is pairing, under an armed reset too.                           *)
THEOREM LinkIsClosed == Spec => []LinkOnlyWhilePairing
  <1>1. IInv => LinkOnlyWhilePairing
    <2> SUFFICES ASSUME IInv, Quiet, link PROVE Base(st).kind \in {"Pairing", "AwaitingConfirm"}
      BY DEF LinkOnlyWhilePairing
    <2>1. Base(st).kind \in OpenKinds
      <3>1. cmds \notin Closing
        BY ClaimedRuns, Ones DEF Quiet, Closing
      <3>2. QED
        BY <3>1 DEF IInv, LinkKept, OpenKinds
    <2>2. Base(st) \in Resting
      BY QuietIs, StateKinds DEF Base
    <2>3. QED
      BY <2>1, <2>2, RestingKinds DEF OpenKinds
  <1>2. QED
    BY <1>1, InvariantOK, PTL

(* CaptureKept: a capture leaves the spool only once the server has it, or *)
(* in a full reset.                                                        *)
THEOREM CapturesAreKept == Spec => CaptureKept
  <1>1. IInv /\ [Next]_vars => [\A p \in spool \ spool' : p \in server'.photos \/ Erasing]_vars
    <2> SUFFICES ASSUME IInv, Next, NEW p \in spool \ spool' PROVE p \in server'.photos \/ Erasing
      BY DEF vars
    <2>1. spool' # spool
      OBVIOUS
    <2>2. RunEraseAll \/ DrainOne \/ RunCapture
      BY <2>1 DEF Next, Boot, PowerLoss, Elapse, Poll3, PollGesture, PollCredentials, PollTick,
                  PhoneSends, Work, Dispatch, RunStartProvisioning, RunStopProvisioning,
                  RunReport, RunJoinWifi, RunRedeemClaim, RunPersist, RunDrainQueue, DrainEnds,
                  RunReboot, stored, loop
    <2>3. CASE RunEraseAll
      BY <2>3 DEF RunEraseAll, Erasing
    <2>4. CASE RunCapture
      BY <2>4 DEF RunCapture
    <2>5. CASE DrainOne
      <3>1. /\ spool' = spool \ {Min(Head(cmds).todo)}
            /\ server' = [server EXCEPT !.photos = @ \cup {Min(Head(cmds).todo)}]
        BY <2>1, <2>5 DEF DrainOne
      <3>2. server \in ServerRec
        BY DEF IInv, Types
      <3>3. server'.photos = server.photos \cup {Min(Head(cmds).todo)}
        BY <3>1, <3>2 DEF ServerRec
      <3>4. QED
        BY <3>1, <3>3
    <2>6. QED
      BY <2>2, <2>3, <2>4, <2>5
  <1>2. QED
    BY <1>1, InvariantOK, PTL DEF Spec, CaptureKept

(* OldCredentialsSurvive: credentials in flash are replaced only by those  *)
(* of a claim that the server granted and still stands by, and removed     *)
(* only by a full reset.                                                   *)
THEOREM CredentialsAreGranted == Spec => OldCredentialsSurvive
  <1>1. IInv /\ [Next]_vars =>
          [flash' # flash => IF flash' = None THEN Erasing ELSE flash'.token = server.bound]_vars
    <2> SUFFICES ASSUME IInv, Next, flash' # flash
                 PROVE  IF flash' = None THEN Erasing ELSE flash'.token = server.bound
      BY DEF vars
    <2>1. RunEraseAll \/ RunPersist
      BY DEF Next, Boot, PowerLoss, Elapse, Poll3, PollGesture, PollCredentials, PollTick,
             PhoneSends, Work, Dispatch, RunStartProvisioning, RunStopProvisioning, RunReport,
             RunJoinWifi, RunRedeemClaim, RunDrainQueue, DrainOne, DrainEnds, RunCapture,
             RunReboot, stored, loop
    <2>2. CASE RunEraseAll
      BY <2>2 DEF RunEraseAll, Erasing
    <2>3. CASE RunPersist
      <3>1. cmds = Claimed
        BY <2>3, RunningIs, RunningPlace DEF RunPersist, Place
      <3>2. ram.claimed = server.bound
        BY <3>1 DEF IInv, ClaimStands
      <3>3. /\ ram.credentials \in Creds /\ ram.claimed \in Creds
            /\ flash' = [creds |-> ram.credentials, token |-> ram.claimed]
        BY <2>3 DEF RunPersist, IInv, Types, RamRec
      <3>4. flash' \in Provisioned /\ flash'.token = server.bound
        BY <3>2, <3>3 DEF Provisioned
      <3>5. QED
        BY <3>4, NoneIsNoOther
    <2>4. QED
      BY <2>1, <2>2, <2>3
  <1>2. QED
    BY <1>1, InvariantOK, PTL DEF Spec, OldCredentialsSurvive

=============================================================================
