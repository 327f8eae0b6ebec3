------------------------- MODULE PhotoDeliveryProofs -------------------------
(***************************************************************************)
(* Theorems about PhotoDelivery, for any number of photos, admin requests, *)
(* requests at the server, rotations and events: its invariants, and that  *)
(* the camera and the server implement Delivery.                           *)
(***************************************************************************)
EXTENDS PhotoDelivery, WellFoundedInduction, TLAPS

-----------------------------------------------------------------------------
(* What the least number of a set is.                                      *)

Less == {p \in Nat \X Nat : p[1] < p[2]}

LEMMA LessIsWellFounded == IsWellFoundedOn(Less, Nat)
  BY NatLessThanWellFounded DEF OpToRel, Less

LEMMA LeastExists ==
    ASSUME NEW S \in SUBSET Nat, S # {}
    PROVE  \E x \in S : \A y \in S : x <= y
  <1>1. PICK x \in S : \A y \in S : <<y, x>> \notin Less
    BY LessIsWellFounded, WFMin
  <1>2. ASSUME NEW y \in S PROVE x <= y
    <2>1. <<y, x>> \in Nat \X Nat /\ <<y, x>>[1] = y /\ <<y, x>>[2] = x
      BY Zenon
    <2>2. CASE y < x
      <3>1. <<y, x>> \in Less
        BY <2>1, <2>2, Zenon DEF Less
      <3>2. QED
        BY <1>1, <3>1, Zenon
    <2>3. QED
      BY <2>2
  <1>3. QED
    BY <1>2

LEMMA MinOK ==
    ASSUME NEW S \in SUBSET Nat, S # {}
    PROVE  Min(S) \in S /\ \A y \in S : Min(S) <= y
  BY LeastExists, Zenon DEF Min

USE DEF flow, device, Server, DeviceRest, Files

-----------------------------------------------------------------------------
(* The inductive invariant.                                                *)

(* The photos that the gallery may know of: in the camera's queue, or      *)
(* filed.  No photo ever leaves this set.                                  *)
Known == queue \cup filed

Sending    == {"grant", "put", "confirm", "finish", "remove"}
Locked     == {"list", "wantCamera", "shooting", "send"} \cup Sending
CliPhases  == {"idle", "list", "send"} \cup Sending
Phase      == {"idle", "halt", "halting", "restart", "clear", "done", "wantOp"} \cup Locked

ThreadRec  == [op : Operations, pc : Phase, photo : Photos \cup {NoPhoto},
               todo : SUBSET Photos, inQueue : BOOLEAN, test : BOOLEAN]
PreviewRec == [running : BOOLEAN, stop : BOOLEAN,
               pc : {"off", "wantCamera", "live", "killed", "ending"}]
HandlerRec == [pc : Phases \cup {"idle"}, photo : Photos \cup {Absent},
               client : Clients \cup {Absent}, device : Devices \cup {Absent},
               saw : Renditions \cup {Absent}]
EditRec    == [pc : {"idle", "store", "redraw", "record", "erase", "unlist"},
               photo : Photos \cup {Absent}, saw : Renditions \cup {Absent}]
SweepPcs   == {"idle", "pending", "stored", "each", "recover", "recovered", "import", "thumbs"}
SweepRec   == [pc : SweepPcs, ready : SUBSET Photos, pending : SUBSET Photos,
               stored : SUBSET Photos, todo : SUBSET Photos, at : Photos \cup {Absent}]

DeviceTypes ==
    /\ queue \subseteq 1..taken /\ local \subseteq 1..taken /\ secret \subseteq 1..taken
    /\ taken \in 0..MaxPhotos /\ testMode \in BOOLEAN
    /\ opLock \in Service \cup {Nobody} /\ camera \in Service \cup {Nobody, "preview"}
    /\ preview \in PreviewRec /\ threads \in [Threads -> ThreadRec]
    /\ \A t \in Threads : threads[t].photo <= taken /\ threads[t].todo \subseteq 1..taken

(* Who works on the photos has the lock, but for the shell; the camera is  *)
(* with whom it says, and a preview that starts has no thread yet.         *)
Locks ==
    /\ opLock # Nobody => threads[opLock].pc # "idle"
    /\ \A t \in Service : threads[t].pc \in Locked => opLock = t
    /\ threads["cli"].pc \in CliPhases
    /\ \A t \in Threads : threads[t].pc = "shooting" =>
         camera = t /\ (threads[t].inQueue => ~threads[t].test)
    /\ camera = "preview" <=> preview.pc \in {"live", "killed"}
    /\ preview.running = FALSE => preview.pc = "off"
    /\ \A t \in Threads : threads[t].pc = "clear" => preview.running = TRUE /\ preview.pc = "off"
    /\ \A t, u \in Threads : threads[t].pc = "clear" /\ threads[u].pc = "clear" => t = u

FlowTypes ==
    /\ rows \in [Photos -> Row \cup {Absent}]
    /\ objects \in [Photos -> Renditions \cup {Absent}]
    /\ thumbs \in [Photos -> Renditions \cup {Absent}]
    /\ handlers \in [Slots -> HandlerRec]
    /\ replies \in [Clients -> {"none", "ok", "error"}]
    /\ edit \in EditRec /\ sweep \in SweepRec /\ flying \subseteq Photos
    /\ filed \subseteq 1..taken

(* Whatever the server has of a photo, and whatever it is at work on, is   *)
(* of a photo it may know of.                                              *)
Traced ==
    /\ secret \cap Known = {}
    /\ Listed \subseteq Known /\ Stored \subseteq Known /\ flying \subseteq Known
    /\ \A s \in Slots : handlers[s].pc # "idle" => handlers[s].photo \in Known
    /\ edit.pc # "idle" => edit.photo \in Known
    /\ sweep.stored \subseteq Known /\ sweep.todo \subseteq Known
    /\ sweep.pc \in {"recover", "recovered"} => sweep.at \in Known
    /\ \A t \in Threads : threads[t].pc \in Sending => threads[t].photo \in Known

(* Whatever comes after a thumbnail was drawn is of a photo that decodes.  *)
Readable ==
    /\ filed \cap Unreadable = {}
    /\ \A p \in Photos : thumbs[p] # Absent => p \notin Unreadable
    /\ \A s \in Slots : handlers[s].pc \in {"draw", "ready", "mark"} =>
                          handlers[s].photo \notin Unreadable
    /\ edit.pc \in {"store", "redraw", "record"} => edit.photo \notin Unreadable
    /\ sweep.pc \in {"recover", "recovered"} => sweep.at \notin Unreadable

(* A request that a client still waits for is that client's, and the only  *)
(* one; an answer is to the request the client waits for.                  *)
AskedAt(pc) == IF pc \in {"guard", "upsert"} THEN "grant" ELSE "finish"
Waits(c, pc, p) ==
    \E t \in Threads : ClientOf(t) = c /\ threads[t].pc = pc /\ threads[t].photo = p
Talk ==
    /\ \A s \in Slots : handlers[s].client # Absent =>
         /\ handlers[s].pc # "idle" /\ replies[handlers[s].client] = "none"
         /\ Waits(handlers[s].client, AskedAt(handlers[s].pc), handlers[s].photo)
    /\ \A s, u \in Slots : handlers[s].client = handlers[u].client => \/ s = u
                                                                      \/ handlers[s].client = Absent
    /\ \A c \in Clients : replies[c] # "none" =>
         \E t \in Threads : ClientOf(t) = c /\ threads[t].pc \in {"grant", "finish"}
    /\ \A t \in Threads : threads[t].pc = "finish" /\ Reply(t) = "ok" => threads[t].photo \in filed
    /\ \A t \in Threads : threads[t].pc = "remove" => threads[t].photo \in filed
    /\ \A s \in Slots : handlers[s].pc = "mark" => handlers[s].photo \in filed

DeviceInv == DeviceTypes /\ Locks /\ TestModeSilences
FlowInv   == FlowTypes /\ Traced /\ Readable /\ Talk
IInv      == DeviceInv /\ FlowInv /\ events \in 0..MaxEvents

-----------------------------------------------------------------------------
(* Names, and the photos there can be.                                     *)

LEMMA Names ==
    /\ Threads = Service \cup {"cli"} /\ "cli" \notin Service
    /\ "service" # "cli" /\ "preview" \notin Threads
    /\ Nobody \notin Threads /\ Nobody # "preview"
  BY RequestAssumption, NobodyAssumption DEF Threads, Service

LEMMA Ranges ==
    /\ Photos = 1..MaxPhotos /\ MaxPhotos \in Nat /\ MaxTurns \in Nat /\ MaxEvents \in Nat
    /\ Clients = {"service", "cli"} /\ Unreadable \subseteq Photos
    /\ Absent \notin Photos /\ Absent \notin Clients
    /\ Absent \notin Renditions /\ Absent \notin Nat
  BY CountAssumption, BoundAssumption, SystemAssumption, UnreadableAssumption, AbsentAssumption
     DEF Shots, Renditions

LEMMA ClientsOK ==
    /\ \A t \in Threads : ClientOf(t) \in Clients
    /\ \A t \in Service : ClientOf(t) = "service"
    /\ ClientOf("cli") = "cli"
  BY Names, Ranges DEF ClientOf

LEMMA KnownArePhotos ==
    ASSUME DeviceTypes, FlowTypes
    PROVE  Known \subseteq 1..taken /\ Known \subseteq Photos /\ taken \in Nat
           /\ 1..taken \subseteq Photos
  BY Ranges DEF DeviceTypes, FlowTypes, Known

LEMMA RestOK == Rest \in ThreadRec
  BY DEF Rest, ThreadRec, Operations, Phase, Locked, Sending, NoPhoto

LEMMA RestIs ==
    /\ Rest.op = "none" /\ Rest.pc = "idle" /\ Rest.photo = 0 /\ Rest.todo = {}
  BY DEF Rest, NoPhoto

-----------------------------------------------------------------------------
(* A thread moves.                                                         *)

Typed == threads \in [Threads -> ThreadRec]
OthersStay(t) == \A u \in Threads : u # t => threads'[u] = threads[u]

LEMMA FieldsOK ==
    ASSUME NEW r \in ThreadRec
    PROVE  /\ r.op \in Operations /\ r.pc \in Phase /\ r.photo \in Photos \cup {NoPhoto}
           /\ r.todo \in SUBSET Photos /\ r.inQueue \in BOOLEAN /\ r.test \in BOOLEAN
  BY Zenon DEF ThreadRec

LEMMA GoesOK ==
    ASSUME Typed, NEW t \in Threads, NEW pc \in Phase, Goes(t, pc)
    PROVE  /\ Typed' /\ OthersStay(t) /\ threads'[t].pc = pc
           /\ threads'[t].photo = threads[t].photo /\ threads'[t].todo = threads[t].todo
           /\ threads'[t].inQueue = threads[t].inQueue /\ threads'[t].test = threads[t].test
           /\ threads'[t].op = threads[t].op
  <1> DEFINE r == [threads[t] EXCEPT !.pc = pc]
  <1>1. threads[t] \in ThreadRec
    BY DEF Typed
  <1>2. r \in ThreadRec
    BY <1>1, Zenon DEF ThreadRec
  <1>3. /\ r.pc = pc /\ r.photo = threads[t].photo /\ r.todo = threads[t].todo
        /\ r.inQueue = threads[t].inQueue /\ r.test = threads[t].test /\ r.op = threads[t].op
    BY <1>1 DEF ThreadRec
  <1>4. threads' = [threads EXCEPT ![t] = r]
    BY DEF Goes
  <1> HIDE DEF r
  <1>5. QED
    BY <1>2, <1>3, <1>4 DEF Typed, OthersStay

LEMMA SetOK ==
    ASSUME Typed, NEW t \in Threads, NEW r \in ThreadRec, threads' = [threads EXCEPT ![t] = r]
    PROVE  Typed' /\ OthersStay(t) /\ threads'[t] = r
  BY DEF Typed, OthersStay

LEMMA EndsOK ==
    ASSUME Typed, NEW t \in Threads, Ends(t)
    PROVE  /\ Typed' /\ OthersStay(t) /\ threads'[t] = Rest
           /\ threads'[t].pc = "idle" /\ threads'[t].photo = 0 /\ threads'[t].todo = {}
           /\ opLock' = IF opLock = t THEN Nobody ELSE opLock
  BY SetOK, RestOK, RestIs, Zenon DEF Ends

LEMMA BeginOK ==
    ASSUME Typed, NEW t \in Threads, NEW op \in Operations, NEW pc \in Phase, Begin(t, op, pc)
    PROVE  /\ Typed' /\ OthersStay(t) /\ threads[t] = Rest /\ threads[t].pc = "idle"
           /\ threads'[t].pc = pc /\ threads'[t].photo = 0 /\ threads'[t].todo = {}
  <1> DEFINE r == [threads[t] EXCEPT !.op = op, !.pc = pc]
  <1>1. threads[t] \in ThreadRec /\ threads[t] = Rest
    BY DEF Typed, Begin
  <1>2. r \in ThreadRec
    BY <1>1, Zenon DEF ThreadRec
  <1>3. r.pc = pc /\ r.photo = threads[t].photo /\ r.todo = threads[t].todo
    BY <1>1 DEF ThreadRec
  <1>4. threads' = [threads EXCEPT ![t] = r]
    BY DEF Begin
  <1> HIDE DEF r
  <1>5. QED
    BY <1>1, <1>2, <1>3, <1>4, SetOK, RestIs

(* The next photo of a list.                                               *)
LEMMA NextOK ==
    ASSUME Typed, NEW t \in Threads, NEW todo \in SUBSET Photos, NEW photo \in todo,
           threads' = [threads EXCEPT ![t].pc = "send", ![t].photo = photo,
                                      ![t].todo = todo \ {photo}]
    PROVE  /\ Typed' /\ OthersStay(t)
           /\ threads'[t].pc = "send" /\ threads'[t].photo = photo
           /\ threads'[t].todo = todo \ {photo}
  <1> DEFINE r == [threads[t] EXCEPT !.pc = "send", !.photo = photo, !.todo = todo \ {photo}]
  <1>1. threads[t] \in ThreadRec
    BY DEF Typed
  <1>2. todo \ {photo} \in SUBSET Photos /\ photo \in Photos /\ "send" \in Phase
    BY DEF Phase, Locked
  <1>3. r \in ThreadRec
    BY <1>1, <1>2, Zenon DEF ThreadRec
  <1>4. r.pc = "send" /\ r.photo = photo /\ r.todo = todo \ {photo}
    BY <1>1 DEF ThreadRec
  <1>5. threads' = [threads EXCEPT ![t] = r]
    OBVIOUS
  <1> HIDE DEF r
  <1>6. QED
    BY <1>3, <1>4, <1>5, SetOK

-----------------------------------------------------------------------------
(* What a move of one thread must see to.                                  *)

Fits(t, r) ==
    /\ r.photo <= taken' /\ r.todo \subseteq 1..taken'
    /\ opLock' = t => r.pc # "idle"
    /\ t \in Service /\ r.pc \in Locked => opLock' = t
    /\ t = "cli" => r.pc \in CliPhases
    /\ r.pc = "shooting" => camera' = t /\ (r.inQueue = TRUE => r.test = FALSE)
    /\ testMode' = TRUE /\ t \in Service => r.pc \notin Sending

LockPasses(t) ==
    \/ opLock' = opLock
    \/ opLock = Nobody /\ opLock' = t /\ t \in Service
    \/ opLock = t /\ opLock' = Nobody

CameraPasses(t) ==
    /\ camera' \in Service \cup {Nobody, "preview"}
    /\ \A u \in Threads : u # t /\ camera = u => camera' = u
    /\ camera' = "preview" <=> preview'.pc \in {"live", "killed"}

PreviewFits(t, r) ==
    /\ preview' \in PreviewRec
    /\ preview'.running = FALSE => preview'.pc = "off"
    /\ r.pc = "clear" => preview'.running = TRUE /\ preview'.pc = "off"
    /\ r.pc = "clear" => \A u \in Threads : u # t => threads[u].pc # "clear"
    /\ \A u \in Threads : u # t /\ threads[u].pc = "clear" =>
         preview'.running = TRUE /\ preview'.pc = "off"

FilesFit ==
    /\ queue' \subseteq 1..taken' /\ local' \subseteq 1..taken' /\ secret' \subseteq 1..taken'
    /\ taken' \in 0..MaxPhotos /\ taken <= taken'

LEMMA SilenceIs ==
    ASSUME testMode \in BOOLEAN
    PROVE  TestModeSilences <=>
             (testMode = TRUE => \A t \in Service : threads[t].pc \notin Sending)
  BY Zenon DEF TestModeSilences, Sending

LEMMA ShootingIs ==
    ASSUME Typed
    PROVE  \A t \in Threads : (threads[t].inQueue => ~threads[t].test)
                                <=> (threads[t].inQueue = TRUE => threads[t].test = FALSE)
  <1>1. ASSUME NEW t \in Threads
        PROVE  threads[t].inQueue \in BOOLEAN /\ threads[t].test \in BOOLEAN
    BY FieldsOK DEF Typed
  <1>2. QED
    BY <1>1, Zenon

LEMMA MoveOK ==
    ASSUME DeviceInv, NEW t \in Threads,
           Typed', OthersStay(t), Fits(t, threads'[t]), LockPasses(t), CameraPasses(t),
           PreviewFits(t, threads'[t]), FilesFit, testMode' = testMode
    PROVE  DeviceInv'
  <1> USE Names
  <1>1. Typed
    BY DEF DeviceInv, DeviceTypes, Typed
  <1>2. DeviceTypes'
    <2>1. \A u \in Threads : threads'[u].photo <= taken' /\ threads'[u].todo \subseteq 1..taken'
      <3>1. ASSUME NEW u \in Threads, u # t
            PROVE  threads'[u].photo <= taken' /\ threads'[u].todo \subseteq 1..taken'
        <4>1. threads[u].photo <= taken /\ threads[u].todo \subseteq 1..taken
          BY DEF DeviceInv, DeviceTypes
        <4>2. threads[u].photo \in Photos \cup {NoPhoto} /\ taken \in Nat /\ taken' \in Nat
          BY <1>1, FieldsOK, Ranges DEF Typed, DeviceInv, DeviceTypes, FilesFit
        <4>3. threads[u].photo \in Nat
          BY <4>2, Ranges DEF NoPhoto
        <4>4. QED
          BY <3>1, <4>1, <4>2, <4>3 DEF OthersStay, FilesFit
      <3>2. QED
        BY <3>1 DEF Fits
    <2>2. opLock' \in Service \cup {Nobody}
      BY DEF LockPasses, DeviceInv, DeviceTypes
    <2>3. QED
      BY <2>1, <2>2 DEF DeviceTypes, DeviceInv, FilesFit, CameraPasses, PreviewFits, Typed
  <1>3. Locks'
    <2>1. opLock' # Nobody => threads'[opLock'].pc # "idle"
      BY DEF DeviceInv, DeviceTypes, Locks, LockPasses, Fits, OthersStay
    <2>2. \A u \in Service : threads'[u].pc \in Locked => opLock' = u
      BY DEF DeviceInv, DeviceTypes, Locks, LockPasses, Fits, OthersStay
    <2>3. threads'["cli"].pc \in CliPhases
      BY DEF DeviceInv, DeviceTypes, Locks, Fits, OthersStay
    <2>4. \A u \in Threads : threads'[u].pc = "shooting" =>
            camera' = u /\ (threads'[u].inQueue = TRUE => threads'[u].test = FALSE)
      BY <1>1, ShootingIs DEF DeviceInv, Locks, Fits, OthersStay, CameraPasses
    <2>5. \A u \in Threads : threads'[u].pc = "shooting" =>
            camera' = u /\ (threads'[u].inQueue => ~threads'[u].test)
      <3>1. \A u \in Threads : threads'[u].inQueue \in BOOLEAN /\ threads'[u].test \in BOOLEAN
        BY FieldsOK DEF Typed
      <3>2. QED
        BY <2>4, <3>1, Zenon
    <2>6. /\ camera' = "preview" <=> preview'.pc \in {"live", "killed"}
          /\ preview'.running = FALSE => preview'.pc = "off"
      BY DEF CameraPasses, PreviewFits
    <2>7. \A u \in Threads : threads'[u].pc = "clear" =>
            preview'.running = TRUE /\ preview'.pc = "off"
      BY DEF PreviewFits, OthersStay
    <2>8. \A u, v \in Threads : threads'[u].pc = "clear" /\ threads'[v].pc = "clear" => u = v
      BY DEF DeviceInv, Locks, PreviewFits, OthersStay
    <2>9. QED
      BY <2>1, <2>2, <2>3, <2>5, <2>6, <2>7, <2>8, Zenon DEF Locks
  <1>4. TestModeSilences'
    <2>1. testMode \in BOOLEAN
      BY DEF DeviceInv, DeviceTypes
    <2>2. testMode' = TRUE => \A u \in Service : threads'[u].pc \notin Sending
      BY <2>1, SilenceIs DEF DeviceInv, Fits, OthersStay
    <2>3. QED
      BY <2>1, <2>2, Zenon DEF TestModeSilences, Sending
  <1>5. QED
    BY <1>2, <1>3, <1>4 DEF DeviceInv

-----------------------------------------------------------------------------
(* Steps of the camera that are about no upload.                           *)

(* No thread comes to an upload's phases, or leaves one.                   *)
Idles == \A t \in Threads : \/ threads'[t] = threads[t]
                            \/ threads[t].pc \notin Sending /\ threads'[t].pc \notin Sending
Stays == UNCHANGED <<queue, secret, taken>> /\ Idles

LEMMA WorksOK ==
    ASSUME DeviceInv, NEW t \in Threads, Typed', OthersStay(t), LockPasses(t),
           UNCHANGED <<taken, local, secret, testMode, camera, preview>>,
           queue' \subseteq queue, threads'[t].pc # "clear", Fits(t, threads'[t])
    PROVE  DeviceInv'
  <1>1. FilesFit
    BY DEF FilesFit, DeviceInv, DeviceTypes
  <1>2. CameraPasses(t)
    BY DEF CameraPasses, DeviceInv, DeviceTypes, Locks
  <1>3. PreviewFits(t, threads'[t])
    BY DEF PreviewFits, DeviceInv, DeviceTypes, Locks
  <1>4. QED
    BY <1>1, <1>2, <1>3, MoveOK

LEMMA ThreadIs ==
    ASSUME DeviceInv, NEW t \in Threads
    PROVE  /\ Typed /\ threads[t] \in ThreadRec
           /\ threads[t].photo <= taken /\ threads[t].todo \subseteq 1..taken
           /\ threads[t].photo \in Nat /\ taken \in Nat
           /\ testMode \in BOOLEAN /\ preview \in PreviewRec
           /\ preview.running \in BOOLEAN /\ preview.stop \in BOOLEAN
  <1>1. Typed /\ threads[t] \in ThreadRec /\ preview \in PreviewRec
    BY DEF DeviceInv, DeviceTypes, Typed
  <1>2. threads[t].photo \in Nat
    BY <1>1, FieldsOK, Ranges DEF NoPhoto
  <1>3. preview.running \in BOOLEAN /\ preview.stop \in BOOLEAN
    BY <1>1, Zenon DEF PreviewRec
  <1>4. QED
    BY <1>1, <1>2, <1>3 DEF DeviceInv, DeviceTypes

LEMMA StartOK ==
    ASSUME DeviceInv, NEW t \in Service, NEW op \in Operations, NEW pc \in {"halt", "wantOp"},
           Begin(t, op, pc), UNCHANGED <<Files, testMode, opLock, camera, preview>>
    PROVE  DeviceInv' /\ Stays
  <1>1. t \in Threads /\ t # "cli" /\ pc \in Phase /\ pc \notin Locked /\ pc \notin Sending
    BY Names DEF Phase, Locked, Sending
  <1>2. /\ Typed' /\ OthersStay(t) /\ threads[t].pc = "idle" /\ threads'[t].pc = pc
        /\ threads'[t].photo = 0 /\ threads'[t].todo = {}
    BY <1>1, ThreadIs, BeginOK
  <1>3. Fits(t, threads'[t])
    BY <1>1, <1>2, ThreadIs DEF Fits
  <1>4. LockPasses(t)
    BY DEF LockPasses
  <1>5. DeviceInv'
    BY <1>1, <1>2, <1>3, <1>4, WorksOK
  <1>6. Idles
    BY <1>1, <1>2 DEF Idles, OthersStay, Sending
  <1>7. QED
    BY <1>5, <1>6 DEF Stays

LEMMA AsksOK ==
    ASSUME DeviceInv,
           \/ Press \/ RetryDue
           \/ \E t \in Requests : \/ AskCapture(t) \/ AskLab(t) \/ AskRetry(t) \/ AskStop(t)
                                  \/ AskApply(t) \/ AskLed(t)
    PROVE  DeviceInv' /\ Stays
  <1>1. {"press", "retry", "capture", "lab", "stop", "apply", "led"} \subseteq Operations
    BY DEF Operations
  <1>2. "loop" \in Service /\ Requests \subseteq Service
    BY DEF Service
  <1>3. CASE Press
    BY <1>1, <1>2, <1>3, StartOK DEF Press
  <1>4. CASE RetryDue
    BY <1>1, <1>2, <1>4, StartOK DEF RetryDue
  <1>5. ASSUME NEW t \in Requests,
               \/ AskCapture(t) \/ AskLab(t) \/ AskRetry(t) \/ AskStop(t) \/ AskApply(t)
               \/ AskLed(t)
        PROVE  DeviceInv' /\ Stays
    <2>1. CASE AskCapture(t)
      BY <1>1, <1>2, <2>1, StartOK DEF AskCapture
    <2>2. CASE AskLab(t)
      BY <1>1, <1>2, <2>2, StartOK DEF AskLab
    <2>3. CASE AskRetry(t)
      BY <1>1, <1>2, <2>3, StartOK DEF AskRetry
    <2>4. CASE AskStop(t)
      BY <1>1, <1>2, <2>4, StartOK DEF AskStop
    <2>5. CASE AskApply(t)
      BY <1>1, <1>2, <2>5, StartOK DEF AskApply
    <2>6. CASE AskLed(t)
      BY <1>1, <1>2, <2>6, StartOK DEF AskLed
    <2>7. QED
      BY <1>5, <2>1, <2>2, <2>3, <2>4, <2>5, <2>6
  <1>6. QED
    BY <1>3, <1>4, <1>5

(* A thread that goes to another phase, with the lock it has, takes or     *)
(* gives back.                                                             *)
LEMMA PassOK ==
    ASSUME DeviceInv, NEW t \in Threads, NEW pc \in Phase \ {"idle", "clear", "shooting"},
           Goes(t, pc), LockPasses(t), UNCHANGED <<Files, testMode, camera, preview>>,
           t \in Service /\ pc \in Locked => opLock' = t, t = "cli" => pc \in CliPhases,
           threads[t].pc \notin Sending, pc \notin Sending
    PROVE  DeviceInv' /\ Stays
  <1>1. /\ Typed' /\ OthersStay(t) /\ threads'[t].pc = pc
        /\ threads'[t].photo = threads[t].photo /\ threads'[t].todo = threads[t].todo
    BY ThreadIs, GoesOK
  <1>2. Fits(t, threads'[t])
    BY <1>1, ThreadIs DEF Fits
  <1>3. DeviceInv'
    BY <1>1, <1>2, WorksOK
  <1>4. QED
    BY <1>1, <1>3 DEF Stays, Idles, OthersStay

LEMMA GivesUpOK ==
    ASSUME DeviceInv, NEW t \in Threads, Ends(t), UNCHANGED <<Files, testMode, camera, preview>>,
           threads[t].pc \notin Sending
    PROVE  DeviceInv' /\ Stays
  <1>1. /\ Typed' /\ OthersStay(t) /\ threads'[t].pc = "idle"
        /\ threads'[t].photo = 0 /\ threads'[t].todo = {}
        /\ opLock' = IF opLock = t THEN Nobody ELSE opLock
    BY ThreadIs, EndsOK
  <1>2. Fits(t, threads'[t])
    BY <1>1, ThreadIs, Names DEF Fits, Locked, Sending, CliPhases
  <1>3. LockPasses(t)
    BY <1>1 DEF LockPasses
  <1>4. DeviceInv'
    BY <1>1, <1>2, <1>3, WorksOK
  <1>5. QED
    BY <1>1, <1>4 DEF Stays, Idles, OthersStay, Sending

-----------------------------------------------------------------------------
(* The preview.                                                            *)

LEMMA PreviewFieldsOK ==
    ASSUME NEW v \in PreviewRec
    PROVE  /\ v.running \in BOOLEAN /\ v.stop \in BOOLEAN
           /\ v.pc \in {"off", "wantCamera", "live", "killed", "ending"}
  BY Zenon DEF PreviewRec

(* A signal to the preview's process.                                      *)
LEMMA KillOK ==
    ASSUME preview \in PreviewRec,
           \/ preview' = [preview EXCEPT !.stop = TRUE, !.pc = IF @ = "live" THEN "killed" ELSE @]
           \/ preview' = [preview EXCEPT !.pc = IF @ = "live" THEN "killed" ELSE @]
    PROVE  /\ preview' \in PreviewRec /\ preview'.running = preview.running
           /\ preview'.pc \in {"live", "killed"} <=> preview.pc \in {"live", "killed"}
           /\ preview'.pc = "off" <=> preview.pc = "off"
  <1> DEFINE pc == IF preview.pc = "live" THEN "killed" ELSE preview.pc
  <1>1. pc \in {"off", "wantCamera", "live", "killed", "ending"}
    BY PreviewFieldsOK
  <1>2. \/ preview' = [preview EXCEPT !.stop = TRUE, !.pc = pc]
        \/ preview' = [preview EXCEPT !.pc = pc]
    OBVIOUS
  <1>3. pc \in {"live", "killed"} <=> preview.pc \in {"live", "killed"}
    OBVIOUS
  <1>4. pc = "off" <=> preview.pc = "off"
    OBVIOUS
  <1> HIDE DEF pc
  <1>5. preview' \in PreviewRec
    BY <1>1, <1>2, Zenon DEF PreviewRec
  <1>6. preview'.running = preview.running /\ preview'.pc = pc
    BY <1>2 DEF PreviewRec
  <1>7. QED
    BY <1>3, <1>4, <1>5, <1>6

LEMMA RunsOK ==
    ASSUME NEW v \in PreviewRec, NEW w, w = [v EXCEPT !.running = TRUE]
    PROVE  w \in PreviewRec /\ w.running = TRUE /\ w.pc = v.pc
  <1>1. w \in PreviewRec
    BY Zenon DEF PreviewRec
  <1>2. QED
    BY <1>1 DEF PreviewRec

LEMMA ComesOK ==
    ASSUME NEW v \in PreviewRec, NEW w, w = [v EXCEPT !.stop = FALSE, !.pc = "wantCamera"]
    PROVE  w \in PreviewRec /\ w.running = v.running /\ w.pc = "wantCamera"
  <1>1. w \in PreviewRec
    BY Zenon DEF PreviewRec
  <1>2. QED
    BY <1>1 DEF PreviewRec

LEMMA TurnsOK ==
    ASSUME NEW v \in PreviewRec, NEW pc \in {"off", "wantCamera", "live", "killed", "ending"},
           NEW w, w = [v EXCEPT !.pc = pc]
    PROVE  w \in PreviewRec /\ w.running = v.running /\ w.pc = pc
  <1>1. w \in PreviewRec
    BY Zenon DEF PreviewRec
  <1>2. QED
    BY <1>1 DEF PreviewRec

LEMMA OverOK ==
    ASSUME NEW v \in PreviewRec, NEW w, w = [v EXCEPT !.running = FALSE, !.pc = "off"]
    PROVE  w \in PreviewRec /\ w.running = FALSE /\ w.pc = "off"
  <1>1. w \in PreviewRec
    BY Zenon DEF PreviewRec
  <1>2. QED
    BY <1>1 DEF PreviewRec

(* A preview that does not run is off, and no thread starts one.           *)
LEMMA OffIs ==
    ASSUME DeviceInv
    PROVE  /\ ~preview.running => /\ preview.running = FALSE /\ preview.pc = "off"
                                  /\ \A u \in Threads : threads[u].pc # "clear"
           /\ \A u \in Threads : threads[u].pc = "clear" =>
                preview.running = TRUE /\ preview.pc = "off"
           /\ camera = "preview" <=> preview.pc \in {"live", "killed"}
           /\ preview \in PreviewRec
  <1>1. preview \in PreviewRec /\ preview.running \in BOOLEAN
    BY PreviewFieldsOK DEF DeviceInv, DeviceTypes
  <1>2. ~preview.running => preview.running = FALSE
    BY <1>1, Zenon
  <1>3. preview.running = FALSE => preview.running # TRUE
    BY Zenon
  <1>4. QED
    BY <1>1, <1>2, <1>3 DEF DeviceInv, Locks

(* A thread goes on, and the preview changes.                              *)
LEMMA SignalOK ==
    ASSUME DeviceInv, NEW t \in Threads, NEW pc \in Phase \ {"idle", "clear", "shooting"},
           Goes(t, pc), UNCHANGED <<Files, testMode, opLock, camera>>,
           preview' \in PreviewRec, preview'.running = preview.running,
           preview'.pc \in {"live", "killed"} <=> preview.pc \in {"live", "killed"},
           \/ preview'.pc = "off" <=> preview.pc = "off"
           \/ threads[t].pc = "clear" /\ preview'.pc = "wantCamera",
           pc \notin Locked, t # "cli", threads[t].pc \notin Sending
    PROVE  DeviceInv' /\ Stays
  <1>1. /\ Typed' /\ OthersStay(t) /\ threads'[t].pc = pc
        /\ threads'[t].photo = threads[t].photo /\ threads'[t].todo = threads[t].todo
    BY ThreadIs, GoesOK
  <1>2. pc \notin Sending
    BY DEF Locked
  <1>3. Fits(t, threads'[t])
    BY <1>1, <1>2, ThreadIs DEF Fits
  <1>4. LockPasses(t) /\ FilesFit
    BY DEF LockPasses, FilesFit, DeviceInv, DeviceTypes
  <1>5. CameraPasses(t)
    BY DEF CameraPasses, DeviceInv, DeviceTypes, Locks
  <1>6. PreviewFits(t, threads'[t])
    <2>1. preview'.running = FALSE => preview'.pc = "off"
      <3>1. threads[t].pc = "clear" => preview.running = TRUE
        BY OffIs
      <3>2. TRUE # FALSE
        OBVIOUS
      <3>3. preview.running = FALSE => threads[t].pc # "clear" /\ preview.pc = "off"
        BY <3>1, <3>2 DEF DeviceInv, Locks
      <3>4. QED
        BY <3>3
    <2>2. \A u \in Threads : u # t /\ threads[u].pc = "clear" =>
            preview'.running = TRUE /\ preview'.pc = "off"
      BY DEF DeviceInv, Locks
    <2>3. QED
      BY <1>1, <2>1, <2>2 DEF PreviewFits
  <1>7. DeviceInv'
    BY <1>1, <1>3, <1>4, <1>5, <1>6, MoveOK
  <1>8. QED
    BY <1>1, <1>2, <1>7 DEF Stays, Idles, OthersStay

LEMMA NotCli ==
    ASSUME DeviceInv, NEW t \in Threads, threads[t].pc \notin CliPhases
    PROVE  t \in Service /\ t # "cli" /\ threads[t].pc \notin Sending
  BY Names DEF DeviceInv, Locks, CliPhases

LEMMA PhasesAre ==
    /\ {"halt", "halting", "restart", "clear", "done", "wantOp", "list", "wantCamera",
        "shooting", "send"} \subseteq Phase
    /\ {"halt", "halting", "restart", "clear", "done", "wantOp"} \cap Locked = {}
    /\ {"halt", "halting", "restart", "clear", "done", "wantOp", "wantCamera", "shooting"}
         \cap CliPhases = {}
    /\ {"list", "wantCamera", "shooting", "send"} \subseteq Locked
    /\ {"idle", "halt", "halting", "restart", "clear", "done", "wantOp", "list", "wantCamera",
        "shooting", "send"} \cap Sending = {}
    /\ Sending \subseteq Locked /\ Sending \subseteq CliPhases
    /\ "idle" \notin Locked /\ {"idle", "list", "send"} \subseteq CliPhases
  BY DEF Phase, Locked, Sending, CliPhases

LEMMA AskPreviewOK ==
    ASSUME DeviceInv, NEW t \in Requests, AskPreview(t)
    PROVE  DeviceInv' /\ Stays
  <1>1. t \in Threads /\ t \in Service /\ t # "cli" /\ "preview" \in Operations
    BY Names DEF Service, Operations
  <1>2. /\ Typed' /\ OthersStay(t) /\ threads[t].pc = "idle" /\ threads'[t].pc = "clear"
        /\ threads'[t].photo = 0 /\ threads'[t].todo = {}
    BY <1>1, ThreadIs, BeginOK, PhasesAre DEF AskPreview
  <1>3. Fits(t, threads'[t])
    BY <1>1, <1>2, ThreadIs, PhasesAre DEF Fits, AskPreview
  <1>4. LockPasses(t) /\ FilesFit
    BY DEF LockPasses, FilesFit, AskPreview, DeviceInv, DeviceTypes
  <1>5. /\ preview.running = FALSE /\ preview.pc = "off"
        /\ \A u \in Threads : threads[u].pc # "clear"
    BY OffIs DEF AskPreview
  <1>6. preview' \in PreviewRec /\ preview'.running = TRUE /\ preview'.pc = "off"
    BY <1>5, OffIs, RunsOK DEF AskPreview
  <1>7. CameraPasses(t)
    BY <1>5, <1>6 DEF CameraPasses, AskPreview, DeviceInv, DeviceTypes, Locks
  <1>8. PreviewFits(t, threads'[t])
    BY <1>5, <1>6 DEF PreviewFits
  <1>9. DeviceInv'
    BY <1>1, <1>2, <1>3, <1>4, <1>7, <1>8, MoveOK DEF AskPreview
  <1>10. QED
    BY <1>1, <1>2, <1>9, PhasesAre DEF Stays, Idles, OthersStay, AskPreview

LEMMA StopPreviewOK ==
    ASSUME DeviceInv, NEW t \in Threads, StopPreview(t)
    PROVE  DeviceInv' /\ Stays
  <1>1. t # "cli" /\ threads[t].pc \notin Sending
    BY NotCli, PhasesAre DEF StopPreview, In
  <1>2. /\ preview' \in PreviewRec /\ preview'.running = preview.running
        /\ preview'.pc \in {"live", "killed"} <=> preview.pc \in {"live", "killed"}
        /\ preview'.pc = "off" <=> preview.pc = "off"
    BY OffIs, KillOK DEF StopPreview
  <1>3. QED
    BY <1>1, <1>2, SignalOK, PhasesAre DEF StopPreview

LEMMA PreviewStoppedOK ==
    ASSUME DeviceInv, NEW t \in Threads, PreviewStopped(t)
    PROVE  DeviceInv' /\ Stays
  <1>1. t # "cli" /\ threads[t].pc \notin Sending
    BY NotCli, PhasesAre DEF PreviewStopped
  <1>2. AfterStop(threads[t].op) \in {"wantOp", "restart", "done"}
    BY DEF AfterStop
  <1>3. LockPasses(t)
    BY DEF LockPasses, PreviewStopped
  <1>4. QED
    BY <1>1, <1>2, <1>3, PassOK, PhasesAre DEF PreviewStopped

LEMMA StopTimesOutOK ==
    ASSUME DeviceInv, NEW t \in Threads, StopTimesOut(t)
    PROVE  DeviceInv' /\ Stays
  <1>1. t # "cli" /\ threads[t].pc \notin Sending
    BY NotCli, PhasesAre DEF StopTimesOut, In
  <1>2. /\ preview' \in PreviewRec /\ preview'.running = preview.running
        /\ preview'.pc \in {"live", "killed"} <=> preview.pc \in {"live", "killed"}
        /\ preview'.pc = "off" <=> preview.pc = "off"
    BY OffIs, KillOK DEF StopTimesOut
  <1>3. CASE threads[t].op = "press"
    BY <1>1, <1>2, <1>3, SignalOK, PhasesAre DEF StopTimesOut
  <1>4. CASE threads[t].op # "press"
    BY <1>1, <1>2, <1>4, SignalOK, PhasesAre DEF StopTimesOut
  <1>5. QED
    BY <1>3, <1>4

LEMMA RestartOK ==
    ASSUME DeviceInv, NEW t \in Threads, Restart(t)
    PROVE  DeviceInv' /\ Stays
  <1>1. t \in Service /\ t # "cli" /\ threads[t].pc = "restart" /\ threads[t].pc \notin Sending
    BY NotCli, PhasesAre DEF Restart, In
  <1>2. LockPasses(t) /\ FilesFit
    BY DEF LockPasses, FilesFit, Restart, DeviceInv, DeviceTypes
  <1>3. CASE preview.running /\ Goes(t, "done") /\ UNCHANGED preview
    BY <1>1, <1>2, <1>3, PassOK, PhasesAre DEF Restart
  <1>4. CASE ~preview.running /\ Goes(t, "clear") /\ preview' = [preview EXCEPT !.running = TRUE]
    <2>1. /\ Typed' /\ OthersStay(t) /\ threads'[t].pc = "clear"
          /\ threads'[t].photo = threads[t].photo /\ threads'[t].todo = threads[t].todo
      BY <1>4, ThreadIs, GoesOK, PhasesAre
    <2>2. Fits(t, threads'[t])
      BY <1>1, <2>1, ThreadIs, PhasesAre DEF Fits, Restart
    <2>3. /\ preview.running = FALSE /\ preview.pc = "off"
          /\ \A u \in Threads : threads[u].pc # "clear"
      BY <1>4, OffIs
    <2>4. preview' \in PreviewRec /\ preview'.running = TRUE /\ preview'.pc = "off"
      BY <1>4, <2>3, OffIs, RunsOK
    <2>5. CameraPasses(t)
      BY <2>3, <2>4 DEF CameraPasses, Restart, DeviceInv, DeviceTypes, Locks
    <2>6. PreviewFits(t, threads'[t])
      BY <2>3, <2>4 DEF PreviewFits
    <2>7. DeviceInv'
      BY <1>1, <1>2, <2>1, <2>2, <2>5, <2>6, MoveOK DEF Restart
    <2>8. QED
      BY <1>1, <2>1, <2>7, PhasesAre DEF Stays, Idles, OthersStay, Restart
  <1>5. QED
    BY <1>3, <1>4 DEF Restart

LEMMA StartPreviewOK ==
    ASSUME DeviceInv, NEW t \in Threads, StartPreview(t)
    PROVE  DeviceInv' /\ Stays
  <1>1. t # "cli" /\ threads[t].pc \notin Sending /\ threads[t].pc = "clear"
    BY NotCli, PhasesAre DEF StartPreview, In
  <1>2. preview.running = TRUE /\ preview.pc = "off"
    BY <1>1, OffIs
  <1>3. /\ preview' \in PreviewRec /\ preview'.running = preview.running
        /\ preview'.pc = "wantCamera"
    BY OffIs, ComesOK DEF StartPreview
  <1>4. QED
    BY <1>1, <1>2, <1>3, SignalOK, PhasesAre DEF StartPreview

(* The preview's own steps.                                                *)
LEMMA ViewOK ==
    ASSUME DeviceInv, UNCHANGED <<Files, testMode, opLock, threads>>,
           preview' \in PreviewRec, camera' \in Service \cup {Nobody, "preview"},
           \A u \in Threads : camera = u => camera' = u,
           camera' = "preview" <=> preview'.pc \in {"live", "killed"},
           preview'.running = FALSE => preview'.pc = "off",
           preview.pc # "off", preview'.running = TRUE \/ preview'.running = FALSE
    PROVE  DeviceInv' /\ Stays
  <1>1. DeviceTypes'
    BY DEF DeviceInv, DeviceTypes
  <1>2. \A u \in Threads : threads[u].pc # "clear"
    BY OffIs
  <1>3. Locks'
    BY <1>2 DEF DeviceInv, Locks
  <1>4. TestModeSilences'
    BY DEF DeviceInv, TestModeSilences
  <1>5. QED
    BY <1>1, <1>3, <1>4 DEF DeviceInv, Stays, Idles

LEMMA PreviewStepsOK ==
    ASSUME DeviceInv, PreviewLocks \/ PreviewEnds \/ PreviewOver
    PROVE  DeviceInv' /\ Stays
  <1> USE Names
  <1>1. preview \in PreviewRec /\ preview.running \in BOOLEAN
    BY OffIs, PreviewFieldsOK
  <1>2. CASE PreviewLocks
    <2>1. preview.pc = "wantCamera" /\ preview.running # FALSE
      BY <1>2 DEF PreviewLocks, DeviceInv, Locks
    <2>2. CASE preview.stop /\ camera' = Nobody /\ preview' = [preview EXCEPT !.pc = "ending"]
      <3>1. /\ preview' \in PreviewRec /\ preview'.running = preview.running
            /\ preview'.pc = "ending"
        BY <1>1, <2>2, TurnsOK
      <3>2. QED
        BY <1>1, <1>2, <2>1, <2>2, <3>1, ViewOK DEF PreviewLocks
    <2>3. CASE ~preview.stop /\ camera' = "preview" /\ preview' = [preview EXCEPT !.pc = "live"]
      <3>1. /\ preview' \in PreviewRec /\ preview'.running = preview.running
            /\ preview'.pc = "live"
        BY <1>1, <2>3, TurnsOK
      <3>2. QED
        BY <1>1, <1>2, <2>1, <2>3, <3>1, ViewOK DEF PreviewLocks
    <2>4. QED
      BY <1>2, <2>2, <2>3 DEF PreviewLocks
  <1>3. CASE PreviewEnds
    <2>1. preview.pc \in {"live", "killed"} /\ preview.running # FALSE /\ camera = "preview"
      BY <1>3 DEF PreviewEnds, DeviceInv, Locks
    <2>2. /\ preview' \in PreviewRec /\ preview'.running = preview.running
          /\ preview'.pc = "ending"
      BY <1>1, <1>3, TurnsOK DEF PreviewEnds
    <2>3. QED
      BY <1>1, <1>3, <2>1, <2>2, ViewOK DEF PreviewEnds
  <1>4. CASE PreviewOver
    <2>1. preview.pc = "ending" /\ camera # "preview"
      BY <1>4 DEF PreviewOver, DeviceInv, Locks
    <2>2. preview' \in PreviewRec /\ preview'.running = FALSE /\ preview'.pc = "off"
      BY <1>1, <1>4, OverOK DEF PreviewOver
    <2>3. QED
      BY <1>1, <1>4, <2>1, <2>2, ViewOK DEF PreviewOver, DeviceInv, DeviceTypes
  <1>5. QED
    BY <1>2, <1>3, <1>4

-----------------------------------------------------------------------------
(* The lock, the camera and the files.                                     *)

LEMMA LockOperationOK ==
    ASSUME DeviceInv, NEW t \in Threads, LockOperation(t)
    PROVE  DeviceInv' /\ Stays
  <1>1. t \in Service /\ t # "cli" /\ threads[t].pc \notin Sending
    BY NotCli, PhasesAre DEF LockOperation, In
  <1>2. LockPasses(t)
    BY <1>1 DEF LockPasses, LockOperation
  <1> DEFINE pc == CASE threads[t].op = "retry" -> "list" [] threads[t].op = "led" -> "done"
                     [] OTHER -> "wantCamera"
  <1>3. pc \in {"list", "done", "wantCamera"}
    OBVIOUS
  <1>4. Goes(t, pc) /\ opLock' = t /\ UNCHANGED <<Files, testMode, camera, preview>>
    BY DEF LockOperation
  <1> HIDE DEF pc
  <1>5. QED
    BY <1>1, <1>2, <1>3, <1>4, PassOK, PhasesAre

LEMMA StartCaptureOK ==
    ASSUME DeviceInv, NEW t \in Threads, StartCapture(t)
    PROVE  DeviceInv' /\ Stays
  <1>1. t \in Service /\ t # "cli" /\ threads[t].pc = "wantCamera"
    BY NotCli, PhasesAre DEF StartCapture, In
  <1> DEFINE test == testMode \/ threads[t].op = "lab"
             inQueue == ToQueue /\ ~(threads[t].op = "lab")
             r == [threads[t] EXCEPT !.pc = "shooting", !.inQueue = inQueue, !.test = test]
  <1>2. /\ test \in BOOLEAN /\ inQueue \in BOOLEAN /\ (inQueue = TRUE => test = FALSE)
        /\ "shooting" \in Phase /\ threads[t] \in ThreadRec
    BY ThreadIs, PhasesAre, Zenon DEF ToQueue
  <1>3. threads' = [threads EXCEPT ![t] = r] /\ camera = Nobody /\ camera' = t
    BY Zenon DEF StartCapture
  <1> HIDE DEF test, inQueue
  <1>4. r \in ThreadRec
    BY <1>2, Zenon DEF ThreadRec
  <1>5. /\ r.pc = "shooting" /\ r.photo = threads[t].photo /\ r.todo = threads[t].todo
        /\ r.inQueue = inQueue /\ r.test = test
    BY <1>2 DEF ThreadRec
  <1> HIDE DEF r
  <1>6. Typed' /\ OthersStay(t) /\ threads'[t] = r
    BY <1>3, <1>4, SetOK, ThreadIs
  <1>7. opLock = t
    BY <1>1, PhasesAre DEF DeviceInv, Locks
  <1>8. Fits(t, threads'[t])
    BY <1>1, <1>2, <1>3, <1>5, <1>6, <1>7, ThreadIs, PhasesAre DEF Fits, StartCapture
  <1>9. LockPasses(t) /\ FilesFit
    BY DEF LockPasses, FilesFit, StartCapture, DeviceInv, DeviceTypes
  <1>10. CameraPasses(t)
    BY <1>1, <1>3, Names DEF CameraPasses, StartCapture, DeviceInv, DeviceTypes, Locks
  <1>11. PreviewFits(t, threads'[t])
    BY <1>5, <1>6 DEF PreviewFits, StartCapture, DeviceInv, DeviceTypes, Locks
  <1>12. DeviceInv'
    BY <1>6, <1>8, <1>9, <1>10, <1>11, MoveOK DEF StartCapture
  <1>13. QED
    BY <1>1, <1>5, <1>6, <1>12, PhasesAre DEF Stays, Idles, OthersStay, StartCapture

LEMMA RefusalsOK ==
    ASSUME DeviceInv, NEW t \in Threads, RequestDone(t) \/ CaptureFails(t)
    PROVE  DeviceInv' /\ Stays
  <1>1. threads[t].pc \notin Sending
    BY PhasesAre DEF RequestDone, CaptureFails, In
  <1>2. QED
    BY <1>1, GivesUpOK DEF RequestDone, CaptureFails

(* A photo is taken: a test photo, or one for the queue.                   *)
Grows ==
    /\ taken + 1 \in 1..MaxPhotos /\ taken' = taken + 1 /\ Idles
    /\ \/ queue' = queue \cup {taken + 1} /\ secret' = secret
       \/ queue' = queue /\ secret' \subseteq secret \cup {taken + 1}

(* The camera is let go of.                                                *)
LEMMA FreesCamera ==
    ASSUME DeviceInv, NEW t \in Threads, threads[t].pc = "shooting", camera' = Nobody,
           UNCHANGED preview, threads'[t].pc # "clear"
    PROVE  CameraPasses(t) /\ PreviewFits(t, threads'[t])
  <1>1. camera = t /\ camera # "preview"
    BY Names DEF DeviceInv, Locks
  <1>2. CameraPasses(t)
    BY <1>1, Names DEF CameraPasses, DeviceInv, Locks
  <1>3. QED
    BY <1>2 DEF PreviewFits, DeviceInv, DeviceTypes, Locks

LEMMA ShotFailsOK ==
    ASSUME DeviceInv, NEW t \in Threads, ShotFails(t)
    PROVE  DeviceInv' /\ Stays
  <1>1. /\ Typed' /\ OthersStay(t) /\ threads'[t].pc = "idle"
        /\ threads'[t].photo = 0 /\ threads'[t].todo = {}
        /\ opLock' = IF opLock = t THEN Nobody ELSE opLock
    BY ThreadIs, EndsOK DEF ShotFails
  <1>2. Fits(t, threads'[t])
    BY <1>1, ThreadIs, Names, PhasesAre DEF Fits, ShotFails
  <1>3. LockPasses(t) /\ FilesFit
    BY <1>1 DEF LockPasses, FilesFit, ShotFails, DeviceInv, DeviceTypes
  <1>4. CameraPasses(t) /\ PreviewFits(t, threads'[t])
    BY <1>1, FreesCamera DEF ShotFails, In
  <1>5. DeviceInv'
    BY <1>1, <1>2, <1>3, <1>4, MoveOK DEF ShotFails
  <1>6. QED
    BY <1>1, <1>5, PhasesAre DEF Stays, Idles, OthersStay, ShotFails, In

LEMMA ShootOK ==
    ASSUME DeviceInv, NEW t \in Threads, Shoot(t)
    PROVE  DeviceInv' /\ Grows
  <1>1. t \in Service /\ t # "cli" /\ threads[t].pc = "shooting"
    BY NotCli, PhasesAre DEF Shoot, In
  <1>2. /\ threads[t].inQueue \in BOOLEAN /\ threads[t].test \in BOOLEAN
        /\ threads[t].inQueue = TRUE => threads[t].test = FALSE
    BY <1>1, ThreadIs, FieldsOK, ShootingIs DEF DeviceInv, Locks
  <1>3. /\ taken' = taken + 1 /\ taken + 1 \in 1..MaxPhotos /\ taken \in Nat /\ camera' = Nobody
        /\ testMode' = testMode /\ preview' = preview
        /\ taken' \in Nat /\ taken <= taken' /\ 1..taken \subseteq 1..taken'
    BY ThreadIs, Ranges DEF Shoot
  <1>4. \/ queue' = queue \cup {taken + 1} /\ secret' = secret /\ local' = local
        \/ /\ queue' = queue /\ local' = local \cup {taken + 1}
           /\ secret' \subseteq secret \cup {taken + 1}
    <2>1. CASE threads[t].inQueue
      <3>1. ~threads[t].test
        BY <1>2, <2>1, Zenon
      <3>2. QED
        BY <1>3, <2>1, <3>1, Zenon DEF Shoot
    <2>2. CASE ~threads[t].inQueue
      <3>1. queue' = queue /\ local' = local \cup {taken'}
        BY <2>2, Zenon DEF Shoot
      <3>2. secret' = secret \cup {taken'} \/ secret' = secret
        BY Zenon DEF Shoot
      <3>3. QED
        BY <1>3, <3>1, <3>2
    <2>3. QED
      BY <2>1, <2>2
  <1>5. FilesFit
    <2>1. queue \subseteq 1..taken /\ local \subseteq 1..taken /\ secret \subseteq 1..taken
      BY DEF DeviceInv, DeviceTypes
    <2>2. taken + 1 \in 1..taken' /\ taken' \in 0..MaxPhotos
      BY <1>3, Ranges
    <2>3. QED
      BY <1>3, <1>4, <2>1, <2>2 DEF FilesFit
  <1>6. opLock = t
    BY <1>1, PhasesAre DEF DeviceInv, Locks
  <1>7. /\ Typed' /\ OthersStay(t) /\ threads'[t].pc \in {"idle", "send"}
        /\ threads'[t].photo <= taken' /\ threads'[t].todo \subseteq 1..taken'
        /\ \/ opLock' = opLock /\ threads'[t].pc = "send"
           \/ opLock' = Nobody /\ threads'[t].pc = "idle"
    <2>1. CASE threads[t].op = "lab" /\ Ends(t)
      BY <1>3, <1>6, <2>1, ThreadIs, EndsOK
    <2>2. CASE /\ opLock' = opLock
               /\ threads' = [threads EXCEPT ![t].pc = "send", ![t].photo = taken']
      <3> DEFINE r == [threads[t] EXCEPT !.pc = "send", !.photo = taken']
      <3>1. /\ taken' \in Photos /\ "send" \in Phase /\ threads[t] \in ThreadRec
        BY <1>3, Ranges, PhasesAre, ThreadIs
      <3>2. r \in ThreadRec
        BY <3>1, Zenon DEF ThreadRec
      <3>3. r.pc = "send" /\ r.photo = taken' /\ r.todo = threads[t].todo
        BY <3>1 DEF ThreadRec
      <3>4. threads' = [threads EXCEPT ![t] = r]
        BY <2>2
      <3> HIDE DEF r
      <3>5. Typed' /\ OthersStay(t) /\ threads'[t] = r
        BY <3>2, <3>4, SetOK, ThreadIs
      <3>6. threads[t].todo \subseteq 1..taken
        BY ThreadIs
      <3>7. threads'[t].pc = "send" /\ threads'[t].photo = taken'
            /\ threads'[t].todo = threads[t].todo
        BY <3>3, <3>5, Zenon
      <3>8. threads'[t].todo \subseteq 1..taken'
        BY <1>3, <3>6, <3>7, Zenon
      <3>9. threads'[t].photo <= taken'
        BY <1>3, <3>7
      <3>10. opLock' = opLock /\ threads'[t].pc = "send"
        BY <2>2, <3>7, Zenon
      <3>11. QED
        BY <3>5, <3>7, <3>8, <3>9, <3>10, Zenon
    <2>3. (threads[t].op = "lab" /\ Ends(t)) \/
          (/\ opLock' = opLock
           /\ threads' = [threads EXCEPT ![t].pc = "send", ![t].photo = taken'])
      BY Zenon DEF Shoot
    <2>4. QED
      BY <2>1, <2>2, <2>3, Zenon
  <1>8. Fits(t, threads'[t])
    BY <1>1, <1>3, <1>6, <1>7, Names, PhasesAre DEF Fits
  <1>9. LockPasses(t)
    BY <1>6, <1>7 DEF LockPasses
  <1>10. CameraPasses(t) /\ PreviewFits(t, threads'[t])
    BY <1>1, <1>3, <1>7, FreesCamera
  <1>11. DeviceInv'
    BY <1>3, <1>5, <1>7, <1>8, <1>9, <1>10, MoveOK
  <1>12. Idles
    BY <1>1, <1>7, PhasesAre DEF Idles, OthersStay
  <1>13. QED
    BY <1>3, <1>4, <1>11, <1>12 DEF Grows

LEMMA SaveSettingsOK ==
    ASSUME DeviceInv, SaveSettings
    PROVE  DeviceInv' /\ Stays
  <1>1. testMode' \in BOOLEAN /\ opLock = Nobody
    BY Zenon DEF SaveSettings, MaySave
  <1>2. DeviceTypes'
    BY <1>1 DEF SaveSettings, DeviceInv, DeviceTypes
  <1>3. Locks'
    BY DEF SaveSettings, DeviceInv, Locks
  <1>4. \A t \in Service : threads'[t].pc \notin Sending
    BY <1>1, Names, PhasesAre DEF SaveSettings, DeviceInv, Locks
  <1>5. TestModeSilences'
    BY <1>4, Zenon DEF TestModeSilences, Sending
  <1>6. QED
    BY <1>2, <1>3, <1>5 DEF DeviceInv, Stays, Idles, SaveSettings

(* A thread at work on photos ends, or goes on to another one.             *)
LEMMA TurnOK ==
    ASSUME DeviceInv, NEW t \in Threads, NEW todo \in SUBSET (1..taken),
           threads[t].pc \in {"list", "send"} \cup Sending,
           \/ Ends(t)
           \/ /\ todo # {} /\ opLock' = opLock
              /\ threads' = [threads EXCEPT ![t].pc = "send", ![t].photo = Min(todo),
                                            ![t].todo = todo \ {Min(todo)}],
           UNCHANGED <<taken, local, secret, testMode, camera, preview>>, queue' \subseteq queue
    PROVE  DeviceInv' /\ Typed' /\ OthersStay(t) /\ threads'[t].pc \notin Sending
  <1>1. t \in Service => opLock = t
    BY PhasesAre DEF DeviceInv, Locks
  <1>2. CASE Ends(t)
    <2>1. /\ Typed' /\ OthersStay(t) /\ threads'[t].pc = "idle"
          /\ threads'[t].photo = 0 /\ threads'[t].todo = {}
          /\ opLock' = IF opLock = t THEN Nobody ELSE opLock
      BY <1>2, ThreadIs, EndsOK
    <2>2. Fits(t, threads'[t])
      BY <2>1, ThreadIs, Names, PhasesAre DEF Fits
    <2>3. LockPasses(t)
      BY <2>1 DEF LockPasses
    <2>4. QED
      BY <2>1, <2>2, <2>3, WorksOK, PhasesAre
  <1>3. CASE /\ todo # {} /\ opLock' = opLock
             /\ threads' = [threads EXCEPT ![t].pc = "send", ![t].photo = Min(todo),
                                           ![t].todo = todo \ {Min(todo)}]
    <2>1. /\ todo \in SUBSET Photos /\ todo \in SUBSET Nat /\ taken' = taken
          /\ taken \in Nat
      BY ThreadIs, Ranges DEF DeviceInv, DeviceTypes
    <2>2. Min(todo) \in todo /\ Min(todo) <= taken
      BY <1>3, <2>1, MinOK
    <2>3. /\ Typed' /\ OthersStay(t)
          /\ threads'[t].pc = "send" /\ threads'[t].photo = Min(todo)
          /\ threads'[t].todo = todo \ {Min(todo)}
      BY <1>3, <2>1, <2>2, ThreadIs, NextOK
    <2>4. Fits(t, threads'[t])
      BY <1>1, <1>3, <2>1, <2>2, <2>3, Names, PhasesAre DEF Fits
    <2>5. LockPasses(t)
      BY <1>3 DEF LockPasses
    <2>6. QED
      BY <2>3, <2>4, <2>5, WorksOK, PhasesAre
  <1>4. QED
    BY <1>2, <1>3

LEMMA RetryAllOK ==
    ASSUME DeviceInv, NEW t \in Threads, RetryAll(t)
    PROVE  DeviceInv' /\ Stays
  <1>1. queue \in SUBSET (1..taken) /\ threads[t].pc = "list"
    BY DEF DeviceInv, DeviceTypes, RetryAll, In
  <1>2. DeviceInv' /\ Typed' /\ OthersStay(t) /\ threads'[t].pc \notin Sending
    BY <1>1, TurnOK DEF RetryAll
  <1>3. QED
    BY <1>1, <1>2, PhasesAre DEF Stays, Idles, OthersStay, RetryAll

(* The shell.                                                              *)
LEMMA CliIs ==
    /\ "cli" \in Threads /\ "cli" \notin Service
    /\ {"retry", "capture"} \subseteq Operations
  BY Names DEF Operations

LEMMA CliRetryOK ==
    ASSUME DeviceInv, CliRetry
    PROVE  DeviceInv' /\ Stays
  <1> DEFINE r == [threads["cli"] EXCEPT !.op = "retry", !.pc = "list", !.test = testMode]
  <1>1. threads["cli"] \in ThreadRec /\ testMode \in BOOLEAN /\ "list" \in Phase
        /\ "retry" \in Operations
    BY CliIs, ThreadIs, PhasesAre
  <1>2. r \in ThreadRec
    BY <1>1, Zenon DEF ThreadRec
  <1>3. r.pc = "list" /\ r.photo = threads["cli"].photo /\ r.todo = threads["cli"].todo
    BY <1>1 DEF ThreadRec
  <1>4. threads' = [threads EXCEPT !["cli"] = r]
    BY DEF CliRetry
  <1> HIDE DEF r
  <1>5. Typed' /\ OthersStay("cli") /\ threads'["cli"] = r
    BY <1>2, <1>4, CliIs, ThreadIs, SetOK
  <1>6. Fits("cli", threads'["cli"])
    BY <1>3, <1>5, CliIs, ThreadIs, PhasesAre DEF Fits, CliRetry
  <1>7. LockPasses("cli")
    BY DEF LockPasses, CliRetry
  <1>8. DeviceInv'
    BY <1>3, <1>5, <1>6, <1>7, CliIs, WorksOK DEF CliRetry
  <1>9. threads["cli"].pc = "idle"
    BY RestIs DEF CliRetry
  <1>10. QED
    BY <1>3, <1>5, <1>8, <1>9, PhasesAre DEF Stays, Idles, OthersStay, CliRetry

LEMMA CliUploadOK ==
    ASSUME DeviceInv, CliUpload
    PROVE  DeviceInv' /\ Grows
  <1> DEFINE r == [threads["cli"] EXCEPT !.op = "capture", !.pc = "send", !.photo = taken + 1]
  <1>1. /\ threads["cli"] \in ThreadRec /\ taken + 1 \in Photos /\ "send" \in Phase
        /\ "capture" \in Operations /\ taken + 1 \in 1..MaxPhotos /\ taken \in Nat
    BY CliIs, ThreadIs, PhasesAre, Ranges DEF CliUpload
  <1>2. r \in ThreadRec
    BY <1>1, Zenon DEF ThreadRec
  <1>3. r.pc = "send" /\ r.photo = taken + 1 /\ r.todo = threads["cli"].todo
    BY <1>1 DEF ThreadRec
  <1>4. threads' = [threads EXCEPT !["cli"] = r]
    BY DEF CliUpload
  <1> HIDE DEF r
  <1>5. Typed' /\ OthersStay("cli") /\ threads'["cli"] = r
    BY <1>2, <1>4, CliIs, ThreadIs, SetOK
  <1>6. threads["cli"].todo = {} /\ threads["cli"].pc = "idle"
    BY RestIs DEF CliUpload
  <1>7. Fits("cli", threads'["cli"])
    <2>1. taken' = taken + 1 /\ opLock' = opLock
      BY DEF CliUpload
    <2>2. /\ threads'["cli"].photo <= taken' /\ threads'["cli"].todo = {}
          /\ threads'["cli"].pc = "send"
      BY <1>1, <1>3, <1>5, <1>6, <2>1
    <2>3. QED
      BY <2>2, CliIs, PhasesAre DEF Fits
  <1>8. LockPasses("cli")
    BY DEF LockPasses, CliUpload
  <1>9. FilesFit
    <2>1. queue \subseteq 1..taken /\ local \subseteq 1..taken /\ secret \subseteq 1..taken
      BY DEF DeviceInv, DeviceTypes
    <2>2. /\ taken' = taken + 1 /\ queue' = queue \cup {taken + 1} /\ local' = local
          /\ secret' = secret
      BY DEF CliUpload
    <2>3. 1..taken \subseteq 1..taken' /\ taken + 1 \in 1..taken' /\ taken <= taken'
          /\ taken' \in 0..MaxPhotos
      BY <1>1, <2>2, Ranges
    <2>4. QED
      BY <2>1, <2>2, <2>3 DEF FilesFit
  <1>10. CameraPasses("cli")
    BY DEF CameraPasses, DeviceInv, DeviceTypes, Locks, CliUpload
  <1>11. PreviewFits("cli", threads'["cli"])
    BY <1>3, <1>5 DEF PreviewFits, DeviceInv, DeviceTypes, Locks, CliUpload
  <1>12. DeviceInv'
    BY <1>5, <1>7, <1>8, <1>9, <1>10, <1>11, CliIs, MoveOK DEF CliUpload
  <1>13. QED
    BY <1>1, <1>3, <1>5, <1>6, <1>12, PhasesAre DEF Grows, Idles, OthersStay, CliUpload

-----------------------------------------------------------------------------
(* What the server and the bucket have, while the camera works.            *)

LEMMA AskedIs == \A pc : AskedAt(pc) \in {"grant", "finish"}
  BY DEF AskedAt

LEMMA AtWorkIs == "grant" \in Sending /\ "finish" \in Sending /\ "remove" \in Sending
  BY DEF Sending

LEMMA KnownGrows ==
    ASSUME FlowInv, UNCHANGED <<flow, flying>>, Known \subseteq Known', taken \in Nat,
           taken' \in Nat, taken <= taken', secret' \cap Known' = {},
           \A t \in Threads : threads'[t].pc \in Sending =>
                threads[t].pc \in Sending /\ threads'[t].photo = threads[t].photo
    PROVE  FlowTypes' /\ Traced' /\ Readable'
  <1>1. FlowTypes'
    BY DEF FlowInv, FlowTypes
  <1>2. Traced'
    BY DEF FlowInv, Traced, Listed, Stored
  <1>3. Readable'
    BY DEF FlowInv, Readable
  <1>4. QED
    BY <1>1, <1>2, <1>3

LEMMA FlowKept ==
    ASSUME IInv, UNCHANGED <<flow, flying>>, queue \subseteq queue', taken' \in Nat,
           taken <= taken', secret' \cap Known' = {}, Idles
    PROVE  FlowInv'
  <1>1. Known \subseteq Known' /\ taken \in Nat
    <2>1. taken \in Nat
      BY Ranges DEF IInv, DeviceInv, DeviceTypes
    <2>2. QED
      BY <2>1 DEF Known
  <1>2. FlowTypes' /\ Traced' /\ Readable'
    BY <1>1, KnownGrows DEF IInv, Idles
  <1>3. Talk'
    <2>1. ASSUME NEW s \in Slots, handlers'[s].client # Absent
          PROVE  /\ handlers'[s].pc # "idle" /\ replies'[handlers'[s].client] = "none"
                 /\ Waits(handlers[s].client, AskedAt(handlers[s].pc), handlers[s].photo)'
      <3>1. Waits(handlers[s].client, AskedAt(handlers[s].pc), handlers[s].photo)
        BY <2>1 DEF IInv, FlowInv, Talk
      <3>2. AskedAt(handlers[s].pc) \in Sending /\ handlers' = handlers
        BY AskedIs, AtWorkIs
      <3>3. Waits(handlers[s].client, AskedAt(handlers[s].pc), handlers[s].photo)'
        <4> DEFINE c == handlers[s].client
                   pc == AskedAt(handlers[s].pc)
                   p == handlers[s].photo
        <4>1. PICK t \in Threads : ClientOf(t) = c /\ threads[t].pc = pc /\ threads[t].photo = p
          BY <3>1 DEF Waits
        <4>2. threads'[t] = threads[t]
          BY <3>2, <4>1 DEF Idles
        <4>3. QED
          BY <3>2, <4>1, <4>2 DEF Waits
      <3>4. QED
        BY <2>1, <3>3 DEF IInv, FlowInv, Talk
    <2>2. \A s, u \in Slots : handlers'[s].client = handlers'[u].client =>
            \/ s = u
            \/ handlers'[s].client = Absent
      BY DEF IInv, FlowInv, Talk
    <2>3. \A c \in Clients : replies'[c] # "none" =>
            \E t \in Threads : ClientOf(t) = c /\ threads'[t].pc \in {"grant", "finish"}
      BY AtWorkIs DEF IInv, FlowInv, Talk, Idles
    <2>4. \A t \in Threads : threads'[t].pc = "finish" /\ Reply(t)' = "ok" =>
            threads'[t].photo \in filed'
      BY AtWorkIs DEF IInv, FlowInv, Talk, Idles, Reply
    <2>5. \A t \in Threads : threads'[t].pc = "remove" => threads'[t].photo \in filed'
      BY AtWorkIs DEF IInv, FlowInv, Talk, Idles
    <2>6. \A s \in Slots : handlers'[s].pc = "mark" => handlers'[s].photo \in filed'
      BY DEF IInv, FlowInv, Talk
    <2>7. QED
      BY <2>1, <2>2, <2>3, <2>4, <2>5, <2>6 DEF Talk
  <1>4. QED
    BY <1>2, <1>3 DEF FlowInv

-----------------------------------------------------------------------------
(* The camera's own steps.                                                 *)

(* What every step does: the invariant is kept, and Delivery steps with it *)
(* or stands still.                                                        *)
Fine == DeviceInv' /\ FlowInv' /\ [D!Next]_<<queue, filed>>

LEMMA StaysFine ==
    ASSUME IInv, DeviceInv', Stays, UNCHANGED <<flow, flying>>
    PROVE  Fine
  <1>1. taken \in Nat /\ taken' = taken /\ taken <= taken'
    BY Ranges DEF IInv, DeviceInv, DeviceTypes, Stays
  <1>2. secret' \cap Known' = {}
    BY DEF IInv, FlowInv, Traced, Known, Stays
  <1>3. FlowInv'
    BY <1>1, <1>2, FlowKept DEF Stays
  <1>4. QED
    BY <1>3 DEF Fine, Stays

LEMMA GrowsFine ==
    ASSUME IInv, DeviceInv', Grows, UNCHANGED <<flow, flying>>
    PROVE  Fine
  <1>1. /\ taken \in Nat /\ taken' = taken + 1 /\ taken' \in Nat /\ taken <= taken'
        /\ taken + 1 \in Photos /\ taken + 1 \notin 1..taken
    BY Ranges DEF IInv, DeviceInv, DeviceTypes, Grows
  <1>2. Known \subseteq 1..taken /\ secret \subseteq 1..taken /\ secret \cap Known = {}
    BY KnownArePhotos DEF IInv, DeviceInv, DeviceTypes, FlowInv, Traced
  <1>3. taken + 1 \notin Known /\ taken + 1 \notin secret
    BY <1>1, <1>2
  <1>4. CASE queue' = queue \cup {taken + 1} /\ secret' = secret
    <2>1. secret' \cap Known' = {}
      BY <1>2, <1>3, <1>4 DEF Known
    <2>2. FlowInv'
      BY <1>1, <1>4, <2>1, FlowKept DEF Grows
    <2>3. D!Take(taken + 1)
      BY <1>3, <1>4 DEF D!Take, Known
    <2>4. QED
      BY <1>1, <2>2, <2>3 DEF Fine, D!Next
  <1>5. CASE queue' = queue /\ secret' \subseteq secret \cup {taken + 1}
    <2>1. secret' \cap Known' = {}
      BY <1>2, <1>3, <1>5 DEF Known
    <2>2. FlowInv'
      BY <1>1, <1>5, <2>1, FlowKept DEF Grows
    <2>3. QED
      BY <1>5, <2>2 DEF Fine
  <1>6. QED
    BY <1>4, <1>5 DEF Grows

LEMMA ThreadStepFine ==
    ASSUME IInv, NEW t \in Threads, ThreadStep(t), UNCHANGED <<flow, flying>>
    PROVE  Fine
  <1>1. DeviceInv
    BY DEF IInv
  <1>2. CASE StopPreview(t)
    BY <1>1, <1>2, StopPreviewOK, StaysFine
  <1>3. CASE PreviewStopped(t)
    BY <1>1, <1>3, PreviewStoppedOK, StaysFine
  <1>4. CASE StopTimesOut(t)
    BY <1>1, <1>4, StopTimesOutOK, StaysFine
  <1>5. CASE Restart(t)
    BY <1>1, <1>5, RestartOK, StaysFine
  <1>6. CASE StartPreview(t)
    BY <1>1, <1>6, StartPreviewOK, StaysFine
  <1>7. CASE RequestDone(t)
    BY <1>1, <1>7, RefusalsOK, StaysFine
  <1>8. CASE LockOperation(t)
    BY <1>1, <1>8, LockOperationOK, StaysFine
  <1>9. CASE StartCapture(t)
    BY <1>1, <1>9, StartCaptureOK, StaysFine
  <1>10. CASE Shoot(t)
    BY <1>1, <1>10, ShootOK, GrowsFine
  <1>11. CASE RetryAll(t)
    BY <1>1, <1>11, RetryAllOK, StaysFine
  <1>12. CASE taken = MaxPhotos /\ ShotFails(t)
    BY <1>1, <1>12, ShotFailsOK, StaysFine
  <1>13. QED
    BY <1>2, <1>3, <1>4, <1>5, <1>6, <1>7, <1>8, <1>9, <1>10, <1>11, <1>12 DEF ThreadStep

LEMMA DeviceFine ==
    ASSUME IInv, DeviceStep \/ DeviceEvents, UNCHANGED <<flow, flying>>
    PROVE  Fine
  <1>1. DeviceInv
    BY DEF IInv
  <1>2. CASE DeviceStep
    <2>1. CASE Press \/ RetryDue
      BY <1>1, <2>1, AsksOK, StaysFine
    <2>2. CASE PreviewLocks \/ PreviewEnds \/ PreviewOver
      BY <1>1, <2>2, PreviewStepsOK, StaysFine
    <2>3. CASE \E t \in Threads : ThreadStep(t)
      BY <2>3, ThreadStepFine
    <2>4. QED
      BY <1>2, <2>1, <2>2, <2>3 DEF DeviceStep
  <1>3. CASE DeviceEvents
    <2>1. CASE Asks
      <3>1. ASSUME NEW t \in Requests, AskPreview(t) PROVE Fine
        BY <1>1, <3>1, AskPreviewOK, StaysFine
      <3>2. CASE \E t \in Requests : \/ AskCapture(t) \/ AskLab(t) \/ AskRetry(t) \/ AskStop(t)
                                     \/ AskApply(t) \/ AskLed(t)
        BY <1>1, <3>2, AsksOK, StaysFine
      <3>3. QED
        BY <2>1, <3>1, <3>2 DEF Asks
    <2>2. CASE SaveSettings
      BY <1>1, <2>2, SaveSettingsOK, StaysFine
    <2>3. CASE CliRetry
      BY <1>1, <2>3, CliRetryOK, StaysFine
    <2>4. CASE CliUpload
      BY <1>1, <2>4, CliUploadOK, GrowsFine
    <2>5. ASSUME NEW t \in Threads, CaptureFails(t) PROVE Fine
      BY <1>1, <2>5, RefusalsOK, StaysFine
    <2>6. ASSUME NEW t \in Threads, ShotFails(t) PROVE Fine
      BY <1>1, <2>6, ShotFailsOK, StaysFine
    <2>7. QED
      BY <1>3, <2>1, <2>2, <2>3, <2>4, <2>5, <2>6 DEF DeviceEvents
  <1>4. QED
    BY <1>2, <1>3

-----------------------------------------------------------------------------
(* What a step of the server must see to.                                  *)

StoresFit ==
    /\ rows' \in [Photos -> Row \cup {Absent}]
    /\ objects' \in [Photos -> Renditions \cup {Absent}]
    /\ thumbs' \in [Photos -> Renditions \cup {Absent}]
    /\ Listed' \subseteq Known /\ Stored' \subseteq Known
    /\ \A p \in Photos : thumbs'[p] # Absent => p \notin Unreadable
    /\ filed' = filed \/ \E p \in Known \ Unreadable : filed' = filed \cup {p}

EditFits(e) ==
    /\ e \in EditRec /\ (e.pc # "idle" => e.photo \in Known)
    /\ e.pc \in {"store", "redraw", "record"} => e.photo \notin Unreadable

SweepFits(w) ==
    /\ w \in SweepRec /\ w.stored \subseteq Known /\ w.todo \subseteq Known
    /\ w.pc \in {"recover", "recovered"} => w.at \in Known /\ w.at \notin Unreadable

HandlerFits(h) ==
    /\ h \in HandlerRec /\ (h.pc # "idle" => h.photo \in Known)
    /\ h.pc \in {"draw", "ready", "mark"} => h.photo \notin Unreadable

RequestsFit ==
    /\ handlers' \in [Slots -> HandlerRec] /\ \A s \in Slots : HandlerFits(handlers'[s])
    /\ replies' \in [Clients -> {"none", "ok", "error"}]

LEMMA DeviceSame ==
    ASSUME DeviceInv, UNCHANGED device
    PROVE  DeviceInv'
  BY DEF DeviceInv, DeviceTypes, Locks, TestModeSilences

LEMMA KnownIs ==
    ASSUME IInv
    PROVE  /\ Known \subseteq 1..taken /\ Known \subseteq Photos /\ taken \in Nat
           /\ queue \subseteq Known /\ filed \subseteq Known /\ filed \cap Unreadable = {}
           /\ secret \cap Known = {}
  BY KnownArePhotos DEF IInv, DeviceInv, FlowInv, Known, Readable, Traced

LEMMA FitNow ==
    ASSUME IInv
    PROVE  /\ EditFits(edit) /\ SweepFits(sweep) /\ \A s \in Slots : HandlerFits(handlers[s])
  BY DEF IInv, FlowInv, FlowTypes, Traced, Readable, EditFits, SweepFits, HandlerFits

LEMMA SameStores ==
    ASSUME IInv, UNCHANGED <<rows, objects, thumbs, filed>>
    PROVE  StoresFit
  BY DEF IInv, FlowInv, FlowTypes, Traced, Readable, StoresFit, Listed, Stored

LEMMA SameRequests ==
    ASSUME IInv, UNCHANGED <<handlers, replies>>
    PROVE  RequestsFit
  BY FitNow DEF IInv, FlowInv, FlowTypes, RequestsFit

LEMMA SameTalk ==
    ASSUME IInv, UNCHANGED <<handlers, replies, threads>>, filed \subseteq filed'
    PROVE  Talk'
  <1>1. Talk
    BY DEF IInv, FlowInv
  <1>2. \A s \in Slots : Waits(handlers[s].client, AskedAt(handlers[s].pc), handlers[s].photo)'
                           <=> Waits(handlers[s].client, AskedAt(handlers[s].pc), handlers[s].photo)
    BY DEF Waits
  <1>3. \A s \in Slots : handlers'[s].client # Absent =>
         /\ handlers'[s].pc # "idle" /\ replies'[handlers'[s].client] = "none"
         /\ Waits(handlers[s].client, AskedAt(handlers[s].pc), handlers[s].photo)'
    BY <1>1, <1>2 DEF Talk
  <1>4. /\ \A s, u \in Slots : handlers'[s].client = handlers'[u].client =>
             \/ s = u
             \/ handlers'[s].client = Absent
        /\ \A c \in Clients : replies'[c] # "none" =>
             \E t \in Threads : ClientOf(t) = c /\ threads'[t].pc \in {"grant", "finish"}
        /\ \A t \in Threads : threads'[t].pc = "finish" /\ Reply(t)' = "ok" =>
             threads'[t].photo \in filed'
        /\ \A t \in Threads : threads'[t].pc = "remove" => threads'[t].photo \in filed'
        /\ \A s \in Slots : handlers'[s].pc = "mark" => handlers'[s].photo \in filed'
    BY <1>1 DEF Talk, Reply
  <1>5. QED
    BY <1>3, <1>4 DEF Talk

LEMMA ServerFine ==
    ASSUME IInv, UNCHANGED <<device, flying>>, StoresFit, EditFits(edit'), SweepFits(sweep'),
           RequestsFit, Talk'
    PROVE  Fine
  <1>1. DeviceInv'
    BY DeviceSame DEF IInv
  <1>2. /\ filed \subseteq filed' /\ filed' \subseteq Known /\ Known' = Known
        /\ filed' \cap Unreadable = {}
    BY KnownIs DEF StoresFit, Known
  <1>3. FlowTypes'
    BY <1>2, KnownIs DEF FlowTypes, IInv, FlowInv, StoresFit, EditFits, SweepFits, RequestsFit
  <1>4. Traced'
    <2>1. \A s \in Slots : handlers'[s].pc # "idle" => handlers'[s].photo \in Known'
      BY <1>2 DEF RequestsFit, HandlerFits
    <2>2. /\ secret' \cap Known' = {} /\ Listed' \subseteq Known' /\ Stored' \subseteq Known'
          /\ flying' \subseteq Known'
          /\ \A t \in Threads : threads'[t].pc \in Sending => threads'[t].photo \in Known'
      BY <1>2, KnownIs DEF IInv, FlowInv, Traced, StoresFit
    <2>3. /\ edit'.pc # "idle" => edit'.photo \in Known'
          /\ sweep'.stored \subseteq Known' /\ sweep'.todo \subseteq Known'
          /\ sweep'.pc \in {"recover", "recovered"} => sweep'.at \in Known'
      BY <1>2 DEF EditFits, SweepFits
    <2>4. QED
      BY <2>1, <2>2, <2>3 DEF Traced
  <1>5. Readable'
    BY <1>2 DEF Readable, StoresFit, EditFits, SweepFits, RequestsFit, HandlerFits
  <1>6. [D!Next]_<<queue, filed>>
    <2>1. CASE filed' = filed
      BY <2>1
    <2>2. CASE \E p \in Known \ Unreadable : filed' = filed \cup {p} /\ p \notin filed
      <3>1. PICK p \in Known \ Unreadable : filed' = filed \cup {p} /\ p \notin filed
        BY <2>2
      <3>2. p \in Photos /\ p \in queue
        BY <3>1, KnownIs DEF Known
      <3>3. D!File(p)
        BY <3>1, <3>2 DEF D!File
      <3>4. QED
        BY <3>2, <3>3 DEF D!Next
    <2>3. filed' = filed \/ \E p \in Known \ Unreadable : filed' = filed \cup {p} /\ p \notin filed
      <3>1. \A p : p \in filed => filed \cup {p} = filed
        OBVIOUS
      <3>2. QED
        BY <3>1 DEF StoresFit
    <2>4. QED
      BY <2>1, <2>2, <2>3
  <1>7. QED
    BY <1>1, <1>3, <1>4, <1>5, <1>6 DEF Fine, FlowInv

-----------------------------------------------------------------------------
(* Rows, objects and thumbnails.                                           *)

LEMMA NewRowOK ==
    ASSUME NEW size \in Renditions \cup {Absent}, NEW owner \in Devices \cup {Absent}
    PROVE  NewRow(size, owner) \in Row
  BY Zenon DEF NewRow, Row

LEMMA ReadyRowOK ==
    ASSUME NEW r \in Row
    PROVE  [r EXCEPT !.ready = TRUE] \in Row
  BY Zenon DEF Row

LEMMA ThumbRowOK ==
    ASSUME NEW r \in Row
    PROVE  [r EXCEPT !.thumb = TRUE] \in Row
  BY Zenon DEF Row

LEMMA SizeRowOK ==
    ASSUME NEW r \in Row, NEW size \in Renditions \cup {Absent}
    PROVE  [r EXCEPT !.size = size, !.thumb = TRUE] \in Row
  BY Zenon DEF Row

LEMMA ReservedRowOK ==
    ASSUME NEW r \in Row, NEW size \in Renditions \cup {Absent},
           NEW owner \in Devices \cup {Absent}
    PROVE  [r EXCEPT !.size = size, !.device = owner] \in Row
  BY Zenon DEF Row

LEMMA RowFieldsOK ==
    ASSUME NEW r \in Row
    PROVE  /\ r.size \in Renditions \cup {Absent} /\ r.device \in Devices \cup {Absent}
           /\ r.ready \in BOOLEAN /\ r.thumb \in BOOLEAN
  BY Zenon DEF Row

LEMMA StoresNow ==
    ASSUME IInv
    PROVE  /\ rows \in [Photos -> Row \cup {Absent}]
           /\ objects \in [Photos -> Renditions \cup {Absent}]
           /\ thumbs \in [Photos -> Renditions \cup {Absent}]
           /\ Listed \subseteq Known /\ Stored \subseteq Known
           /\ \A p \in Photos : thumbs[p] # Absent => p \notin Unreadable
           /\ Gallery \subseteq Listed
  BY DEF IInv, FlowInv, FlowTypes, Traced, Readable, Gallery

(* A row changes.                                                          *)
LEMMA SetRowFits ==
    ASSUME IInv, NEW p \in Known, NEW r \in Row \cup {Absent}, rows' = [rows EXCEPT ![p] = r],
           UNCHANGED <<objects, thumbs>>,
           filed' = filed \/ (filed' = filed \cup {p} /\ p \notin Unreadable)
    PROVE  StoresFit
  <1>1. p \in Photos
    BY KnownIs
  <1>2. rows' \in [Photos -> Row \cup {Absent}] /\ \A q \in Photos : q # p => rows'[q] = rows[q]
    BY <1>1, StoresNow
  <1>3. Listed' \subseteq Known
    BY <1>2, StoresNow DEF Listed
  <1>4. Stored' \subseteq Known
    BY StoresNow DEF Stored
  <1>5. QED
    BY <1>2, <1>3, <1>4, StoresNow DEF StoresFit

LEMMA PublishFits ==
    ASSUME IInv, NEW p \in Known \ Unreadable, rows[p] # Absent, Publish(p),
           UNCHANGED <<objects, thumbs>>
    PROVE  StoresFit
  <1>1. p \in Photos /\ rows[p] \in Row
    BY KnownIs, StoresNow
  <1>2. [rows[p] EXCEPT !.ready = TRUE] \in Row
    BY <1>1, ReadyRowOK
  <1>3. rows' = [rows EXCEPT ![p] = [rows[p] EXCEPT !.ready = TRUE]] /\ filed' = filed \cup {p}
    BY DEF Publish
  <1>4. QED
    BY <1>2, <1>3, SetRowFits

LEMMA ThumbMarkedIs ==
    ASSUME IInv, NEW p \in Known
    PROVE  \E r \in Row \cup {Absent} : ThumbMarked(p) = [rows EXCEPT ![p] = r]
  <1>1. p \in Photos /\ rows[p] \in Row \cup {Absent}
    BY KnownIs, StoresNow
  <1> DEFINE r == IF rows[p] = Absent THEN rows[p] ELSE [rows[p] EXCEPT !.thumb = TRUE]
  <1>2. r \in Row \cup {Absent}
    BY <1>1, ThumbRowOK
  <1>3. ThumbMarked(p) = [rows EXCEPT ![p] = r]
    BY DEF ThumbMarked
  <1> HIDE DEF r
  <1>4. QED
    BY <1>2, <1>3

LEMMA ThumbMarkedFits ==
    ASSUME IInv, NEW p \in Known, rows' = ThumbMarked(p), UNCHANGED <<objects, thumbs, filed>>
    PROVE  StoresFit
  <1>1. PICK r \in Row \cup {Absent} : rows' = [rows EXCEPT ![p] = r]
    BY ThumbMarkedIs
  <1>2. QED
    BY <1>1, SetRowFits

(* An object comes, changes or goes.                                       *)
LEMMA SetObjectFits ==
    ASSUME IInv, NEW p \in Known, NEW v \in Renditions \cup {Absent},
           objects' = [objects EXCEPT ![p] = v], UNCHANGED <<rows, thumbs, filed>>
    PROVE  StoresFit
  <1>1. p \in Photos
    BY KnownIs
  <1>2. /\ objects' \in [Photos -> Renditions \cup {Absent}]
        /\ \A q \in Photos : q # p => objects'[q] = objects[q]
    BY <1>1, StoresNow
  <1>3. Stored' \subseteq Known
    BY <1>2, StoresNow DEF Stored
  <1>4. Listed' \subseteq Known
    BY StoresNow DEF Listed
  <1>5. QED
    BY <1>2, <1>3, <1>4, StoresNow DEF StoresFit

(* A thumbnail is drawn, or removed; its row may be told.                  *)
LEMMA SetThumbFits ==
    ASSUME IInv, NEW p \in Known, NEW v \in Renditions \cup {Absent},
           p \notin Unreadable \/ v = Absent,
           thumbs' = [thumbs EXCEPT ![p] = v], UNCHANGED <<objects, filed>>,
           rows' = rows \/ \E r \in Row \cup {Absent} : rows' = [rows EXCEPT ![p] = r]
    PROVE  StoresFit
  <1>1. p \in Photos
    BY KnownIs
  <1>2. /\ thumbs' \in [Photos -> Renditions \cup {Absent}]
        /\ \A q \in Photos : q # p => thumbs'[q] = thumbs[q]
        /\ thumbs'[p] = v
    BY <1>1, StoresNow
  <1>3. \A q \in Photos : thumbs'[q] # Absent => q \notin Unreadable
    BY <1>2, StoresNow
  <1>4. /\ rows' \in [Photos -> Row \cup {Absent}]
        /\ \A q \in Photos : q # p => rows'[q] = rows[q]
    BY <1>1, StoresNow
  <1>5. Listed' \subseteq Known
    BY <1>4, StoresNow DEF Listed
  <1>6. Stored' \subseteq Known
    BY StoresNow DEF Stored
  <1>7. QED
    BY <1>2, <1>3, <1>4, <1>5, <1>6, StoresNow DEF StoresFit

LEMMA DrawnFits ==
    ASSUME IInv, NEW p \in Known, CanDraw(p), thumbs' = Drawn(p), UNCHANGED <<objects, filed>>,
           rows' = rows \/ \E r \in Row \cup {Absent} : rows' = [rows EXCEPT ![p] = r]
    PROVE  StoresFit /\ p \notin Unreadable
  <1>1. p \in Photos
    BY KnownIs
  <1> DEFINE v == IF thumbs[p] = Absent THEN objects[p] ELSE thumbs[p]
  <1>2. v \in Renditions \cup {Absent}
    BY <1>1, StoresNow
  <1>3. p \notin Unreadable
    BY <1>1, StoresNow DEF CanDraw, Decodes
  <1>4. thumbs' = [thumbs EXCEPT ![p] = v]
    BY DEF Drawn
  <1> HIDE DEF v
  <1>5. QED
    BY <1>2, <1>3, <1>4, SetThumbFits

-----------------------------------------------------------------------------
(* Rotations and deletions.                                                *)

LEMMA EditFieldsOK ==
    ASSUME NEW e \in EditRec
    PROVE  /\ e.pc \in {"idle", "store", "redraw", "record", "erase", "unlist"}
           /\ e.photo \in Photos \cup {Absent} /\ e.saw \in Renditions \cup {Absent}
  BY Zenon DEF EditRec

LEMMA EditGoesFits ==
    ASSUME IInv, NEW pc \in {"redraw", "record", "unlist"}, EditGoes(pc),
           pc = "unlist" \/ edit.pc \in {"store", "redraw", "record"}, edit.pc # "idle"
    PROVE  EditFits(edit')
  <1>1. edit \in EditRec /\ EditFits(edit)
    BY FitNow DEF EditFits
  <1>2. edit' \in EditRec
    BY <1>1, Zenon DEF EditGoes, EditRec
  <1>3. edit'.pc = pc /\ edit'.photo = edit.photo
    BY <1>1 DEF EditGoes, EditRec
  <1>4. QED
    BY <1>1, <1>2, <1>3 DEF EditFits

LEMMA NoEditFits == EditFits(NoEdit)
  BY DEF NoEdit, EditFits, EditRec

(* A step of an edit.                                                      *)
LEMMA EditFine ==
    ASSUME IInv, UNCHANGED <<device, flying>>, Kept, StoresFit, EditFits(edit')
    PROVE  Fine
  <1>1. RequestsFit /\ SweepFits(sweep') /\ filed \subseteq filed'
    BY FitNow, SameRequests DEF Kept, StoresFit
  <1>2. Talk'
    BY <1>1, SameTalk DEF Kept
  <1>3. QED
    BY <1>1, <1>2, ServerFine

LEMMA RotateReadFine ==
    ASSUME IInv, NEW p \in Photos, RotateRead(p), UNCHANGED <<device, flying>>
    PROVE  Fine
  <1>1. p \in Known /\ p \notin Unreadable
    BY StoresNow DEF RotateRead, Decodes
  <1>2. objects[p] + 1 \in Renditions
    BY StoresNow, Ranges DEF RotateRead, Decodes, Renditions
  <1>3. /\ edit' \in EditRec /\ edit'.pc = "store" /\ edit'.photo = p
    <2>1. edit' = [pc |-> "store", photo |-> p, saw |-> objects[p] + 1]
      BY DEF RotateRead
    <2> DEFINE saw == objects[p] + 1
    <2>2. saw \in Renditions \cup {Absent}
      BY <1>2
    <2> HIDE DEF saw
    <2>3. QED
      BY <2>1, <2>2 DEF EditRec, saw
  <1>4. EditFits(edit')
    BY <1>1, <1>3 DEF EditFits
  <1>5. StoresFit
    BY SameStores DEF RotateRead
  <1>6. QED
    BY <1>4, <1>5, EditFine DEF RotateRead

LEMMA RotateStoreFine ==
    ASSUME IInv, RotateStore, UNCHANGED <<device, flying>>
    PROVE  Fine
  <1>1. edit.photo \in Known /\ edit.saw \in Renditions \cup {Absent}
    BY FitNow, EditFieldsOK DEF RotateStore, EditAt, EditFits
  <1>2. StoresFit
    BY <1>1, SetObjectFits DEF RotateStore
  <1>3. EditFits(edit')
    BY EditGoesFits DEF RotateStore, EditAt
  <1>4. QED
    BY <1>2, <1>3, EditFine DEF RotateStore

LEMMA RotateThumbFine ==
    ASSUME IInv, RotateThumb, UNCHANGED <<device, flying>>
    PROVE  Fine
  <1>1. /\ edit.photo \in Known /\ edit.saw \in Renditions \cup {Absent}
        /\ edit.photo \notin Unreadable
    BY FitNow, EditFieldsOK DEF RotateThumb, EditAt, EditFits
  <1>2. StoresFit
    BY <1>1, SetThumbFits DEF RotateThumb
  <1>3. EditFits(edit')
    BY EditGoesFits DEF RotateThumb, EditAt
  <1>4. QED
    BY <1>2, <1>3, EditFine DEF RotateThumb

LEMMA RotateRecordFine ==
    ASSUME IInv, RotateRecord, UNCHANGED <<device, flying>>
    PROVE  Fine
  <1> DEFINE p == edit.photo
             saw == edit.saw
             r == [rows[p] EXCEPT !.size = saw, !.thumb = TRUE]
  <1>1. p \in Known /\ saw \in Renditions \cup {Absent}
    BY FitNow, EditFieldsOK DEF RotateRecord, EditAt, EditFits
  <1>2. StoresFit
    <2>1. CASE p \in Gallery
      <3>1. rows[p] \in Row
        BY <2>1, StoresNow DEF Gallery, Listed
      <3>2. r \in Row
        BY <1>1, <3>1, SizeRowOK
      <3>3. rows' = [rows EXCEPT ![p] = r]
        BY <2>1 DEF RotateRecord
      <3> HIDE DEF r
      <3>4. QED
        BY <1>1, <3>2, <3>3, SetRowFits DEF RotateRecord
    <2>2. CASE p \notin Gallery
      BY <2>2, SameStores DEF RotateRecord
    <2>3. QED
      BY <2>1, <2>2
  <1>3. EditFits(edit')
    BY NoEditFits DEF RotateRecord
  <1>4. QED
    BY <1>2, <1>3, EditFine DEF RotateRecord

LEMMA DeleteThumbFine ==
    ASSUME IInv, NEW p \in Photos, DeleteThumb(p), UNCHANGED <<device, flying>>
    PROVE  Fine
  <1>1. p \in Known
    BY StoresNow DEF DeleteThumb
  <1>2. edit' \in EditRec /\ edit'.pc = "erase" /\ edit'.photo = p
    BY DEF DeleteThumb, EditRec
  <1>3. EditFits(edit')
    BY <1>1, <1>2 DEF EditFits
  <1>4. StoresFit
    BY <1>1, SetThumbFits DEF DeleteThumb
  <1>5. QED
    BY <1>3, <1>4, EditFine DEF DeleteThumb

LEMMA DeleteObjectFine ==
    ASSUME IInv, DeleteObject, UNCHANGED <<device, flying>>
    PROVE  Fine
  <1>1. edit.photo \in Known
    BY FitNow DEF DeleteObject, EditAt, EditFits
  <1>2. StoresFit
    BY <1>1, SetObjectFits DEF DeleteObject
  <1>3. EditFits(edit')
    BY EditGoesFits DEF DeleteObject, EditAt
  <1>4. QED
    BY <1>2, <1>3, EditFine DEF DeleteObject

LEMMA DeleteRowFine ==
    ASSUME IInv, DeleteRow, UNCHANGED <<device, flying>>
    PROVE  Fine
  <1>1. edit.photo \in Known
    BY FitNow DEF DeleteRow, EditAt, EditFits
  <1>2. StoresFit
    BY <1>1, SetRowFits DEF DeleteRow
  <1>3. EditFits(edit')
    BY NoEditFits DEF DeleteRow
  <1>4. QED
    BY <1>2, <1>3, EditFine DEF DeleteRow

LEMMA EditDiesFine ==
    ASSUME IInv, EditDies, UNCHANGED <<device, flying>>
    PROVE  Fine
  BY NoEditFits, SameStores, EditFine DEF EditDies

-----------------------------------------------------------------------------
(* The reconciliation.                                                     *)

LEMMA NoSweepFits == SweepFits(NoSweep)
  <1>1. NoSweep \in SweepRec
    BY Zenon DEF NoSweep, SweepRec, SweepPcs
  <1>2. QED
    BY <1>1 DEF NoSweep, SweepFits

LEMMA SweepNow ==
    ASSUME IInv
    PROVE  /\ sweep \in SweepRec /\ sweep.stored \subseteq Known /\ sweep.todo \subseteq Known
           /\ Known \subseteq Photos
           /\ sweep.pc \in {"recover", "recovered"} =>
                sweep.at \in Known /\ sweep.at \notin Unreadable
  BY FitNow, KnownIs DEF SweepFits

(* A step of the reconciliation.                                           *)
LEMMA SweepFine ==
    ASSUME IInv, UNCHANGED <<device, flying>>, Aside, StoresFit, SweepFits(sweep')
    PROVE  Fine
  <1>1. RequestsFit /\ EditFits(edit') /\ filed \subseteq filed'
    BY FitNow, SameRequests DEF Aside, StoresFit
  <1>2. Talk'
    BY <1>1, SameTalk DEF Aside
  <1>3. QED
    BY <1>1, <1>2, ServerFine

(* The list of what is to be done changes.                                 *)
LEMMA TodoFits ==
    ASSUME IInv, NEW pc \in SweepPcs \ {"recover", "recovered"}, NEW todo, todo \subseteq Known,
           \/ sweep' = [sweep EXCEPT !.pc = pc, !.todo = todo, !.pending = todo]
           \/ sweep' = [sweep EXCEPT !.pc = pc, !.todo = todo, !.at = Absent]
           \/ sweep' = [sweep EXCEPT !.pc = pc, !.todo = todo]
           \/ sweep' = [sweep EXCEPT !.todo = todo] /\ sweep.pc = pc
    PROVE  SweepFits(sweep')
  <1>1. todo \in SUBSET Photos /\ sweep \in SweepRec
    BY SweepNow
  <1>2. sweep' \in SweepRec
    BY <1>1, Zenon DEF SweepRec
  <1>3. sweep'.todo = todo /\ sweep'.stored = sweep.stored /\ sweep'.pc = pc
    BY <1>1 DEF SweepRec
  <1>4. QED
    BY <1>2, <1>3, SweepNow DEF SweepFits

LEMMA SweepReadyFine ==
    ASSUME IInv, SweepReady, UNCHANGED <<device, flying>>
    PROVE  Fine
  <1>1. NoSweep \in SweepRec /\ Gallery \in SUBSET Photos
    BY NoSweepFits, StoresNow, KnownIs DEF SweepFits
  <1>2. sweep' = [NoSweep EXCEPT !.pc = "pending", !.ready = Gallery] /\ "pending" \in SweepPcs
    BY DEF SweepReady, SweepPcs
  <1> DEFINE ready == Gallery
  <1>3. ready \in SUBSET Photos /\ sweep' = [NoSweep EXCEPT !.pc = "pending", !.ready = ready]
    BY <1>1, <1>2
  <1> HIDE DEF ready
  <1>4. sweep' \in SweepRec
    BY <1>1, <1>2, <1>3, Zenon DEF SweepRec
  <1>5. sweep'.pc = "pending" /\ sweep'.stored = {} /\ sweep'.todo = {}
    BY <1>3 DEF NoSweep
  <1>6. SweepFits(sweep')
    BY <1>4, <1>5 DEF SweepFits
  <1>7. QED
    BY <1>6, SameStores, SweepFine DEF SweepReady

LEMMA SweepPendingFine ==
    ASSUME IInv, SweepPending, UNCHANGED <<device, flying>>
    PROVE  Fine
  <1> DEFINE todo == Listed \ Gallery
  <1>1. todo \subseteq Known /\ "stored" \in SweepPcs \ {"recover", "recovered"}
    BY StoresNow DEF SweepPcs
  <1>2. sweep' = [sweep EXCEPT !.pc = "stored", !.todo = todo, !.pending = todo]
    BY DEF SweepPending
  <1> HIDE DEF todo
  <1>3. SweepFits(sweep')
    BY <1>1, <1>2, TodoFits
  <1>4. QED
    BY <1>3, SameStores, SweepFine DEF SweepPending

LEMMA SweepStoredFine ==
    ASSUME IInv, SweepStored, UNCHANGED <<device, flying>>
    PROVE  Fine
  <1> DEFINE stored == Stored
  <1>1. stored \subseteq Known /\ stored \in SUBSET Photos /\ "each" \in SweepPcs
        /\ sweep \in SweepRec
    BY StoresNow, SweepNow DEF SweepPcs
  <1>2. sweep' = [sweep EXCEPT !.pc = "each", !.stored = stored]
    BY DEF SweepStored
  <1> HIDE DEF stored
  <1>3. sweep' \in SweepRec
    BY <1>1, <1>2, Zenon DEF SweepRec
  <1>4. sweep'.pc = "each" /\ sweep'.stored = stored /\ sweep'.todo = sweep.todo
    BY <1>1, <1>2 DEF SweepRec
  <1>5. SweepFits(sweep')
    BY <1>1, <1>3, <1>4, SweepNow DEF SweepFits
  <1>6. QED
    BY <1>5, SameStores, SweepFine DEF SweepStored

LEMMA SweepRecoverFine ==
    ASSUME IInv, NEW p \in Photos, SweepRecover(p), UNCHANGED <<device, flying>>
    PROVE  Fine
  <1>1. p \in Known /\ sweep \in SweepRec /\ "recover" \in SweepPcs
    BY SweepNow DEF SweepRecover, SweepPcs
  <1>2. StoresFit /\ p \notin Unreadable
    BY <1>1, DrawnFits DEF SweepRecover
  <1>3. sweep' = [sweep EXCEPT !.pc = "recover", !.at = p]
    BY DEF SweepRecover
  <1>4. sweep' \in SweepRec
    BY <1>1, <1>3, Zenon DEF SweepRec
  <1>5. /\ sweep'.pc = "recover" /\ sweep'.at = p
        /\ sweep'.stored = sweep.stored /\ sweep'.todo = sweep.todo
    BY <1>1, <1>3 DEF SweepRec
  <1>6. SweepFits(sweep')
    BY <1>1, <1>2, <1>4, <1>5, SweepNow DEF SweepFits
  <1>7. QED
    BY <1>2, <1>6, SweepFine DEF SweepRecover

LEMMA LessTodoFits ==
    ASSUME IInv, NEW p \in Photos, sweep.pc \notin {"recover", "recovered"},
           sweep' = [sweep EXCEPT !.todo = @ \ {p}]
    PROVE  SweepFits(sweep')
  <1> DEFINE todo == sweep.todo \ {p}
  <1>1. todo \subseteq Known /\ sweep.pc \in SweepPcs \ {"recover", "recovered"}
    <2>1. sweep.pc \in SweepPcs
      BY SweepNow, Zenon DEF SweepRec
    <2>2. QED
      BY <2>1, SweepNow
  <1>2. sweep' = [sweep EXCEPT !.todo = todo]
    OBVIOUS
  <1> HIDE DEF todo
  <1>3. QED
    BY <1>1, <1>2, TodoFits

LEMMA SweepSkipFine ==
    ASSUME IInv, NEW p \in Photos, SweepSkip(p), UNCHANGED <<device, flying>>
    PROVE  Fine
  <1>1. SweepFits(sweep')
    BY LessTodoFits DEF SweepSkip, SweepAt
  <1>2. QED
    BY <1>1, SameStores, SweepFine DEF SweepSkip

LEMMA SweepMarkReadyFine ==
    ASSUME IInv, SweepMarkReady, UNCHANGED <<device, flying>>
    PROVE  Fine
  <1>1. /\ sweep.at \in Known /\ sweep.at \notin Unreadable /\ sweep \in SweepRec
        /\ "recovered" \in SweepPcs
    BY SweepNow DEF SweepMarkReady, SweepAt, SweepPcs
  <1>2. CASE rows[sweep.at] = Absent
    BY <1>2, SameStores, NoSweepFits, SweepFine DEF SweepMarkReady
  <1>3. CASE rows[sweep.at] # Absent
    <2>1. sweep' = [sweep EXCEPT !.pc = "recovered"] /\ Publish(sweep.at)
      BY <1>3 DEF SweepMarkReady
    <2>2. sweep' \in SweepRec
      BY <1>1, <2>1, Zenon DEF SweepRec
    <2>3. /\ sweep'.pc = "recovered" /\ sweep'.at = sweep.at
          /\ sweep'.stored = sweep.stored /\ sweep'.todo = sweep.todo
      BY <1>1, <2>1 DEF SweepRec
    <2>4. SweepFits(sweep')
      BY <1>1, <2>2, <2>3, SweepNow DEF SweepFits
    <2>5. StoresFit
      BY <1>1, <1>3, <2>1, PublishFits DEF SweepMarkReady
    <2>6. QED
      BY <2>4, <2>5, SweepFine DEF SweepMarkReady
  <1>4. QED
    BY <1>2, <1>3

LEMMA SweepMarkThumbFine ==
    ASSUME IInv, SweepMarkThumb, UNCHANGED <<device, flying>>
    PROVE  Fine
  <1>1. sweep.at \in Known
    BY SweepNow DEF SweepMarkThumb, SweepAt
  <1>2. StoresFit
    BY <1>1, ThumbMarkedFits DEF SweepMarkThumb
  <1> DEFINE todo == sweep.todo \ {sweep.at}
  <1>3. todo \subseteq Known /\ "each" \in SweepPcs \ {"recover", "recovered"}
    BY SweepNow DEF SweepPcs
  <1>4. sweep' = [sweep EXCEPT !.pc = "each", !.todo = todo, !.at = Absent]
    BY DEF SweepMarkThumb
  <1> HIDE DEF todo
  <1>5. SweepFits(sweep')
    BY <1>3, <1>4, TodoFits
  <1>6. QED
    BY <1>2, <1>5, SweepFine DEF SweepMarkThumb

LEMMA SweepOrphansFine ==
    ASSUME IInv, SweepOrphans, UNCHANGED <<device, flying>>
    PROVE  Fine
  <1> DEFINE todo == Orphans
  <1>1. todo \subseteq Known /\ "import" \in SweepPcs \ {"recover", "recovered"}
    BY SweepNow DEF SweepPcs, Orphans
  <1>2. sweep' = [sweep EXCEPT !.pc = "import", !.todo = todo]
    BY DEF SweepOrphans
  <1> HIDE DEF todo
  <1>3. SweepFits(sweep')
    BY <1>1, <1>2, TodoFits
  <1>4. QED
    BY <1>3, SameStores, SweepFine DEF SweepOrphans

LEMMA SweepImportFine ==
    ASSUME IInv, NEW p \in Photos, SweepImport(p), UNCHANGED <<device, flying>>
    PROVE  Fine
  <1>1. p \in Known /\ rows[p] \in Row \cup {Absent}
    BY SweepNow, StoresNow DEF SweepImport
  <1> DEFINE r == Imported(rows[p])
  <1>2. r \in Row
    <2>1. NewRow(Absent, Absent) \in Row
      BY NewRowOK
    <2>2. QED
      BY <1>1, <2>1, ReadyRowOK DEF Imported
  <1>3. rows' = [rows EXCEPT ![p] = r]
    BY DEF SweepImport
  <1> HIDE DEF r
  <1>4. StoresFit
    BY <1>1, <1>2, <1>3, SetRowFits DEF SweepImport
  <1>5. SweepFits(sweep')
    BY LessTodoFits DEF SweepImport, SweepAt
  <1>6. QED
    BY <1>4, <1>5, SweepFine DEF SweepImport

LEMMA SweepThumbsFine ==
    ASSUME IInv, SweepThumbs, UNCHANGED <<device, flying>>
    PROVE  Fine
  <1> DEFINE todo == {p \in Gallery \cap sweep.stored : ~rows[p].thumb}
  <1>1. todo \subseteq Known /\ "thumbs" \in SweepPcs \ {"recover", "recovered"}
    <2>1. todo \subseteq sweep.stored
      BY Zenon
    <2>2. QED
      BY <2>1, SweepNow DEF SweepPcs
  <1>2. sweep' = [sweep EXCEPT !.pc = "thumbs", !.todo = todo]
    BY Zenon DEF SweepThumbs
  <1> HIDE DEF todo
  <1>3. SweepFits(sweep')
    BY <1>1, <1>2, TodoFits
  <1>4. QED
    BY <1>3, SameStores, SweepFine DEF SweepThumbs

LEMMA SweepThumbFine ==
    ASSUME IInv, NEW p \in Photos, SweepThumb(p), UNCHANGED <<device, flying>>
    PROVE  Fine
  <1>1. p \in Known
    BY SweepNow DEF SweepThumb
  <1>2. StoresFit
    <2>1. CASE CanDraw(p) /\ thumbs' = Drawn(p) /\ rows' = ThumbMarked(p)
      <3>1. PICK r \in Row \cup {Absent} : rows' = [rows EXCEPT ![p] = r]
        BY <1>1, <2>1, ThumbMarkedIs
      <3>2. QED
        BY <1>1, <2>1, <3>1, DrawnFits DEF SweepThumb
    <2>2. CASE UNCHANGED <<rows, thumbs>>
      BY <2>2, SameStores DEF SweepThumb
    <2>3. QED
      BY <2>1, <2>2 DEF SweepThumb
  <1>3. SweepFits(sweep')
    BY LessTodoFits DEF SweepThumb, SweepAt
  <1>4. QED
    BY <1>2, <1>3, SweepFine DEF SweepThumb

LEMMA SweepOverFine ==
    ASSUME IInv, SweepEnds \/ SweepDies, UNCHANGED <<device, flying>>
    PROVE  Fine
  BY NoSweepFits, SameStores, SweepFine DEF SweepEnds, SweepDies

-----------------------------------------------------------------------------
(* Requests at the server.                                                 *)

LEMMA HandlerFieldsOK ==
    ASSUME NEW h \in HandlerRec
    PROVE  /\ h.pc \in Phases \cup {"idle"} /\ h.photo \in Photos \cup {Absent}
           /\ h.client \in Clients \cup {Absent} /\ h.device \in Devices \cup {Absent}
           /\ h.saw \in Renditions \cup {Absent}
  BY Zenon DEF HandlerRec

LEMMA HandlersNow ==
    ASSUME IInv
    PROVE  /\ handlers \in [Slots -> HandlerRec]
           /\ replies \in [Clients -> {"none", "ok", "error"}] /\ Talk
           /\ \A s \in Slots : HandlerFits(handlers[s])
  BY FitNow DEF IInv, FlowInv, FlowTypes

LEMMA IdleIs ==
    /\ Idle \in HandlerRec /\ Idle.pc = "idle" /\ Idle.client = Absent /\ HandlerFits(Idle)
  <1>1. Idle \in HandlerRec
    BY Zenon DEF Idle, HandlerRec
  <1>2. Idle.pc = "idle" /\ Idle.client = Absent
    BY DEF Idle
  <1>3. QED
    BY <1>1, <1>2 DEF HandlerFits

(* A client's thread at work on photos is one; so is the thread that waits.*)
LEMMA OneAtWork ==
    ASSUME DeviceInv, NEW t \in Threads, NEW u \in Threads, ClientOf(t) = ClientOf(u),
           threads[t].pc \in Sending, threads[u].pc \in Sending
    PROVE  t = u
  <1>1. \A v \in Service : threads[v].pc \in Sending => opLock = v
    BY PhasesAre DEF DeviceInv, Locks
  <1>2. QED
    BY <1>1, Names, ClientsOK

LEMMA StepToOK ==
    ASSUME IInv, NEW s \in Slots, NEW pc \in Phases, NEW saw \in Renditions \cup {Absent},
           StepTo(s, pc, saw), handlers[s].pc # "idle", AskedAt(pc) = AskedAt(handlers[s].pc),
           pc \in {"draw", "ready", "mark"} => handlers[s].photo \notin Unreadable,
           UNCHANGED threads, filed \subseteq filed',
           pc = "mark" => handlers[s].photo \in filed'
    PROVE  RequestsFit /\ Talk'
  <1> DEFINE h == [handlers[s] EXCEPT !.pc = pc, !.saw = saw]
  <1>1. handlers[s] \in HandlerRec /\ HandlerFits(handlers[s]) /\ pc # "idle"
    BY HandlersNow DEF Phases
  <1>2. h \in HandlerRec
    BY <1>1, Zenon DEF HandlerRec
  <1>3. h.pc = pc /\ h.photo = handlers[s].photo /\ h.client = handlers[s].client
    BY <1>1 DEF HandlerRec
  <1>4. handlers' = [handlers EXCEPT ![s] = h] /\ replies' = replies
    BY DEF StepTo
  <1> HIDE DEF h
  <1>5. /\ handlers' \in [Slots -> HandlerRec] /\ handlers'[s] = h
        /\ \A u \in Slots : u # s => handlers'[u] = handlers[u]
    BY <1>2, <1>4, HandlersNow
  <1>6. HandlerFits(h)
    BY <1>1, <1>2, <1>3 DEF HandlerFits
  <1>7. RequestsFit
    BY <1>4, <1>5, <1>6, HandlersNow DEF RequestsFit
  <1>8. \A u \in Slots : /\ handlers'[u].client = handlers[u].client
                         /\ handlers'[u].photo = handlers[u].photo
                         /\ AskedAt(handlers'[u].pc) = AskedAt(handlers[u].pc)
                         /\ handlers[u].pc # "idle" => handlers'[u].pc # "idle"
    BY <1>1, <1>3, <1>5
  <1>9. Talk'
    <2>1. ASSUME NEW u \in Slots, handlers'[u].client # Absent
          PROVE  /\ handlers'[u].pc # "idle" /\ replies'[handlers'[u].client] = "none"
                 /\ Waits(handlers[u].client, AskedAt(handlers[u].pc), handlers[u].photo)'
      <3>1. /\ handlers[u].pc # "idle" /\ replies[handlers[u].client] = "none"
            /\ Waits(handlers[u].client, AskedAt(handlers[u].pc), handlers[u].photo)
        BY <1>8, <2>1, HandlersNow DEF Talk
      <3>2. \E t \in Threads : /\ ClientOf(t) = handlers'[u].client
                               /\ threads'[t].pc = AskedAt(handlers'[u].pc)
                               /\ threads'[t].photo = handlers'[u].photo
        BY <1>8, <3>1 DEF Waits
      <3>3. QED
        BY <1>4, <1>8, <3>1, <3>2 DEF Waits
    <2>2. \A u, v \in Slots : handlers'[u].client = handlers'[v].client =>
            \/ u = v
            \/ handlers'[u].client = Absent
      BY <1>8, HandlersNow DEF Talk
    <2>3. /\ \A c \in Clients : replies'[c] # "none" =>
               \E t \in Threads : ClientOf(t) = c /\ threads'[t].pc \in {"grant", "finish"}
          /\ \A t \in Threads : threads'[t].pc = "finish" /\ Reply(t)' = "ok" =>
               threads'[t].photo \in filed'
          /\ \A t \in Threads : threads'[t].pc = "remove" => threads'[t].photo \in filed'
      BY <1>4, HandlersNow DEF Talk, Reply
    <2>4. \A u \in Slots : handlers'[u].pc = "mark" => handlers'[u].photo \in filed'
      BY <1>3, <1>5, HandlersNow DEF Talk
    <2>5. QED
      BY <2>1, <2>2, <2>3, <2>4 DEF Talk
  <1>10. QED
    BY <1>7, <1>9

LEMMA IdleOK ==
    ASSUME IInv, NEW s \in Slots, handlers' = [handlers EXCEPT ![s] = Idle], UNCHANGED threads,
           \/ replies' = replies
           \/ /\ handlers[s].client # Absent
              /\ \/ replies' = [replies EXCEPT ![handlers[s].client] = "error"]
                 \/ /\ replies' = [replies EXCEPT ![handlers[s].client] = "ok"]
                    /\ (AskedAt(handlers[s].pc) = "grant" \/ handlers[s].photo \in filed'),
           filed \subseteq filed'
    PROVE  RequestsFit /\ Talk'
  <1> DEFINE c == handlers[s].client
  <1>1. handlers[s] \in HandlerRec /\ c \in Clients \cup {Absent}
    BY HandlersNow, HandlerFieldsOK
  <1>2. /\ handlers' \in [Slots -> HandlerRec] /\ handlers'[s] = Idle
        /\ \A u \in Slots : u # s => handlers'[u] = handlers[u]
    BY HandlersNow, IdleIs
  <1>3. /\ replies' \in [Clients -> {"none", "ok", "error"}]
        /\ \A d \in Clients : d # c => replies'[d] = replies[d]
        /\ (replies' = replies \/ c # Absent)
    BY <1>1, HandlersNow
  <1>4. RequestsFit
    BY <1>2, <1>3, IdleIs, HandlersNow DEF RequestsFit
  <1>5. \A u \in Slots : handlers'[u].client # Absent =>
          u # s /\ handlers'[u] = handlers[u] /\ handlers[u].client # c
    BY <1>2, IdleIs, HandlersNow DEF Talk
  <1>6. c # Absent => Waits(c, AskedAt(handlers[s].pc), handlers[s].photo)
    BY HandlersNow DEF Talk
  <1>7. Talk'
    <2>1. ASSUME NEW u \in Slots, handlers'[u].client # Absent
          PROVE  /\ handlers'[u].pc # "idle" /\ replies'[handlers'[u].client] = "none"
                 /\ Waits(handlers[u].client, AskedAt(handlers[u].pc), handlers[u].photo)'
      <3>1. /\ handlers[u].pc # "idle" /\ replies[handlers[u].client] = "none"
            /\ Waits(handlers[u].client, AskedAt(handlers[u].pc), handlers[u].photo)
        BY <1>5, <2>1, HandlersNow DEF Talk
      <3>2. \E t \in Threads : /\ ClientOf(t) = handlers'[u].client
                               /\ threads'[t].pc = AskedAt(handlers'[u].pc)
                               /\ threads'[t].photo = handlers'[u].photo
        BY <1>5, <2>1, <3>1 DEF Waits
      <3>3. handlers[u].client \in Clients /\ handlers[u].client # c
        BY <1>5, <2>1, HandlersNow, HandlerFieldsOK
      <3>4. replies'[handlers'[u].client] = "none"
        BY <1>3, <1>5, <2>1, <3>1, <3>3
      <3>5. QED
        BY <1>5, <2>1, <3>1, <3>2, <3>4 DEF Waits
    <2>2. \A u, v \in Slots : handlers'[u].client = handlers'[v].client =>
            \/ u = v
            \/ handlers'[u].client = Absent
      BY <1>5, HandlersNow DEF Talk
    <2>3. ASSUME NEW d \in Clients, replies'[d] # "none"
          PROVE  \E t \in Threads : ClientOf(t) = d /\ threads'[t].pc \in {"grant", "finish"}
      <3>1. CASE d = c
        <4>1. PICK t \in Threads : ClientOf(t) = c /\ threads[t].pc = AskedAt(handlers[s].pc)
          BY <1>6, <3>1, Ranges DEF Waits
        <4>2. QED
          BY <3>1, <4>1, AskedIs
      <3>2. CASE d # c
        BY <1>3, <2>3, <3>2, HandlersNow DEF Talk
      <3>3. QED
        BY <3>1, <3>2
    <2>4. ASSUME NEW t \in Threads, threads'[t].pc = "finish", Reply(t)' = "ok"
          PROVE  threads'[t].photo \in filed'
      <3>1. ClientOf(t) \in Clients /\ threads[t].pc = "finish" /\ replies'[ClientOf(t)] = "ok"
        BY <2>4, ClientsOK DEF Reply
      <3>2. CASE replies'[ClientOf(t)] = replies[ClientOf(t)]
        BY <3>1, <3>2, HandlersNow DEF Talk, Reply
      <3>3. CASE replies'[ClientOf(t)] # replies[ClientOf(t)]
        <4>1. ClientOf(t) = c /\ c # Absent
          BY <1>3, <3>1, <3>3
        <4>2. AskedAt(handlers[s].pc) = "grant" \/ handlers[s].photo \in filed'
          BY <1>1, <3>1, <3>3, <4>1, HandlersNow
        <4>3. PICK u \in Threads : /\ ClientOf(u) = c
                                   /\ threads[u].pc = AskedAt(handlers[s].pc)
                                   /\ threads[u].photo = handlers[s].photo
          BY <1>6, <4>1 DEF Waits
        <4>4. u = t
          BY <3>1, <4>1, <4>3, OneAtWork, AskedIs, AtWorkIs DEF IInv
        <4>5. QED
          BY <3>1, <4>2, <4>3, <4>4
      <3>4. QED
        BY <3>2, <3>3
    <2>5. \A t \in Threads : threads'[t].pc = "remove" => threads'[t].photo \in filed'
      BY HandlersNow DEF Talk
    <2>6. \A u \in Slots : handlers'[u].pc = "mark" => handlers'[u].photo \in filed'
      BY <1>2, IdleIs, HandlersNow DEF Talk
    <2>7. QED
      BY <2>1, <2>2, <2>3, <2>4, <2>5, <2>6 DEF Talk
  <1>8. QED
    BY <1>4, <1>7

LEMMA AnswerOK ==
    ASSUME IInv, NEW s \in Slots, NEW status \in {"ok", "error"}, Answer(s, status),
           UNCHANGED threads, filed \subseteq filed',
           status = "ok" => AskedAt(handlers[s].pc) = "grant" \/ handlers[s].photo \in filed'
    PROVE  RequestsFit /\ Talk'
  <1>1. CASE handlers[s].client = Absent
    BY <1>1, IdleOK DEF Answer
  <1>2. CASE handlers[s].client # Absent /\ status = "ok"
    <2>1. /\ handlers' = [handlers EXCEPT ![s] = Idle]
          /\ replies' = [replies EXCEPT ![handlers[s].client] = "ok"]
      BY <1>2 DEF Answer
    <2>2. AskedAt(handlers[s].pc) = "grant" \/ handlers[s].photo \in filed'
      BY <1>2
    <2>3. QED
      BY <1>2, <2>1, <2>2, IdleOK
  <1>3. CASE handlers[s].client # Absent /\ status = "error"
    <2>1. /\ handlers' = [handlers EXCEPT ![s] = Idle]
          /\ replies' = [replies EXCEPT ![handlers[s].client] = "error"]
      BY <1>3 DEF Answer
    <2>2. QED
      BY <1>3, <2>1, IdleOK
  <1>4. QED
    BY <1>1, <1>2, <1>3

LEMMA PhasesOfAre ==
    /\ {"guard", "upsert", "expect", "measure", "thumb", "draw", "ready", "mark"} \subseteq Phases
    /\ AskedAt("guard") = "grant" /\ AskedAt("upsert") = "grant" /\ AskedAt("expect") = "finish"
    /\ AskedAt("measure") = "finish" /\ AskedAt("thumb") = "finish" /\ AskedAt("draw") = "finish"
    /\ AskedAt("ready") = "finish" /\ AskedAt("mark") = "finish"
    /\ Absent \in Renditions \cup {Absent}
  BY DEF Phases, AskedAt

(* A step of a request.                                                    *)
LEMMA HandlerFine ==
    ASSUME IInv, UNCHANGED <<device, flying, edit, sweep>>, StoresFit, RequestsFit, Talk'
    PROVE  Fine
  BY FitNow, ServerFine

(* A step that leaves the stores as they are.                              *)
LEMMA LooksFine ==
    ASSUME IInv, NEW s \in Slots, NEW pc \in Phases, NEW saw \in Renditions \cup {Absent},
           \/ StepTo(s, pc, saw)
           \/ Answer(s, "error"),
           handlers[s].pc # "idle", AskedAt(pc) = AskedAt(handlers[s].pc),
           pc \in {"draw", "ready"} => handlers[s].photo \notin Unreadable, pc # "mark",
           UNCHANGED <<device, flying, rows, objects, thumbs, edit, sweep, filed>>
    PROVE  Fine
  <1>1. RequestsFit /\ Talk'
    <2>1. CASE StepTo(s, pc, saw)
      BY <2>1, StepToOK
    <2>2. CASE Answer(s, "error")
      BY <2>2, AnswerOK
    <2>3. QED
      BY <2>1, <2>2
  <1>2. QED
    BY <1>1, SameStores, HandlerFine

LEMMA PhotoAt ==
    ASSUME IInv, NEW s \in Slots, handlers[s].pc # "idle"
    PROVE  /\ handlers[s].photo \in Known /\ handlers[s].photo \in Photos
           /\ handlers[s].pc \in {"draw", "ready", "mark"} => handlers[s].photo \notin Unreadable
           /\ handlers[s].saw \in Renditions \cup {Absent}
           /\ handlers[s].device \in Devices \cup {Absent}
  BY HandlersNow, HandlerFieldsOK, KnownIs DEF HandlerFits

LEMMA GuardRowFine ==
    ASSUME IInv, NEW s \in Slots, GuardRow(s), UNCHANGED <<device, flying>>
    PROVE  Fine
  <1>1. StepTo(s, "upsert", Absent) \/ Answer(s, "error")
    BY DEF GuardRow
  <1>2. handlers[s].pc = "guard"
    BY DEF GuardRow, At
  <1>3. QED
    BY <1>1, <1>2, LooksFine, PhasesOfAre DEF GuardRow

LEMMA UpsertRowFine ==
    ASSUME IInv, NEW s \in Slots, UpsertRow(s), UNCHANGED <<device, flying>>
    PROVE  Fine
  <1> DEFINE p == handlers[s].photo
             owner == handlers[s].device
             r == Reserved(rows[p], owner)
  <1>1. /\ p \in Known /\ p \in Photos /\ owner \in Devices \cup {Absent}
        /\ handlers[s].pc = "upsert" /\ rows[p] \in Row \cup {Absent}
    BY PhotoAt, StoresNow DEF UpsertRow, At
  <1>2. r \in Row
    <2>1. 0 \in Renditions \cup {Absent}
      BY Ranges DEF Renditions
    <2>2. CASE rows[p] = Absent
      BY <1>1, <2>1, <2>2, NewRowOK DEF Reserved
    <2>3. CASE rows[p] # Absent
      <3> DEFINE keeper == IF owner = Absent THEN rows[p].device ELSE owner
      <3>1. rows[p] \in Row
        BY <1>1, <2>3
      <3>2. keeper \in Devices \cup {Absent}
        BY <1>1, <3>1, RowFieldsOK
      <3>3. r = [rows[p] EXCEPT !.size = 0, !.device = keeper]
        BY <2>3, Zenon DEF Reserved
      <3> HIDE DEF keeper, r
      <3>4. QED
        BY <2>1, <3>1, <3>2, <3>3, ReservedRowOK
    <2>4. QED
      BY <2>2, <2>3
  <1>3. rows' = [rows EXCEPT ![p] = r]
    BY DEF UpsertRow
  <1>4. RequestsFit /\ Talk'
    BY <1>1, AnswerOK, PhasesOfAre DEF UpsertRow
  <1> HIDE DEF r
  <1>5. StoresFit
    BY <1>1, <1>2, <1>3, SetRowFits DEF UpsertRow
  <1>6. QED
    BY <1>4, <1>5, HandlerFine DEF UpsertRow

LEMMA ExpectedSizeFine ==
    ASSUME IInv, NEW s \in Slots, ExpectedSize(s), UNCHANGED <<device, flying>>
    PROVE  Fine
  <1> DEFINE p == handlers[s].photo
  <1>1. handlers[s].pc = "expect" /\ rows[p] \in Row \cup {Absent}
    BY PhotoAt, StoresNow DEF ExpectedSize, At
  <1>2. CASE Answer(s, "error")
    BY <1>1, <1>2, LooksFine, PhasesOfAre DEF ExpectedSize
  <1>3. CASE rows[p] # Absent /\ StepTo(s, "measure", rows[p].size)
    <2>1. rows[p].size \in Renditions \cup {Absent}
      BY <1>1, <1>3, RowFieldsOK
    <2>2. QED
      BY <1>1, <1>3, <2>1, LooksFine, PhasesOfAre DEF ExpectedSize
  <1>4. QED
    BY <1>2, <1>3 DEF ExpectedSize

LEMMA UploadedSizeFine ==
    ASSUME IInv, NEW s \in Slots, UploadedSize(s), UNCHANGED <<device, flying>>
    PROVE  Fine
  <1>1. StepTo(s, "thumb", Absent) \/ Answer(s, "error")
    BY DEF UploadedSize
  <1>2. handlers[s].pc = "measure"
    BY DEF UploadedSize, At
  <1>3. QED
    BY <1>1, <1>2, LooksFine, PhasesOfAre DEF UploadedSize

LEMMA EnsureThumbnailFine ==
    ASSUME IInv, NEW s \in Slots, EnsureThumbnail(s), UNCHANGED <<device, flying>>
    PROVE  Fine
  <1> DEFINE p == handlers[s].photo
  <1>1. handlers[s].pc = "thumb" /\ p \in Photos
    BY PhotoAt DEF EnsureThumbnail, At
  <1>2. CASE thumbs[p] # Absent /\ StepTo(s, "ready", Absent)
    BY <1>1, <1>2, StoresNow, LooksFine, PhasesOfAre DEF EnsureThumbnail
  <1>3. CASE Decodes(p) /\ StepTo(s, "draw", objects[p])
    <2>1. objects[p] \in Renditions \cup {Absent} /\ p \notin Unreadable
      BY <1>1, <1>3, StoresNow DEF Decodes
    <2>2. QED
      BY <1>1, <1>3, <2>1, LooksFine, PhasesOfAre DEF EnsureThumbnail
  <1>4. CASE Answer(s, "error")
    BY <1>1, <1>4, LooksFine, PhasesOfAre DEF EnsureThumbnail
  <1>5. QED
    BY <1>2, <1>3, <1>4 DEF EnsureThumbnail

LEMMA WriteThumbnailFine ==
    ASSUME IInv, NEW s \in Slots, WriteThumbnail(s), UNCHANGED <<device, flying>>
    PROVE  Fine
  <1>1. /\ handlers[s].pc = "draw" /\ handlers[s].photo \in Known
        /\ handlers[s].photo \notin Unreadable /\ handlers[s].saw \in Renditions \cup {Absent}
    BY PhotoAt DEF WriteThumbnail, At
  <1>2. StoresFit
    BY <1>1, SetThumbFits DEF WriteThumbnail
  <1>3. RequestsFit /\ Talk'
    BY <1>1, StepToOK, PhasesOfAre DEF WriteThumbnail
  <1>4. QED
    BY <1>2, <1>3, HandlerFine DEF WriteThumbnail

LEMMA MarkReadyFine ==
    ASSUME IInv, NEW s \in Slots, MarkReady(s), UNCHANGED <<device, flying>>
    PROVE  Fine
  <1> DEFINE p == handlers[s].photo
  <1>1. /\ handlers[s].pc = "ready" /\ p \in Known /\ p \notin Unreadable
    BY PhotoAt DEF MarkReady, At
  <1>2. CASE rows[p] # Absent /\ Publish(p) /\ StepTo(s, "mark", Absent)
    <2>1. StoresFit
      BY <1>1, <1>2, PublishFits DEF MarkReady
    <2>2. filed \subseteq filed' /\ p \in filed'
      BY <1>2 DEF Publish
    <2>3. RequestsFit /\ Talk'
      BY <1>1, <1>2, <2>2, StepToOK, PhasesOfAre
    <2>4. QED
      BY <2>1, <2>3, HandlerFine DEF MarkReady
  <1>3. CASE Answer(s, "error") /\ UNCHANGED <<rows, filed>>
    <2>1. StoresFit
      BY <1>3, SameStores DEF MarkReady
    <2>2. RequestsFit /\ Talk'
      BY <1>3, AnswerOK
    <2>3. QED
      BY <2>1, <2>2, HandlerFine DEF MarkReady
  <1>4. QED
    BY <1>2, <1>3 DEF MarkReady

LEMMA MarkThumbnailReadyFine ==
    ASSUME IInv, NEW s \in Slots, MarkThumbnailReady(s), UNCHANGED <<device, flying>>
    PROVE  Fine
  <1>1. handlers[s].pc = "mark" /\ handlers[s].photo \in Known
    BY PhotoAt DEF MarkThumbnailReady, At
  <1>2. StoresFit
    BY <1>1, ThumbMarkedFits DEF MarkThumbnailReady
  <1>3. handlers[s].photo \in filed
    BY <1>1, HandlersNow DEF Talk
  <1>4. RequestsFit /\ Talk'
    BY <1>3, AnswerOK DEF MarkThumbnailReady
  <1>5. QED
    BY <1>2, <1>4, HandlerFine DEF MarkThumbnailReady

LEMMA HandlerFailsFine ==
    ASSUME IInv, NEW s \in Slots, HandlerFails(s), UNCHANGED <<device, flying>>
    PROVE  Fine
  <1>1. RequestsFit /\ Talk'
    BY AnswerOK DEF HandlerFails
  <1>2. QED
    BY <1>1, SameStores, HandlerFine DEF HandlerFails

LEMMA HandlerDiesFine ==
    ASSUME IInv, NEW s \in Slots, HandlerDies(s), UNCHANGED <<device, flying>>
    PROVE  Fine
  <1>1. RequestsFit /\ Talk'
    BY IdleOK DEF HandlerDies
  <1>2. QED
    BY <1>1, SameStores, HandlerFine DEF HandlerDies

LEMMA ServerStepsFine ==
    ASSUME IInv, ServerNext \/ ServerEvents, UNCHANGED <<device, flying>>
    PROVE  Fine
  <1>1. ASSUME NEW s \in Slots, HandlerStep(s) PROVE Fine
    BY <1>1, GuardRowFine, UpsertRowFine, ExpectedSizeFine, UploadedSizeFine,
       EnsureThumbnailFine, WriteThumbnailFine, MarkReadyFine, MarkThumbnailReadyFine
       DEF HandlerStep
  <1>2. CASE EditStep
    BY <1>2, RotateStoreFine, RotateThumbFine, RotateRecordFine, DeleteObjectFine, DeleteRowFine
       DEF EditStep
  <1>3. CASE SweepStep
    BY <1>3, SweepPendingFine, SweepStoredFine, SweepMarkReadyFine, SweepMarkThumbFine,
       SweepOrphansFine, SweepThumbsFine, SweepOverFine, SweepRecoverFine, SweepSkipFine,
       SweepImportFine, SweepThumbFine
       DEF SweepStep
  <1>4. CASE EditStarts
    BY <1>4, RotateReadFine, DeleteThumbFine DEF EditStarts
  <1>5. CASE SweepReady
    BY <1>5, SweepReadyFine
  <1>6. ASSUME NEW s \in Slots, HandlerFails(s) \/ HandlerDies(s) PROVE Fine
    BY <1>6, HandlerFailsFine, HandlerDiesFine
  <1>7. CASE EditDies \/ SweepDies
    BY <1>7, EditDiesFine, SweepOverFine
  <1>8. QED
    BY <1>1, <1>2, <1>3, <1>4, <1>5, <1>6, <1>7 DEF ServerNext, ServerEvents

-----------------------------------------------------------------------------
(* Uploads: the camera's side.                                             *)

LEMMA UploadEndsOK ==
    ASSUME DeviceInv, NEW t \in Threads, threads[t].pc \in {"send"} \cup Sending,
           UploadEnds(t), UNCHANGED DeviceRest, queue' \subseteq queue
    PROVE  DeviceInv' /\ Typed' /\ OthersStay(t) /\ threads'[t].pc \notin Sending
  <1> DEFINE todo == threads[t].todo
  <1>1. todo \in SUBSET (1..taken)
    BY ThreadIs
  <1>2. \/ Ends(t)
        \/ /\ todo # {} /\ opLock' = opLock
           /\ threads' = [threads EXCEPT ![t].pc = "send", ![t].photo = Min(todo),
                                         ![t].todo = todo \ {Min(todo)}]
    BY DEF UploadEnds
  <1> HIDE DEF todo
  <1>3. QED
    BY <1>1, <1>2, TurnOK

LEMMA GoOnOK ==
    ASSUME DeviceInv, NEW t \in Threads, NEW pc \in Sending, Goes(t, pc),
           UNCHANGED <<queue, opLock, DeviceRest>>, threads[t].pc \in {"send"} \cup Sending,
           t \in Service /\ testMode = TRUE => threads[t].pc \in Sending
    PROVE  /\ DeviceInv' /\ Typed' /\ OthersStay(t)
           /\ threads'[t].pc = pc /\ threads'[t].photo = threads[t].photo
  <1>1. pc \in Phase /\ pc \in Locked /\ pc \notin {"idle", "clear", "shooting"}
    BY DEF Phase, Locked, Sending
  <1>2. /\ Typed' /\ OthersStay(t) /\ threads'[t].pc = pc
        /\ threads'[t].photo = threads[t].photo /\ threads'[t].todo = threads[t].todo
    BY <1>1, ThreadIs, GoesOK
  <1>3. t \in Service => opLock = t
    BY PhasesAre DEF DeviceInv, Locks
  <1>4. testMode \in BOOLEAN /\ (testMode = TRUE /\ t \in Service => pc \notin Sending)
    <2>1. testMode \in BOOLEAN
      BY ThreadIs
    <2>2. testMode = TRUE => \A u \in Service : threads[u].pc \notin Sending
      BY <2>1, SilenceIs DEF DeviceInv
    <2>3. QED
      BY <2>1, <2>2
  <1>5. Fits(t, threads'[t])
    BY <1>1, <1>2, <1>3, <1>4, ThreadIs, PhasesAre DEF Fits
  <1>6. LockPasses(t)
    BY DEF LockPasses
  <1>7. DeviceInv'
    BY <1>1, <1>2, <1>5, <1>6, WorksOK
  <1>8. QED
    BY <1>2, <1>7

-----------------------------------------------------------------------------
(* Uploads: who waits for what.                                            *)

LEMMA OneUploads ==
    ASSUME DeviceInv, NEW t \in Threads, NEW u \in Threads, ClientOf(t) = ClientOf(u),
           threads[t].pc \in {"send"} \cup Sending, threads[u].pc \in {"send"} \cup Sending
    PROVE  t = u
  <1>1. \A v \in Service : threads[v].pc \in {"send"} \cup Sending => opLock = v
    BY PhasesAre DEF DeviceInv, Locks
  <1>2. QED
    BY <1>1, Names, ClientsOK

LEMMA NothingAsked ==
    ASSUME IInv, NEW t \in Threads, threads[t].pc \in {"send", "put", "confirm", "remove"}
    PROVE  /\ replies[ClientOf(t)] = "none"
           /\ \A s \in Slots : handlers[s].client # ClientOf(t)
  <1>1. threads[t].pc \in {"send"} \cup Sending /\ ClientOf(t) \in Clients
    BY ClientsOK DEF Sending
  <1>2. \A u \in Threads : ClientOf(u) = ClientOf(t) => threads[u].pc \notin {"grant", "finish"}
    BY <1>1, OneUploads, AtWorkIs DEF IInv
  <1>3. replies[ClientOf(t)] = "none"
    BY <1>1, <1>2, HandlersNow DEF Talk
  <1>4. ASSUME NEW s \in Slots, handlers[s].client = ClientOf(t) PROVE FALSE
    <2>1. Waits(ClientOf(t), AskedAt(handlers[s].pc), handlers[s].photo)
      BY <1>1, <1>4, Ranges, HandlersNow DEF Talk
    <2>2. QED
      BY <1>2, <2>1, AskedIs DEF Waits
  <1>5. QED
    BY <1>3, <1>4

LEMMA NobodyAnswers ==
    ASSUME IInv, NEW t \in Threads, Reply(t) # "none"
    PROVE  \A s \in Slots : handlers[s].client # ClientOf(t)
  BY ClientsOK, Ranges, HandlersNow DEF Talk, Reply

(* Whatever a client's threads do: it waits for nothing now.               *)
LEMMA TalkEnds ==
    ASSUME IInv, NEW c \in Clients, filed' = filed,
           \A u \in Threads : ClientOf(u) # c => threads'[u] = threads[u],
           \A u \in Threads : ClientOf(u) = c /\ threads'[u].pc = "remove" =>
             threads'[u].photo \in filed,
           \A s \in Slots : /\ handlers'[s].pc = handlers[s].pc
                            /\ handlers'[s].photo = handlers[s].photo
                            /\ handlers'[s].client = IF handlers[s].client = c THEN Absent
                                                     ELSE handlers[s].client,
           replies'[c] = "none", \A d \in Clients : d # c => replies'[d] = replies[d]
    PROVE  Talk'
  <1>1. \A s \in Slots : handlers'[s].client # Absent =>
          handlers[s].client = handlers'[s].client /\ handlers[s].client # c
    OBVIOUS
  <1>2. ASSUME NEW s \in Slots, handlers'[s].client # Absent
        PROVE  /\ handlers'[s].pc # "idle" /\ replies'[handlers'[s].client] = "none"
               /\ Waits(handlers[s].client, AskedAt(handlers[s].pc), handlers[s].photo)'
    <2>1. /\ handlers[s].pc # "idle" /\ replies[handlers[s].client] = "none"
          /\ Waits(handlers[s].client, AskedAt(handlers[s].pc), handlers[s].photo)
      BY <1>1, <1>2, HandlersNow DEF Talk
    <2>2. handlers[s].client \in Clients /\ handlers[s].client # c
      BY <1>1, <1>2, HandlersNow, HandlerFieldsOK
    <2>3. PICK t \in Threads : /\ ClientOf(t) = handlers[s].client
                               /\ threads[t].pc = AskedAt(handlers[s].pc)
                               /\ threads[t].photo = handlers[s].photo
      BY <2>1 DEF Waits
    <2>4. threads'[t] = threads[t]
      BY <2>2, <2>3
    <2>5. \E u \in Threads : /\ ClientOf(u) = handlers'[s].client
                             /\ threads'[u].pc = AskedAt(handlers'[s].pc)
                             /\ threads'[u].photo = handlers'[s].photo
      BY <1>1, <1>2, <2>3, <2>4
    <2>6. QED
      BY <1>1, <1>2, <2>1, <2>2, <2>5 DEF Waits
  <1>3. \A s, u \in Slots : handlers'[s].client = handlers'[u].client =>
          \/ s = u
          \/ handlers'[s].client = Absent
    BY <1>1, HandlersNow DEF Talk
  <1>4. \A d \in Clients : replies'[d] # "none" =>
          \E t \in Threads : ClientOf(t) = d /\ threads'[t].pc \in {"grant", "finish"}
    BY HandlersNow DEF Talk
  <1>5. \A t \in Threads : threads'[t].pc = "finish" /\ Reply(t)' = "ok" =>
          threads'[t].photo \in filed'
    <2>1. \A t \in Threads : Reply(t)' = replies'[ClientOf(t)]
      BY DEF Reply
    <2>2. ASSUME NEW t \in Threads, threads'[t].pc = "finish", Reply(t)' = "ok"
          PROVE  threads'[t].photo \in filed'
      <3>1. ClientOf(t) # c /\ ClientOf(t) \in Clients
        BY <2>1, <2>2, ClientsOK
      <3>2. threads'[t] = threads[t] /\ Reply(t) = "ok"
        BY <2>1, <2>2, <3>1 DEF Reply
      <3>3. QED
        BY <2>2, <3>2, HandlersNow DEF Talk
    <2>3. QED
      BY <2>2
  <1>6. \A t \in Threads : threads'[t].pc = "remove" => threads'[t].photo \in filed'
    <2>1. \A t \in Threads : ClientOf(t) # c /\ threads'[t].pc = "remove" =>
            threads'[t].photo \in filed
      BY HandlersNow DEF Talk
    <2>2. QED
      BY <2>1
  <1>7. \A s \in Slots : handlers'[s].pc = "mark" => handlers'[s].photo \in filed'
    BY HandlersNow DEF Talk
  <1>8. QED
    BY <1>2, <1>3, <1>4, <1>5, <1>6, <1>7 DEF Talk

(* A client asks: one request more at the server.                          *)
LEMMA CallOK ==
    ASSUME IInv, NEW t \in Threads, NEW pc \in {"guard", "expect"},
           threads[t].pc \in {"send", "confirm"}, threads[t].photo \in Known,
           Call(ClientOf(t), pc, threads[t].photo), replies' = replies, filed' = filed,
           OthersStay(t), threads'[t].pc = AskedAt(pc), threads'[t].photo = threads[t].photo
    PROVE  RequestsFit /\ Talk'
  <1> DEFINE c == ClientOf(t)
             p == threads[t].photo
             h == [pc |-> pc, photo |-> p, client |-> c, device |-> TokenOf[c], saw |-> Absent]
             i == CHOOSE s \in Free : TRUE
  <1>1. i \in Slots /\ handlers[i] = Idle /\ handlers' = [handlers EXCEPT ![i] = h]
    BY DEF Call, Free
  <1>2. c \in Clients /\ p \in Photos /\ pc \in Phases /\ TokenOf[c] \in Devices \cup {Absent}
    BY ClientsOK, KnownIs, TokenAssumption DEF Phases
  <1>3. h \in HandlerRec
    <2> DEFINE owner == TokenOf[c]
    <2>1. owner \in Devices \cup {Absent} /\ h = [pc |-> pc, photo |-> p, client |-> c,
                                                 device |-> owner, saw |-> Absent]
      BY <1>2
    <2> HIDE DEF owner, h, c, p
    <2>2. QED
      BY <1>2, <2>1, Zenon DEF HandlerRec
  <1>4. h.pc = pc /\ h.photo = p /\ h.client = c
    OBVIOUS
  <1>5. /\ replies[c] = "none" /\ \A s \in Slots : handlers[s].client # c
        /\ c # Absent /\ handlers[i].client = Absent
    BY <1>1, <1>2, NothingAsked, IdleIs, Ranges
  <1> HIDE DEF h, i
  <1>6. /\ handlers' \in [Slots -> HandlerRec] /\ handlers'[i] = h
        /\ \A s \in Slots : s # i => handlers'[s] = handlers[s]
    BY <1>1, <1>3, HandlersNow
  <1>7. HandlerFits(h)
    BY <1>3, <1>4 DEF HandlerFits
  <1>8. RequestsFit
    BY <1>6, <1>7, HandlersNow DEF RequestsFit
  <1>9. Talk'
    <2>1. ASSUME NEW s \in Slots, handlers'[s].client # Absent
          PROVE  /\ handlers'[s].pc # "idle" /\ replies'[handlers'[s].client] = "none"
                 /\ \E u \in Threads : /\ ClientOf(u) = handlers'[s].client
                                       /\ threads'[u].pc = AskedAt(handlers'[s].pc)
                                       /\ threads'[u].photo = handlers'[s].photo
      <3>1. CASE s = i
        <4>1. handlers'[s].pc = pc /\ handlers'[s].photo = p /\ handlers'[s].client = c
          BY <1>4, <1>6, <3>1
        <4>2. threads'[t].pc = AskedAt(handlers'[s].pc) /\ threads'[t].photo = handlers'[s].photo
          BY <4>1
        <4>3. QED
          BY <1>5, <4>1, <4>2
      <3>2. CASE s # i
        <4>1. handlers'[s] = handlers[s]
          BY <1>6, <3>2
        <4>2. /\ handlers[s].pc # "idle" /\ replies[handlers[s].client] = "none"
              /\ Waits(handlers[s].client, AskedAt(handlers[s].pc), handlers[s].photo)
          BY <2>1, <4>1, HandlersNow DEF Talk
        <4>3. PICK u \in Threads : /\ ClientOf(u) = handlers[s].client
                                   /\ threads[u].pc = AskedAt(handlers[s].pc)
                                   /\ threads[u].photo = handlers[s].photo
          BY <4>2 DEF Waits
        <4>4. threads'[u] = threads[u]
          BY <1>5, <4>3 DEF OthersStay
        <4>5. QED
          BY <4>1, <4>2, <4>3, <4>4
      <3>3. QED
        BY <3>1, <3>2
    <2>2. \A s, u \in Slots : handlers'[s].client = handlers'[u].client =>
            \/ s = u
            \/ handlers'[s].client = Absent
      BY <1>4, <1>5, <1>6, HandlersNow DEF Talk
    <2>3. \A d \in Clients : replies'[d] # "none" =>
            \E u \in Threads : ClientOf(u) = d /\ threads'[u].pc \in {"grant", "finish"}
      BY <1>5, HandlersNow DEF Talk, OthersStay
    <2>4. \A u \in Threads : threads'[u].pc = "finish" /\ Reply(u)' = "ok" =>
            threads'[u].photo \in filed'
      <3>1. \A u \in Threads : Reply(u)' = replies[ClientOf(u)]
        BY DEF Reply
      <3>2. \A u \in Threads : Reply(u)' = "ok" => u # t /\ threads'[u] = threads[u]
        BY <1>5, <3>1 DEF OthersStay
      <3>3. QED
        BY <3>1, <3>2, HandlersNow DEF Talk, Reply
    <2>5. \A u \in Threads : threads'[u].pc = "remove" => threads'[u].photo \in filed'
      BY AskedIs, HandlersNow DEF Talk, OthersStay
    <2>6. \A s \in Slots : handlers'[s].pc = "mark" => handlers'[s].photo \in filed'
      BY <1>4, <1>6, HandlersNow DEF Talk
    <2>7. QED
      BY <2>1, <2>2, <2>3, <2>4, <2>5, <2>6 DEF Talk, Waits
  <1>10. QED
    BY <1>8, <1>9

(* A client gives its requests up.                                         *)
LEMMA HangsOK ==
    ASSUME IInv, NEW c \in Clients, handlers' = Hangs(c),
           replies' = [replies EXCEPT ![c] = "none"]
    PROVE  /\ RequestsFit
           /\ \A s \in Slots : /\ handlers'[s].pc = handlers[s].pc
                               /\ handlers'[s].photo = handlers[s].photo
                               /\ handlers'[s].client = IF handlers[s].client = c THEN Absent
                                                        ELSE handlers[s].client
           /\ replies'[c] = "none" /\ \A d \in Clients : d # c => replies'[d] = replies[d]
  <1>1. ASSUME NEW s \in Slots
        PROVE  /\ handlers'[s] \in HandlerRec
               /\ handlers'[s].pc = handlers[s].pc /\ handlers'[s].photo = handlers[s].photo
               /\ handlers'[s].client = IF handlers[s].client = c THEN Absent
                                        ELSE handlers[s].client
               /\ handlers'[s].saw = handlers[s].saw
    <2> DEFINE d == IF handlers[s].client = c THEN Absent ELSE handlers[s].client
    <2>1. handlers[s] \in HandlerRec
      BY HandlersNow
    <2>2. d \in Clients \cup {Absent}
      BY <2>1, HandlerFieldsOK
    <2>3. handlers'[s] = [handlers[s] EXCEPT !.client = d]
      BY DEF Hangs
    <2> HIDE DEF d
    <2>4. handlers'[s] \in HandlerRec
      BY <2>1, <2>2, <2>3, Zenon DEF HandlerRec
    <2>5. /\ handlers'[s].pc = handlers[s].pc /\ handlers'[s].photo = handlers[s].photo
          /\ handlers'[s].client = d /\ handlers'[s].saw = handlers[s].saw
      BY <2>1, <2>3 DEF HandlerRec
    <2>6. QED
      BY <2>4, <2>5 DEF d
  <1>2. handlers' \in [Slots -> HandlerRec]
    <2>1. handlers' = [s \in Slots |-> handlers'[s]]
      BY DEF Hangs
    <2>2. QED
      BY <1>1, <2>1
  <1>3. \A s \in Slots : HandlerFits(handlers'[s])
    BY <1>1, HandlersNow DEF HandlerFits
  <1>4. /\ replies' \in [Clients -> {"none", "ok", "error"}] /\ replies'[c] = "none"
        /\ \A d \in Clients : d # c => replies'[d] = replies[d]
    BY HandlersNow
  <1>5. RequestsFit
    BY <1>2, <1>3, <1>4 DEF RequestsFit
  <1>6. QED
    BY <1>1, <1>4, <1>5

-----------------------------------------------------------------------------
(* Uploads: each step.                                                     *)

LEMMA UploadFine ==
    ASSUME IInv, DeviceInv', StoresFit, RequestsFit, Talk', flying' \subseteq Known,
           UNCHANGED <<edit, sweep, filed, taken, secret>>,
           queue' = queue \/ \E p \in filed : queue' = queue \ {p},
           \A t \in Threads : threads'[t].pc \in Sending => threads'[t].photo \in Known
    PROVE  Fine
  <1>1. Known' = Known /\ Known \subseteq Photos
    BY KnownIs DEF Known
  <1>2. FlowTypes'
    BY <1>1 DEF FlowTypes, IInv, FlowInv, StoresFit, RequestsFit
  <1>3. Traced'
    <2>1. \A s \in Slots : handlers'[s].pc # "idle" => handlers'[s].photo \in Known'
      BY <1>1 DEF RequestsFit, HandlerFits
    <2>2. QED
      BY <1>1, <2>1 DEF IInv, FlowInv, Traced, StoresFit
  <1>4. Readable'
    BY KnownIs, FitNow DEF Readable, StoresFit, EditFits, SweepFits, RequestsFit, HandlerFits
  <1>5. [D!Next]_<<queue, filed>>
    <2>1. CASE queue' = queue
      BY <2>1
    <2>2. ASSUME NEW p \in filed, queue' = queue \ {p} PROVE [D!Next]_<<queue, filed>>
      <3>1. p \in Photos
        BY KnownIs
      <3>2. CASE p \in queue
        <4>1. D!Release(p)
          BY <2>2, <3>2 DEF D!Release
        <4>2. QED
          BY <3>1, <4>1 DEF D!Next
      <3>3. CASE p \notin queue
        <4>1. queue' = queue
          BY <2>2, <3>3
        <4>2. QED
          BY <4>1
      <3>4. QED
        BY <3>2, <3>3
    <2>3. QED
      BY <2>1, <2>2
  <1>6. QED
    BY <1>2, <1>3, <1>4, <1>5 DEF Fine, FlowInv

(* The camera's side of a thread that moves.                               *)
LEMMA SentOK ==
    ASSUME IInv, NEW t \in Threads, OthersStay(t),
           threads'[t].pc \in Sending => threads'[t].photo \in Known
    PROVE  \A u \in Threads : threads'[u].pc \in Sending => threads'[u].photo \in Known
  BY DEF IInv, FlowInv, Traced, OthersStay

(* It had asked nothing, or takes the answer.                              *)
LEMMA QuietTalk ==
    ASSUME IInv, NEW t \in Threads, OthersStay(t), UNCHANGED <<handlers, filed>>,
           threads'[t].pc = "remove" => threads'[t].photo \in filed,
           \/ threads[t].pc \in {"send", "put", "confirm", "remove"} /\ replies' = replies
           \/ Reply(t) # "none" /\ Taken(t)
    PROVE  RequestsFit /\ Talk'
  <1> DEFINE c == ClientOf(t)
  <1>1. c \in Clients
    BY ClientsOK
  <1>2. \A s \in Slots : handlers[s].client # c
    BY NothingAsked, NobodyAnswers
  <1>3. /\ replies' \in [Clients -> {"none", "ok", "error"}] /\ replies'[c] = "none"
        /\ \A d \in Clients : d # c => replies'[d] = replies[d]
    BY <1>1, NothingAsked, HandlersNow DEF Taken
  <1>4. RequestsFit
    BY <1>3, HandlersNow DEF RequestsFit
  <1>5. \A u \in Threads : ClientOf(u) # c => threads'[u] = threads[u]
    BY DEF OthersStay
  <1>6. \A u \in Threads : ClientOf(u) = c /\ threads'[u].pc = "remove" =>
          threads'[u].photo \in filed
    BY HandlersNow DEF Talk, OthersStay
  <1>7. Talk'
    BY <1>1, <1>2, <1>3, <1>5, <1>6, TalkEnds
  <1>8. QED
    BY <1>4, <1>7

LEMMA SendingIs ==
    ASSUME IInv, NEW t \in Threads
    PROVE  /\ threads[t].pc \in Sending => threads[t].photo \in Known
           /\ flying \subseteq Known
  BY DEF IInv, FlowInv, Traced

(* An upload ends, or goes on to the next photo.                           *)
LEMMA EndsFine ==
    ASSUME IInv, NEW t \in Threads, threads[t].pc \in {"send"} \cup Sending,
           UploadEnds(t), UNCHANGED <<rows, objects, thumbs, edit, sweep, filed, DeviceRest>>,
           queue' = queue \/ \E p \in filed : queue' = queue \ {p}, flying' \subseteq Known,
           \/ /\ UNCHANGED handlers
              /\ \/ threads[t].pc \in {"send", "put", "confirm", "remove"} /\ replies' = replies
                 \/ Reply(t) # "none" /\ Taken(t)
           \/ handlers' = Hangs(ClientOf(t)) /\ Taken(t)
    PROVE  Fine
  <1>1. DeviceInv' /\ OthersStay(t) /\ threads'[t].pc \notin Sending
    <2>1. queue' \subseteq queue
      OBVIOUS
    <2>2. QED
      BY <2>1, UploadEndsOK DEF IInv
  <1>2. threads'[t].pc # "remove"
    BY <1>1, AtWorkIs
  <1>3. RequestsFit /\ Talk'
    <2>1. CASE handlers' = Hangs(ClientOf(t)) /\ Taken(t)
      <3>1. ClientOf(t) \in Clients
        BY ClientsOK
      <3>2. \A u \in Threads : ClientOf(u) = ClientOf(t) /\ threads'[u].pc = "remove" =>
              threads'[u].photo \in filed
        BY <1>1, <1>2, HandlersNow DEF Talk, OthersStay
      <3>3. \A u \in Threads : ClientOf(u) # ClientOf(t) => threads'[u] = threads[u]
        BY <1>1 DEF OthersStay
      <3>4. replies' = [replies EXCEPT ![ClientOf(t)] = "none"]
        BY <2>1 DEF Taken
      <3>5. QED
        BY <2>1, <3>1, <3>2, <3>3, <3>4, HangsOK, TalkEnds
    <2>2. CASE /\ UNCHANGED handlers
               /\ \/ /\ threads[t].pc \in {"send", "put", "confirm", "remove"}
                     /\ replies' = replies
                  \/ Reply(t) # "none" /\ Taken(t)
      BY <1>1, <1>2, <2>2, QuietTalk
    <2>3. QED
      BY <2>1, <2>2
  <1>4. StoresFit
    BY SameStores
  <1>5. \A u \in Threads : threads'[u].pc \in Sending => threads'[u].photo \in Known
    BY <1>1, SentOK
  <1>6. QED
    BY <1>1, <1>3, <1>4, <1>5, UploadFine

LEMMA EndingsFine ==
    ASSUME IInv, NEW t \in Threads,
           \/ SkipUpload(t) \/ Refused(t) \/ FileGone(t) \/ RemoveFile(t) \/ TimesOut(t)
           \/ PutFails(t)
    PROVE  Fine
  <1>1. CASE SkipUpload(t)
    BY <1>1, EndsFine, SendingIs DEF SkipUpload, In
  <1>2. CASE Refused(t)
    <2>1. threads[t].pc \in Sending /\ Reply(t) # "none"
      BY <1>2 DEF Refused, Sending
    <2>2. QED
      BY <1>2, <2>1, EndsFine, SendingIs DEF Refused
  <1>3. CASE FileGone(t)
    BY <1>3, EndsFine, SendingIs DEF FileGone, In, Sending
  <1>4. CASE RemoveFile(t)
    <2>1. threads[t].pc = "remove" /\ PhotoOf(t) \in filed
      BY <1>4, HandlersNow DEF RemoveFile, In, Talk, PhotoOf
    <2>2. QED
      BY <1>4, <2>1, EndsFine, SendingIs DEF RemoveFile, Sending
  <1>5. CASE TimesOut(t)
    BY <1>5, EndsFine, SendingIs DEF TimesOut, Sending
  <1>6. CASE PutFails(t)
    <2>1. threads[t].pc = "put" /\ threads[t].pc \in Sending /\ PhotoOf(t) \in Known
      BY <1>6, SendingIs DEF PutFails, In, Sending, PhotoOf
    <2>2. flying' \subseteq Known
      BY <1>6, <2>1, SendingIs DEF PutFails
    <2>3. QED
      BY <1>6, <2>1, <2>2, EndsFine DEF PutFails
  <1>7. QED
    BY <1>1, <1>2, <1>3, <1>4, <1>5, <1>6

LEMMA RequestGrantFine ==
    ASSUME IInv, NEW t \in Threads, RequestGrant(t)
    PROVE  Fine
  <1>1. threads[t].pc = "send" /\ threads[t].photo \in Known /\ threads[t].photo \in queue
    BY KnownIs DEF RequestGrant, In, Candidate, PhotoOf
  <1>2. t \in Service => testMode # TRUE
    <2>1. t \in Service => t # "cli"
      BY Names
    <2>2. ~TestMode(t)
      BY Zenon DEF RequestGrant, Candidate
    <2>3. t # "cli" => ~testMode
      BY <2>2, Zenon DEF TestMode
    <2>4. QED
      BY <2>1, <2>3, Zenon
  <1>3. /\ DeviceInv' /\ OthersStay(t)
        /\ threads'[t].pc = "grant" /\ threads'[t].photo = threads[t].photo
    BY <1>1, <1>2, GoOnOK, AtWorkIs DEF IInv, RequestGrant
  <1>4. RequestsFit /\ Talk'
    BY <1>1, <1>3, CallOK, PhasesOfAre DEF RequestGrant, PhotoOf
  <1>5. \A u \in Threads : threads'[u].pc \in Sending => threads'[u].photo \in Known
    BY <1>1, <1>3, SentOK
  <1>6. QED
    BY <1>3, <1>4, <1>5, SameStores, SendingIs, UploadFine DEF RequestGrant

LEMMA ConfirmFine ==
    ASSUME IInv, NEW t \in Threads, Confirm(t)
    PROVE  Fine
  <1>1. threads[t].pc = "confirm" /\ threads[t].pc \in Sending /\ threads[t].photo \in Known
    BY SendingIs DEF Confirm, In, Sending
  <1>2. /\ DeviceInv' /\ OthersStay(t)
        /\ threads'[t].pc = "finish" /\ threads'[t].photo = threads[t].photo
    BY <1>1, GoOnOK, AtWorkIs DEF IInv, Confirm
  <1>3. RequestsFit /\ Talk'
    BY <1>1, <1>2, CallOK, PhasesOfAre DEF Confirm, PhotoOf
  <1>4. \A u \in Threads : threads'[u].pc \in Sending => threads'[u].photo \in Known
    BY <1>1, <1>2, SentOK
  <1>5. QED
    BY <1>2, <1>3, <1>4, SameStores, SendingIs, UploadFine DEF Confirm

LEMMA AnsweredFine ==
    ASSUME IInv, NEW t \in Threads, Granted(t) \/ Confirmed(t)
    PROVE  Fine
  <1> DEFINE pc == IF threads[t].pc = "grant" THEN "put" ELSE "remove"
  <1>1. /\ threads[t].pc \in {"grant", "finish"} /\ threads[t].pc \in Sending
        /\ threads[t].photo \in Known /\ Reply(t) = "ok" /\ Taken(t)
        /\ pc \in Sending /\ Goes(t, pc)
    BY SendingIs DEF Granted, Confirmed, In, Sending, Accepted
  <1>2. pc = "remove" => threads[t].photo \in filed
    BY <1>1, HandlersNow DEF Talk
  <1> HIDE DEF pc
  <1>3. /\ DeviceInv' /\ OthersStay(t)
        /\ threads'[t].pc = pc /\ threads'[t].photo = threads[t].photo
    BY <1>1, GoOnOK DEF IInv, Granted, Confirmed
  <1>4. RequestsFit /\ Talk'
    BY <1>1, <1>2, <1>3, QuietTalk DEF Granted, Confirmed
  <1>5. \A u \in Threads : threads'[u].pc \in Sending => threads'[u].photo \in Known
    BY <1>1, <1>3, SentOK
  <1>6. QED
    BY <1>3, <1>4, <1>5, SameStores, SendingIs, UploadFine DEF Granted, Confirmed

(* The bytes arrive.                                                       *)
LEMMA PutFits ==
    ASSUME IInv, NEW p \in Known, PutObject(p), UNCHANGED <<rows, thumbs, filed>>
    PROVE  StoresFit
  <1>1. 0 \in Renditions \cup {Absent}
    BY Ranges DEF Renditions
  <1>2. QED
    BY <1>1, SetObjectFits DEF PutObject

LEMMA PutFine ==
    ASSUME IInv, NEW t \in Threads, Put(t)
    PROVE  Fine
  <1>1. threads[t].pc = "put" /\ threads[t].pc \in Sending /\ threads[t].photo \in Known
        /\ "confirm" \in Sending
    BY SendingIs DEF Put, In, Sending
  <1>2. /\ DeviceInv' /\ OthersStay(t)
        /\ threads'[t].pc = "confirm" /\ threads'[t].photo = threads[t].photo
    BY <1>1, GoOnOK DEF IInv, Put
  <1>3. RequestsFit /\ Talk'
    BY <1>1, <1>2, QuietTalk DEF Put
  <1>4. \A u \in Threads : threads'[u].pc \in Sending => threads'[u].photo \in Known
    BY <1>1, <1>2, SentOK
  <1>5. StoresFit
    BY <1>1, PutFits DEF Put, PhotoOf
  <1>6. QED
    BY <1>2, <1>3, <1>4, <1>5, SendingIs, UploadFine DEF Put

LEMMA LandsFine ==
    ASSUME IInv, NEW p \in Photos, Lands(p)
    PROVE  Fine
  <1>1. p \in Known /\ flying' \subseteq Known
    BY DEF Lands, IInv, FlowInv, Traced
  <1>2. StoresFit
    BY <1>1, PutFits DEF Lands
  <1>3. DeviceInv'
    BY DeviceSame DEF Lands, IInv
  <1>4. RequestsFit /\ Talk'
    BY SameRequests, SameTalk DEF Lands
  <1>5. \A t \in Threads : threads'[t].pc \in Sending => threads'[t].photo \in Known
    BY SendingIs DEF Lands
  <1>6. QED
    BY <1>1, <1>2, <1>3, <1>4, <1>5, UploadFine DEF Lands

(* The service restarts; a shell command dies.                             *)
LEMMA CrashOK ==
    ASSUME DeviceInv, CrashState
    PROVE  /\ DeviceInv' /\ \A t \in Service : threads'[t] = Rest
           /\ threads'["cli"] = threads["cli"]
  <1>1. /\ \A t \in Service : threads'[t] = Rest
        /\ threads'["cli"] = threads["cli"] /\ threads' = [t \in Threads |-> threads'[t]]
    BY Names DEF CrashState, Stopped
  <1>2. \A t \in Threads : threads'[t] = Rest \/ (t = "cli" /\ threads'[t] = threads[t])
    BY <1>1, Names
  <1>3. Still \in PreviewRec /\ Still.pc = "off" /\ Still.running = FALSE
    BY Zenon DEF Still, PreviewRec
  <1>4. Typed'
    <2>1. \A t \in Threads : threads'[t] \in ThreadRec
      BY <1>2, RestOK, ThreadIs
    <2>2. QED
      BY <1>1, <2>1 DEF Typed
  <1>5. DeviceTypes'
    <2>1. \A t \in Threads : threads'[t].photo <= taken /\ threads'[t].todo \subseteq 1..taken
      BY <1>2, RestIs, ThreadIs, CliIs
    <2>2. QED
      BY <1>3, <1>4, <2>1 DEF CrashState, DeviceInv, DeviceTypes, Typed
  <1>6. Locks'
    <2>1. opLock' = Nobody /\ camera' = Nobody /\ preview' = Still
      BY DEF CrashState
    <2>2. \A t \in Service : threads'[t].pc = "idle"
      BY <1>1, RestIs
    <2>3. threads'["cli"].pc \in CliPhases
      BY <1>1 DEF DeviceInv, Locks
    <2>4. \A t \in Threads : threads'[t].pc \notin {"shooting", "clear"}
      BY <2>2, <2>3, Names, PhasesAre
    <2>5. QED
      BY <1>3, <2>1, <2>2, <2>3, <2>4, Names, PhasesAre DEF Locks
  <1>7. TestModeSilences'
    BY <1>1, RestIs DEF TestModeSilences
  <1>8. QED
    BY <1>1, <1>5, <1>6, <1>7 DEF DeviceInv

LEMMA ServiceRestartsFine ==
    ASSUME IInv, ServiceRestarts
    PROVE  Fine
  <1>1. /\ DeviceInv' /\ \A t \in Service : threads'[t] = Rest
        /\ threads'["cli"] = threads["cli"]
    BY CrashOK DEF IInv, ServiceRestarts
  <1>2. "service" \in Clients
    BY Ranges
  <1>3. \A t \in Threads : ClientOf(t) # "service" => threads'[t] = threads[t]
    BY <1>1, Names, ClientsOK
  <1>4. \A t \in Threads : ClientOf(t) = "service" => threads'[t].pc = "idle"
    BY <1>1, Names, ClientsOK, RestIs
  <1>5. RequestsFit /\ Talk'
    BY <1>2, <1>3, <1>4, HangsOK, TalkEnds DEF ServiceRestarts
  <1>6. \A t \in Threads : threads'[t].pc \in Sending => threads'[t].photo \in Known
    BY <1>3, <1>4, SendingIs, PhasesAre
  <1>7. QED
    BY <1>1, <1>5, <1>6, CliIs, SameStores, SendingIs, UploadFine DEF ServiceRestarts, CrashState

LEMMA CliDiesFine ==
    ASSUME IInv, CliDies
    PROVE  Fine
  <1>1. Typed' /\ OthersStay("cli") /\ threads'["cli"] = Rest
    BY CliIs, ThreadIs, RestOK, SetOK DEF CliDies, IInv
  <1>2. Fits("cli", threads'["cli"])
    <2>1. opLock' # "cli" /\ taken' \in Nat
      BY Names, ThreadIs DEF CliDies, IInv, DeviceInv, DeviceTypes
    <2>2. QED
      BY <1>1, <2>1, CliIs, RestIs, PhasesAre DEF Fits
  <1>3. LockPasses("cli")
    BY DEF LockPasses, CliDies
  <1>4. DeviceInv'
    BY <1>1, <1>2, <1>3, CliIs, RestIs, WorksOK DEF CliDies, IInv
  <1>5. "cli" \in Clients /\ ClientOf("cli") = "cli"
    BY Ranges, ClientsOK
  <1>6. \A t \in Threads : ClientOf(t) # "cli" => threads'[t] = threads[t]
    BY <1>1, <1>5 DEF OthersStay
  <1>7. \A t \in Threads : ClientOf(t) = "cli" /\ threads'[t].pc = "remove" =>
          threads'[t].photo \in filed
    BY <1>1, Names, ClientsOK, RestIs
  <1>8. RequestsFit /\ Talk'
    BY <1>5, <1>6, <1>7, HangsOK, TalkEnds DEF CliDies
  <1>9. \A t \in Threads : threads'[t].pc \in Sending => threads'[t].photo \in Known
    BY <1>1, CliIs, RestIs, PhasesAre, SentOK
  <1>10. QED
    BY <1>4, <1>8, <1>9, CliIs, SameStores, SendingIs, UploadFine DEF CliDies

-----------------------------------------------------------------------------
(* The whole.                                                              *)

LEMMA UploadsFine ==
    ASSUME IInv, NEW t \in Threads, UploadStep(t) \/ TimesOut(t) \/ PutFails(t)
    PROVE  Fine
  BY RequestGrantFine, AnsweredFine, PutFine, ConfirmFine, EndingsFine DEF UploadStep

LEMMA StepsFine ==
    ASSUME IInv, Steps \/ Events
    PROVE  Fine
  <1>1. CASE (DeviceStep \/ DeviceEvents) /\ UNCHANGED <<flow, flying>>
    BY <1>1, DeviceFine
  <1>2. CASE (ServerNext \/ ServerEvents) /\ UNCHANGED <<device, flying>>
    BY <1>2, ServerStepsFine
  <1>3. ASSUME NEW t \in Threads, ThreadWork(t) \/ TimesOut(t) \/ PutFails(t)
        PROVE  Fine
    BY <1>3, ThreadStepFine, UploadsFine DEF ThreadWork
  <1>4. ASSUME NEW p \in Photos, Lands(p) PROVE Fine
    BY <1>4, LandsFine
  <1>5. CASE ServiceRestarts \/ CliDies
    BY <1>5, ServiceRestartsFine, CliDiesFine
  <1>6. QED
    BY <1>1, <1>2, <1>3, <1>4, <1>5 DEF Steps, Events

LEMMA NextFine ==
    ASSUME IInv, [Next]_vars
    PROVE  IInv' /\ [D!Next]_<<queue, filed>>
  <1>1. CASE Next
    <2>1. Fine
      BY <1>1, StepsFine DEF Next
    <2>2. events' \in 0..MaxEvents
      <3>1. events \in 0..MaxEvents /\ MaxEvents \in Nat
        BY Ranges DEF IInv
      <3>2. events' = events \/ (events < MaxEvents /\ events' = events + 1)
        BY <1>1 DEF Next
      <3>3. QED
        BY <3>1, <3>2
    <2>3. QED
      BY <2>1, <2>2 DEF Fine, IInv
  <1>2. CASE UNCHANGED vars
    <2>1. DeviceInv'
      BY <1>2, DeviceSame DEF IInv, vars
    <2>2. FlowTypes' /\ Traced' /\ Readable'
      BY <1>2 DEF IInv, FlowInv, FlowTypes, Traced, Readable, Listed, Stored, Known, vars
    <2>3. Talk'
      BY <1>2, SameTalk DEF vars
    <2>4. QED
      BY <1>2, <2>1, <2>2, <2>3 DEF IInv, FlowInv, vars
  <1>3. QED
    BY <1>1, <1>2

LEMMA InitOK ==
    ASSUME Init
    PROVE  IInv
  <1> USE DEF Init, FlowInit, DeviceInit
  <1>1. \A t \in Threads : threads[t] = Rest
    OBVIOUS
  <1>2. \A s \in Slots : handlers[s] = Idle
    OBVIOUS
  <1>3. DeviceTypes
    <2>1. threads \in [Threads -> ThreadRec]
      BY RestOK
    <2>2. preview \in PreviewRec
      BY Zenon DEF Still, PreviewRec
    <2>3. \A t \in Threads : threads[t].photo <= taken /\ threads[t].todo \subseteq 1..taken
      BY <1>1, RestIs
    <2>4. QED
      BY <2>1, <2>2, <2>3, Ranges DEF DeviceTypes
  <1>4. Locks
    <2>1. \A t \in Threads : threads[t].pc = "idle"
      BY <1>1, RestIs
    <2>2. Still.pc = "off" /\ Still.running = FALSE
      BY DEF Still
    <2>3. QED
      BY <2>1, <2>2, Names, PhasesAre DEF Locks
  <1>5. TestModeSilences
    BY <1>1, Names, RestIs DEF TestModeSilences
  <1>6. NoEdit \in EditRec /\ NoEdit.pc = "idle" /\ SweepFits(NoSweep)
    BY NoEditFits, NoSweepFits DEF EditFits, NoEdit
  <1>7. FlowTypes
    BY <1>6, IdleIs, Ranges DEF FlowTypes, SweepFits
  <1>8. Traced
    BY <1>1, <1>2, <1>6, IdleIs, RestIs, PhasesAre
       DEF Traced, Listed, Stored, Known, SweepFits
  <1>9. Readable
    BY <1>2, <1>6, IdleIs DEF Readable, SweepFits
  <1>10. Talk
    BY <1>1, <1>2, IdleIs, RestIs, Ranges DEF Talk
  <1>11. QED
    BY <1>3, <1>4, <1>5, <1>7, <1>8, <1>9, <1>10, Ranges DEF IInv, DeviceInv, FlowInv

(* The inductive invariant holds of every behaviour.                       *)
THEOREM InvariantOK == Safety => []IInv
  <1>1. Init => IInv
    BY InitOK
  <1>2. IInv /\ [Next]_vars => IInv'
    BY NextFine
  <1>3. QED
    BY <1>1, <1>2, PTL DEF Safety

(* The states of the whole: every variable has its type, who holds a lock  *)
(* is at work, and the camera is the preview's while its process lives.    *)
THEOREM TypeCorrect == Safety => []TypeOK
  <1>1. IInv => TypeOK
    <2> SUFFICES ASSUME IInv PROVE TypeOK
      OBVIOUS
    <2>1. \A s \in Slots : handlers[s].pc \in Phases \cup {"idle"}
      BY HandlersNow, HandlerFieldsOK
    <2>2. \A t \in Threads : threads[t].op \in Operations /\ threads[t].photo \in 0..taken
      BY ThreadIs, FieldsOK DEF IInv
    <2>3. opLock # Nobody => threads[opLock] # Rest
      BY RestIs DEF IInv, DeviceInv, Locks
    <2>4. filed \cup flying \subseteq Photos
      BY KnownIs, SendingIs, CliIs
    <2>5. QED
      BY <2>1, <2>2, <2>3, <2>4, Names
         DEF TypeOK, IInv, DeviceInv, DeviceTypes, Locks, FlowInv, FlowTypes
  <1>2. QED
    BY <1>1, InvariantOK, PTL

(* A JPEG that does not decode is never filed: finalize_upload and the     *)
(* recovery of a reconciliation draw the thumbnail first.                  *)
THEOREM FiledPhotosDecode == Safety => []FiledIsReadable
  <1>1. IInv => FiledIsReadable
    BY DEF IInv, FlowInv, Readable, FiledIsReadable
  <1>2. QED
    BY <1>1, InvariantOK, PTL

(* A photo taken in test mode reaches neither the catalog nor the bucket,  *)
(* however often the mode is changed while operations are under way.       *)
THEOREM TestPhotosAreKeptBack == Safety => []TestPhotosStay
  <1>1. IInv => TestPhotosStay
    <2> SUFFICES ASSUME IInv, NEW p \in secret PROVE rows[p] = Absent /\ objects[p] = Absent
      BY DEF TestPhotosStay
    <2>1. p \in Photos /\ p \notin Known
      BY KnownArePhotos DEF IInv, DeviceInv, DeviceTypes, FlowInv, Traced
    <2>2. QED
      BY <2>1, StoresNow DEF Listed, Stored
  <1>2. QED
    BY <1>1, InvariantOK, PTL

(* While the saved settings say test mode, the service has no upload under *)
(* way: admin_photo_settings waits for the operation lock.                 *)
THEOREM TestModeIsSilent == Safety => []TestModeSilences
  <1>1. IInv => TestModeSilences
    BY DEF IInv, DeviceInv
  <1>2. QED
    BY <1>1, InvariantOK, PTL

(* The camera and the server implement Delivery: a photo leaves the queue  *)
(* only once it has been filed.                                            *)
THEOREM DeliveryImplemented == Safety => Implements
  <1>1. Init => D!Init
    BY DEF Init, FlowInit, DeviceInit, D!Init
  <1>2. IInv /\ [Next]_vars => [D!Next]_<<queue, filed>>
    BY NextFine
  <1>3. QED
    BY <1>1, <1>2, InvariantOK, PTL DEF Safety, Implements, D!Spec
=============================================================================
