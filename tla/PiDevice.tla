------------------------------- MODULE PiDevice -------------------------------
(***************************************************************************)
(* The Raspberry Pi camera (device/src): the button loop, the blocking     *)
(* requests of the admin page and the live preview of the camera lab share *)
(* one camera; the loop and the requests serialise under operation_lock,   *)
(* the preview takes only camera_lock.  The same binary run from a shell   *)
(* works on the same queue, with locks of its own.                         *)
(*                                                                         *)
(* An operation that uploads hands over to PhotoDelivery at "send".        *)
(***************************************************************************)
EXTENDS Naturals, FiniteSets, FiniteSetsExt

CONSTANTS MaxPhotos,  \* bound on the photos taken
          Requests,   \* bound on the admin requests at work at once
          Nobody

ASSUME CountAssumption == MaxPhotos \in Nat
ASSUME RequestAssumption == Requests \cap {"loop", "cli", "preview"} = {}
ASSUME NobodyAssumption == Nobody \notin Requests \cup {"loop", "cli", "preview"}

VARIABLES
    queue,    \* the photos in queue_dir
    local,    \* the photos in local_dir
    taken,    \* photos taken so far: the last capture id
    secret,   \* those taken in test mode
    testMode, \* photo_settings.test_mode, saved and in memory
    opLock,   \* who holds operation_lock
    camera,   \* who holds camera_lock
    preview,  \* PreviewState, and where its thread is
    threads   \* the operations under way

device == <<queue, local, taken, secret, testMode, opLock, camera, preview, threads>>

Shots     == 1..MaxPhotos
Service   == {"loop"} \cup Requests
Threads   == Service \cup {"cli"}
NoPhoto   == 0

Operations == {"none", "press", "retry", "capture", "lab", "preview", "stop", "apply",
               "led"}
Rest == [op |-> "none", pc |-> "idle", photo |-> NoPhoto, todo |-> {}, inQueue |-> FALSE,
         test |-> FALSE]
Still == [running |-> FALSE, stop |-> FALSE, pc |-> "off"]

DeviceInit ==
    /\ queue = {} /\ local = {} /\ taken = 0 /\ secret = {}
    /\ testMode \in BOOLEAN
    /\ opLock = Nobody /\ camera = Nobody /\ preview = Still
    /\ threads = [t \in Threads |-> Rest]

(* A shell command read the settings when it started.                      *)
TestMode(t) == IF t = "cli" THEN threads[t].test ELSE testMode

In(t, pc) == threads[t].pc = pc
Goes(t, pc) == threads' = [threads EXCEPT ![t].pc = pc]
Begin(t, op, pc) == threads[t] = Rest /\ threads' = [threads EXCEPT ![t].op = op, ![t].pc = pc]
Files == <<queue, local, taken, secret>>

(* Mutant: the guard outlives the operation.                               *)
BugKeepsLock(t) == /\ threads' = [threads EXCEPT ![t] = Rest]
                   /\ UNCHANGED opLock

(* The end of an operation: it gives back operation_lock.                  *)
Ends(t) ==
    /\ threads' = [threads EXCEPT ![t] = Rest]
    /\ opLock' = IF opLock = t THEN Nobody ELSE opLock

-----------------------------------------------------------------------------
(* What starts an operation.                                               *)

Press == /\ Begin("loop", "press", "halt")
         /\ UNCHANGED <<Files, testMode, opLock, camera, preview>>
RetryDue == /\ Begin("loop", "retry", "wantOp")
            /\ UNCHANGED <<Files, testMode, opLock, camera, preview>>
AskCapture(t) == /\ t \in Requests /\ Begin(t, "capture", "halt")
                 /\ UNCHANGED <<Files, testMode, opLock, camera, preview>>
AskLab(t) == /\ t \in Requests /\ Begin(t, "lab", "halt")
             /\ UNCHANGED <<Files, testMode, opLock, camera, preview>>
(* In test mode the request is answered at once.                           *)
AskRetry(t) == /\ t \in Requests /\ ~testMode /\ Begin(t, "retry", "wantOp")
               /\ UNCHANGED <<Files, testMode, opLock, camera, preview>>
AskStop(t) == /\ t \in Requests /\ preview.running /\ Begin(t, "stop", "halt")
              /\ UNCHANGED <<Files, testMode, opLock, camera, preview>>
AskPreview(t) == /\ t \in Requests /\ ~preview.running /\ Begin(t, "preview", "clear")
                 /\ preview' = [preview EXCEPT !.running = TRUE]
                 /\ UNCHANGED <<Files, testMode, opLock, camera>>
(* apply_settings restarts a preview that runs; otherwise it only writes   *)
(* the orientation.                                                        *)
AskApply(t) == /\ t \in Requests /\ preview.running /\ Begin(t, "apply", "halt")
               /\ UNCHANGED <<Files, testMode, opLock, camera, preview>>

(* test_led: the lamps are set between two operations.                     *)
AskLed(t) == /\ t \in Requests /\ Begin(t, "led", "wantOp")
             /\ UNCHANGED <<Files, testMode, opLock, camera, preview>>

Asks == \E t \in Requests : \/ AskCapture(t) \/ AskLab(t) \/ AskRetry(t)
                            \/ AskStop(t) \/ AskPreview(t) \/ AskApply(t)
                            \/ AskLed(t)

-----------------------------------------------------------------------------
(* stop_preview, and what follows it.                                      *)

(* The preview is asked to stop and its process gets a signal.             *)
StopPreview(t) ==
    /\ In(t, "halt") /\ preview.running /\ Goes(t, "halting")
    /\ preview' = [preview EXCEPT !.stop = TRUE, !.pc = IF @ = "live" THEN "killed" ELSE @]
    /\ UNCHANGED <<Files, testMode, opLock, camera>>

AfterStop(op) == CASE op \in {"press", "capture", "lab"} -> "wantOp"
                   [] op = "apply" -> "restart" [] OTHER -> "done"
PreviewStopped(t) ==
    /\ threads[t].pc \in {"halt", "halting"} /\ ~preview.running
    /\ Goes(t, AfterStop(threads[t].op))
    /\ UNCHANGED <<Files, testMode, opLock, camera, preview>>
(* After three seconds and a second signal the wait is given up: a press   *)
(* goes on all the same, a request answers with the error.                 *)
StopTimesOut(t) ==
    /\ In(t, "halting") /\ preview.running
    /\ preview' = [preview EXCEPT !.pc = IF @ = "live" THEN "killed" ELSE @]
    /\ Goes(t, IF threads[t].op = "press" THEN "wantOp" ELSE "done")
    /\ UNCHANGED <<Files, testMode, opLock, camera>>

Restart(t) ==
    /\ In(t, "restart")
    /\ IF preview.running THEN Goes(t, "done") /\ UNCHANGED preview
       ELSE Goes(t, "clear") /\ preview' = [preview EXCEPT !.running = TRUE]
    /\ UNCHANGED <<Files, testMode, opLock, camera>>

(* start_preview, after its swap of `running`: the flag is cleared and the *)
(* thread starts.                                                          *)
StartPreview(t) ==
    /\ In(t, "clear") /\ Goes(t, "done")
    /\ preview' = [preview EXCEPT !.stop = FALSE, !.pc = "wantCamera"]
    /\ UNCHANGED <<Files, testMode, opLock, camera>>

RequestDone(t) ==
    /\ In(t, "done") /\ Ends(t)
    /\ UNCHANGED <<Files, testMode, camera, preview>>

(* run_preview                                                             *)
PreviewLocks ==
    /\ preview.pc = "wantCamera" /\ camera = Nobody
    /\ camera' = IF preview.stop THEN Nobody ELSE "preview"
    /\ preview' = [preview EXCEPT !.pc = IF preview.stop THEN "ending" ELSE "live"]
    /\ UNCHANGED <<Files, testMode, opLock, threads>>
(* Its process ends: it was killed, the thread saw the flag between two    *)
(* frames, or on its own.                                                  *)
PreviewEnds ==
    /\ preview.pc \in {"live", "killed"}
    /\ camera' = Nobody /\ preview' = [preview EXCEPT !.pc = "ending"]
    /\ UNCHANGED <<Files, testMode, opLock, threads>>
PreviewOver ==
    /\ preview.pc = "ending" /\ preview' = [preview EXCEPT !.running = FALSE, !.pc = "off"]
    /\ UNCHANGED <<Files, testMode, opLock, camera, threads>>

-----------------------------------------------------------------------------
(* Under operation_lock.                                                   *)

LockOperation(t) ==
    /\ In(t, "wantOp") /\ opLock = Nobody /\ opLock' = t
    /\ Goes(t, CASE threads[t].op = "retry" -> "list" [] threads[t].op = "led" -> "done"
               [] OTHER -> "wantCamera")
    /\ UNCHANGED <<Files, testMode, camera, preview>>

(* Mutant: the photo goes to the queue, whatever the settings say.         *)
BugQueuesAll == TRUE
ToQueue == ~testMode

(* start_capture: the settings in force now decide where the photo goes; a *)
(* lab photo is always a test.                                             *)
StartCapture(t) ==
    /\ In(t, "wantCamera") /\ camera = Nobody /\ camera' = t
    /\ LET lab == threads[t].op = "lab" IN
       threads' = [threads EXCEPT ![t].pc = "shooting", ![t].inQueue = ToQueue /\ ~lab,
                                  ![t].test = testMode \/ lab]
    /\ UNCHANGED <<Files, testMode, opLock, preview>>
(* The camera command does not start.                                      *)
CaptureFails(t) ==
    /\ In(t, "wantCamera") /\ camera = Nobody /\ Ends(t)
    /\ UNCHANGED <<Files, testMode, camera, preview>>

(* finish: one rename puts the photo into its directory, and the upload is *)
(* tried; a lab photo stays.                                               *)
Shoot(t) ==
    /\ In(t, "shooting") /\ taken < MaxPhotos /\ taken' = taken + 1 /\ camera' = Nobody
    /\ secret' = IF threads[t].test THEN secret \cup {taken'} ELSE secret
    /\ IF threads[t].inQueue THEN queue' = queue \cup {taken'} /\ UNCHANGED local
       ELSE local' = local \cup {taken'} /\ UNCHANGED queue
    /\ IF threads[t].op = "lab" THEN Ends(t)
       ELSE /\ threads' = [threads EXCEPT ![t].pc = "send", ![t].photo = taken']
            /\ UNCHANGED opLock
    /\ UNCHANGED <<testMode, preview>>
(* The camera fails, or the photo cannot be written.                       *)
ShotFails(t) ==
    /\ In(t, "shooting") /\ camera' = Nobody /\ Ends(t)
    /\ UNCHANGED <<Files, testMode, preview>>

(* Mutant: the settings are saved while an operation is under way.         *)
BugSavesUnlocked == TRUE
MaySave == opLock = Nobody

(* admin_photo_settings, all of it under the lock.                         *)
SaveSettings ==
    /\ MaySave
    /\ testMode' = ~testMode
    /\ UNCHANGED <<Files, opLock, camera, preview, threads>>

(* retry_all: what is in the queue now, oldest first; not in test mode.    *)
RetryAll(t) ==
    /\ In(t, "list")
    /\ IF TestMode(t) \/ queue = {} THEN Ends(t)
       ELSE /\ threads' = [threads EXCEPT ![t].pc = "send", ![t].photo = Min(queue),
                                          ![t].todo = queue \ {Min(queue)}]
            /\ UNCHANGED opLock
    /\ UNCHANGED <<Files, testMode, camera, preview>>

(* The shell: `retry`, and `upload`, which copies a photo into the queue.  *)
CliRetry ==
    /\ threads["cli"] = Rest
    /\ threads' = [threads EXCEPT !["cli"].op = "retry", !["cli"].pc = "list",
                                  !["cli"].test = testMode]
    /\ UNCHANGED <<Files, testMode, opLock, camera, preview>>
CliUpload ==
    /\ threads["cli"] = Rest /\ ~testMode /\ taken < MaxPhotos
    /\ taken' = taken + 1 /\ queue' = queue \cup {taken + 1}
    /\ threads' = [threads EXCEPT !["cli"].op = "capture", !["cli"].pc = "send",
                                  !["cli"].photo = taken + 1]
    /\ UNCHANGED <<local, secret, testMode, opLock, camera, preview>>

(* The service stops, with whatever it was doing, and starts again.        *)
Stopped == [t \in Threads |-> IF t = "cli" THEN threads[t] ELSE Rest]
CrashState ==
    /\ threads' = Stopped /\ opLock' = Nobody
    /\ camera' = Nobody /\ preview' = Still
    /\ UNCHANGED <<Files, testMode>>

ThreadStep(t) ==
    \/ StopPreview(t) \/ PreviewStopped(t) \/ StopTimesOut(t) \/ Restart(t) \/ StartPreview(t)
    \/ RequestDone(t) \/ LockOperation(t) \/ StartCapture(t) \/ Shoot(t)
    \/ RetryAll(t) \/ (taken = MaxPhotos /\ ShotFails(t))
DeviceStep ==
    \/ Press \/ RetryDue \/ PreviewLocks \/ PreviewEnds \/ PreviewOver
    \/ \E t \in Threads : ThreadStep(t)
(* What happens now and then: see PhotoDelivery.                           *)
DeviceEvents ==
    \/ Asks \/ SaveSettings \/ CliRetry \/ CliUpload
    \/ \E t \in Threads : CaptureFails(t) \/ ShotFails(t)
=============================================================================
