---------------------------- MODULE PhotoDelivery ----------------------------
(***************************************************************************)
(* The Pi and the server together: Uploader::upload (device/src/main.rs)   *)
(* asks for a grant, puts the photo into the bucket, confirms, and only    *)
(* then removes it from its queue; what fails is tried again with the      *)
(* next retry.  Answers are lost, requests time out while the server still *)
(* works on them, and the service restarts anywhere.                       *)
(***************************************************************************)
EXTENDS UploadFlow, PiDevice

(* Requests of people, edits, reconciliations, shell commands and failures *)
(* are events: all of them together are bounded, in any mixture.           *)
CONSTANT MaxEvents

ASSUME SystemAssumption == /\ Photos = Shots /\ Clients = {"service", "cli"}
                           /\ MaxEvents \in Nat

VARIABLES flying, \* photos whose PUT outlived the client's wait
          events  \* events so far

vars == <<flow, device, flying, events>>

ClientOf(t) == IF t = "cli" THEN "cli" ELSE "service"
Reply(t)    == replies[ClientOf(t)]
Taken(t)    == replies' = [replies EXCEPT ![ClientOf(t)] = "none"]
PhotoOf(t)  == threads[t].photo

Server   == <<rows, objects, thumbs, edit, sweep, filed>>
DeviceRest == <<local, taken, secret, testMode, camera, preview>>

Init == FlowInit /\ DeviceInit /\ flying = {} /\ events = 0

-----------------------------------------------------------------------------
(* Uploader::upload                                                        *)

(* Mutant: the first failure ends the retry.                               *)
BugStopsAtFirst(t) == Ends(t)

(* Mutant: a photo that was not sent is sent again at once.                *)
BugSendsAgain(t) == IF In(t, "remove") THEN Ends(t) ELSE Goes(t, "send") /\ UNCHANGED opLock

(* The end of one upload: retry_all goes on to the next photo, whatever    *)
(* became of this one.                                                     *)
UploadEnds(t) ==
    IF threads[t].todo = {} THEN Ends(t)
    ELSE /\ threads' = [threads EXCEPT ![t].pc = "send", ![t].photo = Min(threads[t].todo),
                                       ![t].todo = @ \ {Min(threads[t].todo)}]
         /\ UNCHANGED opLock

(* Mutant: whatever the server says, the upload goes on.                   *)
BugAnyAnswer(t) == Reply(t) \in {"ok", "error"}
Accepted(t) == Reply(t) = "ok"

(* A photo that was taken in test mode, or is no longer there, or any      *)
(* photo while the settings say test mode, is not sent.                    *)
Candidate(t) == PhotoOf(t) \in queue /\ ~TestMode(t)
SkipUpload(t) ==
    /\ In(t, "send") /\ ~Candidate(t) /\ UploadEnds(t)
    /\ UNCHANGED <<flow, queue, DeviceRest, flying>>
RequestGrant(t) ==
    /\ In(t, "send") /\ Candidate(t)
    /\ Call(ClientOf(t), "guard", PhotoOf(t)) /\ Goes(t, "grant")
    /\ UNCHANGED <<Server, replies, queue, opLock, DeviceRest, flying>>
Granted(t) ==
    /\ In(t, "grant") /\ Accepted(t) /\ Taken(t) /\ Goes(t, "put")
    /\ UNCHANGED <<Server, handlers, queue, opLock, DeviceRest, flying>>
Refused(t) ==
    /\ threads[t].pc \in {"grant", "finish"} /\ Reply(t) = "error" /\ Taken(t) /\ UploadEnds(t)
    /\ UNCHANGED <<Server, handlers, queue, DeviceRest, flying>>
Put(t) ==
    /\ In(t, "put") /\ PhotoOf(t) \in queue /\ PutObject(PhotoOf(t)) /\ Goes(t, "confirm")
    /\ UNCHANGED <<rows, thumbs, handlers, replies, edit, sweep, filed,
                   queue, opLock, DeviceRest, flying>>
(* Another process has sent it and removed the file.                       *)
FileGone(t) ==
    /\ In(t, "put") /\ PhotoOf(t) \notin queue /\ UploadEnds(t)
    /\ UNCHANGED <<flow, queue, DeviceRest, flying>>
Confirm(t) ==
    /\ In(t, "confirm") /\ Call(ClientOf(t), "expect", PhotoOf(t)) /\ Goes(t, "finish")
    /\ UNCHANGED <<Server, replies, queue, opLock, DeviceRest, flying>>
Confirmed(t) ==
    /\ In(t, "finish") /\ Accepted(t) /\ Taken(t) /\ Goes(t, "remove")
    /\ UNCHANGED <<Server, handlers, queue, opLock, DeviceRest, flying>>
RemoveFile(t) ==
    /\ In(t, "remove") /\ queue' = queue \ {PhotoOf(t)} /\ UploadEnds(t)
    /\ UNCHANGED <<flow, DeviceRest, flying>>

UploadStep(t) ==
    \/ SkipUpload(t) \/ RequestGrant(t) \/ Granted(t) \/ Refused(t) \/ Put(t) \/ FileGone(t)
    \/ Confirm(t) \/ Confirmed(t) \/ RemoveFile(t)

(* The answer does not come, or comes too late: the server may still be at *)
(* work on the request.                                                    *)
TimesOut(t) ==
    /\ threads[t].pc \in {"grant", "finish"} /\ Taken(t) /\ UploadEnds(t)
    /\ handlers' = Hangs(ClientOf(t))
    /\ UNCHANGED <<Server, queue, DeviceRest, flying>>
(* Nobody is at work on the request any more.                              *)
Unanswered(t) == /\ Reply(t) = "none"
                 /\ \A s \in Slots : handlers[s].client # ClientOf(t)
(* The bytes do not arrive; or not yet.                                    *)
PutFails(t) ==
    /\ In(t, "put") /\ UploadEnds(t) /\ flying' \in {flying, flying \cup {PhotoOf(t)}}
    /\ UNCHANGED <<flow, queue, DeviceRest>>
Lands(p) ==
    /\ p \in flying /\ flying' = flying \ {p} /\ PutObject(p)
    /\ UNCHANGED <<rows, thumbs, handlers, replies, edit, sweep, filed, device>>
ServiceRestarts ==
    /\ CrashState /\ handlers' = Hangs("service")
    /\ replies' = [replies EXCEPT !["service"] = "none"]
    /\ UNCHANGED <<Server, flying>>
CliDies ==
    /\ threads["cli"] # Rest /\ threads' = [threads EXCEPT !["cli"] = Rest]
    /\ handlers' = Hangs("cli") /\ replies' = [replies EXCEPT !["cli"] = "none"]
    /\ UNCHANGED <<Server, queue, opLock, DeviceRest, flying>>

ThreadWork(t) == \/ ThreadStep(t) /\ UNCHANGED <<flow, flying>>
                 \/ UploadStep(t)
                 \/ Unanswered(t) /\ TimesOut(t)
Steps ==
    \/ DeviceStep /\ UNCHANGED <<flow, flying>>
    \/ ServerNext /\ UNCHANGED <<device, flying>>
    \/ \E t \in Threads : ThreadWork(t)
    \/ \E p \in Photos : Lands(p)
Events ==
    \/ DeviceEvents /\ UNCHANGED <<flow, flying>>
    \/ ServerEvents /\ UNCHANGED <<device, flying>>
    \/ \E t \in Threads : TimesOut(t) \/ PutFails(t)
    \/ ServiceRestarts \/ CliDies

Next == \/ Steps /\ UNCHANGED events
        \/ events < MaxEvents /\ events' = events + 1 /\ Events

(* Threads and requests under way go on, a preview told to stop stops, and *)
(* the loop comes to its retry again and again, presses or not (a press    *)
(* puts the retry off by its interval: someone who never stops pressing    *)
(* would put it off for ever).                                             *)
Do(A) == UNCHANGED events /\ A
OnDevice(A) == UNCHANGED <<flow, flying>> /\ Do(A)
OnServer(A) == UNCHANGED <<device, flying>> /\ Do(A)
PreviewWork == \/ PreviewLocks \/ PreviewOver
               \/ (preview.stop \/ preview.pc = "killed") /\ PreviewEnds
Fairness ==
    /\ \A t \in Threads : WF_vars(Do(ThreadWork(t)))
    /\ \A s \in Slots : WF_vars(OnServer(HandlerStep(s)))
    /\ WF_vars(OnDevice(PreviewWork))
    /\ SF_vars(OnDevice(RetryDue))

Safety == Init /\ [][Next]_vars
Spec   == Safety /\ Fairness

-----------------------------------------------------------------------------
(* The states of the whole; whoever holds a lock is at work.               *)
TypeOK ==
    /\ rows \in [Photos -> Row \cup {Absent}]
    /\ objects \in [Photos -> Renditions \cup {Absent}]
    /\ thumbs \in [Photos -> Renditions \cup {Absent}]
    /\ replies \in [Clients -> {"none", "ok", "error"}]
    /\ \A s \in Slots : handlers[s].pc \in Phases \cup {"idle"}
    /\ queue \cup local \subseteq 1..taken /\ secret \subseteq 1..taken
    /\ opLock \in Threads \cup {Nobody} /\ camera \in Threads \cup {Nobody, "preview"}
    /\ \A t \in Threads : threads[t].op \in Operations /\ threads[t].photo \in 0..taken
    /\ opLock # Nobody => threads[opLock] # Rest
    /\ camera = "preview" <=> preview.pc \in {"live", "killed"}
    /\ filed \cup flying \subseteq Photos /\ events \in 0..MaxEvents

(* A JPEG that does not decode is never made ready by a completion or a    *)
(* recovery: the thumbnail is drawn first, of the object that was measured.*)
FiledIsReadable == filed \cap Unreadable = {}

(* Nor is it ever in the gallery (upload_flow.rs:376): false, the import   *)
(* of a reconciliation shows an upload it had not seen reserved.           *)
GalleryIsReadable == Gallery \cap Unreadable = {}

(* A photo taken in test mode reaches neither the catalog nor the bucket,  *)
(* however the mode changes afterwards.                                    *)
TestPhotosStay == \A p \in secret : rows[p] = Absent /\ objects[p] = Absent

(* While the saved settings say test mode, the service has no upload under *)
(* way.                                                                    *)
TestModeSilences ==
    testMode => \A t \in Service :
        threads[t].pc \notin {"grant", "put", "confirm", "finish", "remove"}

(* The two sides implement Delivery: the camera lets go of a photo only    *)
(* when it has been filed.                                                 *)
D == INSTANCE Delivery WITH held <- queue
Implements == D!Spec

(* What may keep a photo waiting: the loop stands behind a live preview,   *)
(* the settings say test mode, or the finished row no longer has the size  *)
(* of the file the camera keeps (it was rotated, or imported).             *)
Behind == preview.pc = "live"
Reworked(p) == p \in Gallery /\ rows[p].size # 0

(* A queued photo that decodes leaves the queue in the end (by Implements, *)
(* once it has been filed), whatever becomes of the others: again and      *)
(* again it is either out of the queue, or kept for one of those reasons.  *)
EventuallyReleased ==
    \A p \in Photos \ Unreadable :
        []<>(p \notin queue \/ testMode \/ Behind \/ Reworked(p))

(* A press is served, unless it waits behind a preview that started after  *)
(* the press had stopped the one before: the loop is not for ever in one.  *)
PressServed ==
    []<>(threads["loop"].op # "press" \/ (preview.pc = "live" /\ ~preview.stop))
=============================================================================
