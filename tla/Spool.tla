-------------------------------- MODULE Spool --------------------------------
(***************************************************************************)
(* The upload spool of the ESP-IDF firmware (mirror_spool.c): a press adds *)
(* a photo to a queue of files on flash, a task drains it to the server,   *)
(* oldest first, and the device may restart between any two writes.        *)
(*                                                                         *)
(* The two tasks share the files under a lock, but the drain holds it only *)
(* to choose an entry, to write back its time and to remove it; while it   *)
(* reads and uploads, an add may drop the very entry on the wire.          *)
(*                                                                         *)
(* A photo is a number, in the order of capture, and takes one unit of the *)
(* partition.  Times are seconds.                                          *)
(***************************************************************************)
EXTENDS Integers, FiniteSets, FiniteSetsExt, Sequences

CONSTANTS MaxPhotos,   \* bound on the photos taken
          Capacity,    \* photos the partition holds beside RESERVE_BYTES
          RejectedMax, \* REJECTED_MAX
          MaxTime      \* bound on the clock

ASSUME SizeAssumption  == /\ MaxPhotos \in Nat /\ RejectedMax \in Nat \ {0}
                          /\ Capacity \in Nat /\ RejectedMax < Capacity
ASSUME ClockAssumption == MaxTime \in Nat \ {0}

VARIABLES
    q,        \* the files under q/: seq, photo, captured_at or 0
    r,        \* the files under r/
    nextSeq,  \* s_next_seq
    on,       \* the device runs
    adding,   \* an add holds the lock
    drain,    \* where the drain task is, and with which entry
    tokenBad, \* s_token_bad
    waiting,  \* the retry backoff has not run out
    net,      \* the station has an address
    clock,    \* mirror_net_clock_valid()
    now,      \* the time of day
    taken,    \* the photos taken: whole, and dated when spooled
    server    \* what the server has filed: photo under id

files  == <<q, r>>
device == <<on, adding, drain, tokenBad, waiting, nextSeq>>
world  == <<net, clock, now>>
vars   == <<files, device, world, taken, server>>

Photos == 1..MaxPhotos
Seqs   == 1..(MaxPhotos + 1)
Times  == 0..MaxTime

IdleDrain == [pc |-> "idle", seq |-> 0, photo |-> 0, stamp |-> 0]

Entry(seq, photo, stamp) == [seq |-> seq, photo |-> photo, stamp |-> stamp]

(* Mutant: the id is the second alone.                                     *)
BugIdBySecond(stamp, seq) == <<stamp, 0>>
(* capture_id_for: the second, and a hash of the sequence number.          *)
CaptureId(stamp, seq) == <<stamp, seq>>
Filed(photo, stamp, seq) == [photo |-> photo, id |-> CaptureId(stamp, seq)]

SeqsOf(S) == {e.seq : e \in S}
At(S, n)  == {e \in S : e.seq = n}

(* Mutant: the newest first.                                               *)
BugNewest(S) == Max(SeqsOf(S))
(* oldest_seq                                                              *)
Oldest(S) == Min(SeqsOf(S))

(* Mutant: numbering resumes from the count of the entries.                *)
BugNextFromCount(S) == Cardinality(S) + 1
(* mirror_spool_start: numbering resumes after the newest queued entry.    *)
NextAfter(S) == IF S = {} THEN 1 ELSE Max(SeqsOf(S)) + 1

Init ==
    /\ q = {} /\ r = {} /\ nextSeq = 1
    /\ on = TRUE /\ adding = FALSE /\ drain = IdleDrain
    /\ tokenBad = FALSE /\ waiting = FALSE
    /\ net = FALSE /\ clock = FALSE /\ now = 1
    /\ taken = << >> /\ server = {}

-----------------------------------------------------------------------------
(* mirror_spool_add, from its lock to its unlock.                          *)

Full == Cardinality(q) + Cardinality(r) >= Capacity

AddStarts ==
    /\ on /\ ~adding /\ Len(taken) < MaxPhotos
    /\ adding' = TRUE
    /\ UNCHANGED <<files, on, drain, tokenBad, waiting, nextSeq, world, taken, server>>

(* The oldest goes, the one being uploaded too, until the photo fits.      *)
AddDrops ==
    /\ adding /\ Full /\ q # {}
    /\ q' = q \ At(q, Oldest(q))
    /\ UNCHANGED <<r, device, world, taken, server>>

(* One rename, after which the next number is due.  The camera may have    *)
(* delivered a JPEG that is not whole.                                     *)
AddCommits ==
    /\ adding /\ ~Full
    /\ LET stamp == IF clock THEN now ELSE 0
           photo == Len(taken) + 1
       IN  /\ q' = (q \ At(q, nextSeq)) \cup {Entry(nextSeq, photo, stamp)}
           /\ \E whole \in BOOLEAN :
                taken' = Append(taken, [whole |-> whole, dated |-> clock])
    /\ nextSeq' = nextSeq + 1 /\ adding' = FALSE
    /\ UNCHANGED <<r, on, drain, tokenBad, waiting, world, server>>

(* The write or the rename fails: the photo is not queued.                 *)
AddFails ==
    /\ adding /\ ~Full
    /\ taken' = Append(taken, [whole |-> TRUE, dated |-> clock]) /\ adding' = FALSE
    /\ UNCHANGED <<files, on, drain, tokenBad, waiting, nextSeq, world, server>>

AddStep == AddDrops \/ AddCommits

-----------------------------------------------------------------------------
(* drain_one.                                                              *)

Step(pc)      == [drain EXCEPT !.pc = pc]
DrainAt(pc)   == on /\ drain.pc = pc
DrainKeeps    == UNCHANGED <<on, adding, nextSeq, world, taken>>
(* Removing the entry from q/ ends with the drain at its start.            *)
Remove        == q' = q \ At(q, drain.seq) /\ drain' = IdleDrain

ReadyToDrain == ~tokenBad /\ net /\ clock /\ ~waiting /\ q # {}

Pick ==
    /\ DrainAt("idle") /\ ReadyToDrain /\ ~adding
    /\ drain' = [IdleDrain EXCEPT !.pc = "picked", !.seq = Oldest(q)]
    /\ UNCHANGED <<files, tokenBad, waiting, server>> /\ DrainKeeps

(* Mutant: a photo is filed under the time of its upload.                  *)
BugUploadTime(e) == now
(* resolve_time                                                            *)
ResolveTime(e) == IF e.stamp > 0 THEN e.stamp ELSE now

(* The entry is read without the lock.  A file that is gone cannot be read. *)
Inspect ==
    /\ DrainAt("picked")
    /\ \/ /\ At(q, drain.seq) = {} /\ drain' = Step("discard")
       \/ \E e \in At(q, drain.seq) :
            drain' = [drain EXCEPT !.photo = e.photo, !.stamp = ResolveTime(e),
                                   !.pc = CASE ~taken[e.photo].whole -> "reject"
                                            [] taken[e.photo].whole /\ e.stamp = 0 -> "dating"
                                            [] OTHER -> "sending"]
    /\ UNCHANGED <<files, tokenBad, waiting, server>> /\ DrainKeeps

(* A read that fails: a bad header counts as unreadable, a bad JPEG tail as *)
(* not whole, bad metadata as a reason to try again later.                 *)
ReadFails ==
    /\ DrainAt("picked")
    /\ \E e \in At(q, drain.seq) :
         drain' \in {[drain EXCEPT !.photo = e.photo, !.pc = "discard"],
                     [drain EXCEPT !.photo = e.photo, !.pc = "reject"], IdleDrain}
    /\ UNCHANGED <<files, tokenBad, waiting, server>> /\ DrainKeeps

Dated == (q \ At(q, drain.seq)) \cup {[e EXCEPT !.stamp = drain.stamp] : e \in At(q, drain.seq)}

(* The resolved time is written back; nobody looks whether it was.         *)
WriteBack ==
    /\ DrainAt("dating") /\ ~adding
    /\ q' = Dated
    /\ drain' = IF At(q, drain.seq) = {} THEN IdleDrain ELSE Step("sending")
    /\ UNCHANGED <<r, tokenBad, waiting, server>> /\ DrainKeeps

WriteBackFails ==
    /\ DrainAt("dating") /\ ~adding
    /\ drain' \in {IdleDrain, Step("sending")}
    /\ q' \in (IF drain'.pc = "idle" THEN {q, Dated} ELSE {q})
    /\ UNCHANGED <<r, tokenBad, waiting, server>> /\ DrainKeeps

ServerFiles == server' = server \cup {Filed(drain.photo, drain.stamp, drain.seq)}

(* The upload ends with an answer that settles the matter: it is filed, or *)
(* refused for good (400, 409, 413), or the credential is (401, 403).      *)
UploadSettled ==
    /\ DrainAt("sending")
    /\ \/ ServerFiles /\ drain' = Step("filed") /\ waiting' = FALSE /\ UNCHANGED tokenBad
       \/ drain' = Step("reject") /\ UNCHANGED <<server, tokenBad, waiting>>
       \/ drain' = IdleDrain /\ tokenBad' = TRUE /\ UNCHANGED <<server, waiting>>
    /\ UNCHANGED files /\ DrainKeeps

(* Anything else backs off; the server may have filed the photo.           *)
UploadFails ==
    /\ DrainAt("sending")
    /\ drain' = IdleDrain /\ waiting' = TRUE
    /\ ServerFiles \/ UNCHANGED server
    /\ UNCHANGED <<files, tokenBad>> /\ DrainKeeps

Unlink ==
    /\ DrainAt("filed") \/ DrainAt("discard")
    /\ ~adding /\ Remove
    /\ UNCHANGED <<r, tokenBad, waiting, server>> /\ DrainKeeps

(* Mutant: the entry stays in q/ when it cannot be moved.                  *)
BugRejectKeeps ==
    /\ DrainAt("reject") /\ ~adding /\ drain' = IdleDrain
    /\ r' = r /\ q' = q
    /\ UNCHANGED <<tokenBad, waiting, server>> /\ DrainKeeps

(* Mutant (BugPrunedLate): one file too many is kept.                      *)
(* r/ is pruned, oldest first, then the entry moved there, or dropped when *)
(* that fails.                                                             *)
BugPrunedLate == {e \in r : Cardinality({d \in r : d.seq > e.seq}) < RejectedMax}
Pruned == {e \in r : Cardinality({d \in r : d.seq > e.seq}) < RejectedMax - 1}
RejectEntry ==
    /\ DrainAt("reject") /\ ~adding /\ Remove
    /\ r' \in {Pruned, (Pruned \ At(Pruned, drain.seq)) \cup At(q, drain.seq)}
    /\ UNCHANGED <<tokenBad, waiting, server>> /\ DrainKeeps

DrainStep == Pick \/ Unlink \/ RejectEntry

-----------------------------------------------------------------------------
(* Restarts, the network and the clock.                                    *)

Restart ==
    /\ on /\ now < MaxTime
    /\ on' = FALSE /\ adding' = FALSE /\ drain' = IdleDrain
    /\ net' = FALSE /\ clock' \in {FALSE, clock}
    /\ UNCHANGED <<files, nextSeq, tokenBad, waiting, now, taken, server>>

(* mirror_spool_start; a boot takes longer than a second.                  *)
Boot ==
    /\ ~on
    /\ on' = TRUE /\ tokenBad' = FALSE /\ waiting' = FALSE
    /\ nextSeq' = NextAfter(q)
    /\ now' = now + 1
    /\ UNCHANGED <<files, adding, drain, net, clock, taken, server>>

GotIp ==
    /\ on /\ ~net
    /\ net' = TRUE /\ waiting' = FALSE
    /\ UNCHANGED <<files, on, adding, drain, tokenBad, nextSeq, clock, now, taken, server>>

NetDown ==
    /\ on /\ net /\ net' = FALSE
    /\ UNCHANGED <<files, device, clock, now, taken, server>>

Sntp ==
    /\ on /\ net /\ clock' = TRUE
    /\ UNCHANGED <<files, device, net, now, taken, server>>

BackoffExpires ==
    /\ on /\ waiting /\ waiting' = FALSE
    /\ UNCHANGED <<files, on, adding, drain, tokenBad, nextSeq, world, taken, server>>

Tick ==
    /\ on /\ now < MaxTime /\ now' = now + 1
    /\ UNCHANGED <<files, device, net, clock, taken, server>>

Next ==
    \/ AddStarts \/ AddDrops \/ AddCommits \/ AddFails
    \/ Pick \/ Inspect \/ ReadFails \/ WriteBack \/ WriteBackFails
    \/ UploadSettled \/ UploadFails \/ Unlink \/ RejectEntry
    \/ Restart \/ Boot \/ GotIp \/ NetDown \/ Sntp \/ BackoffExpires \/ Tick

Spec == Init /\ [][Next]_vars

(* Both tasks run; SNTP answers while there is a network; a read, a write  *)
(* or an upload that is tried again and again is one day not disturbed.    *)
Fairness ==
    /\ WF_vars(AddStep) /\ WF_vars(DrainStep) /\ WF_vars(Sntp) /\ WF_vars(BackoffExpires)
    /\ SF_vars(Inspect) /\ SF_vars(WriteBack) /\ SF_vars(UploadSettled)

FairSpec == Spec /\ Fairness

-----------------------------------------------------------------------------
Entries == [seq : Seqs, photo : Photos, stamp : Times]
DrainPcs == {"idle", "picked", "dating", "sending", "filed", "reject", "discard"}

(* Files are numbered once within q/ and within r/, r/ holds no more than  *)
(* REJECTED_MAX, and the partition no more than its capacity.              *)
TypeOK ==
    /\ q \subseteq Entries /\ r \subseteq Entries
    /\ \A S \in {q, r} : \A d, e \in S : d.seq = e.seq => d = e
    /\ Cardinality(r) <= RejectedMax /\ Cardinality(q) + Cardinality(r) <= Capacity
    /\ drain \in [pc : DrainPcs, seq : {0} \cup Seqs, photo : {0} \cup Photos, stamp : Times]
    /\ nextSeq \in Seqs /\ now \in Times
    /\ \A x \in {on, adding, tokenBad, waiting, net, clock} : x \in BOOLEAN
    /\ taken \in Seq([whole : BOOLEAN, dated : BOOLEAN]) /\ Len(taken) <= MaxPhotos
    /\ server \subseteq [photo : Photos, id : Times \X Seqs]

(* No two photos are filed under one id, even though numbers are used      *)
(* again after a restart (capture_id_for, mirror_spool_start).             *)
IdsUnique == \A f, g \in server : f.id = g.id => f.photo = g.photo

(* A photo whose time was known when it was spooled is filed under one id, *)
(* however often its upload is retried and the device restarted.           *)
FiledOnce ==
    \A f, g \in server : f.photo = g.photo /\ taken[f.photo].dated => f.id = g.id

PhotosIn(S) == {e.photo : e \in S}

(* A photo leaves q/ only when the server has it, or as the oldest of a    *)
(* full spool, or because the drain, having read this very photo, could    *)
(* not read it or was refused it: nothing that went on while the drain was *)
(* without the lock makes it remove another photo, no restart makes an add *)
(* overwrite one.                                                          *)
KeptUntilFiled ==
    [][\A e \in q : e.photo \notin PhotosIn(q') =>
         \/ \E f \in server' : f.photo = e.photo
         \/ adding /\ Full /\ e.seq = Min(SeqsOf(q))
         \/ drain.pc \in {"reject", "discard"} /\ drain.photo = e.photo]_vars

(* Photos reach the server in the order they were taken: none is filed for *)
(* the first time while an older one waits in q/.                          *)
OldestFirst ==
    [][\A f \in server' \ server : \A e \in q : e.photo >= f.photo]_vars

(* Once the network stays, no photo waits for ever: neither a corrupt or   *)
(* refused photo nor an add in progress nor a backoff holds up those       *)
(* behind it, unless the device is off or its credential was refused.      *)
EventuallyLeaves ==
    <>[]net => \A p \in Photos : (p \in PhotosIn(q)) ~> (p \notin PhotosIn(q) \/ tokenBad \/ ~on)
=============================================================================
