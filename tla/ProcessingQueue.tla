-------------------------- MODULE ProcessingQueue --------------------------
(***************************************************************************)
(* The face-processing queue of the server: the table photo_processing,    *)
(* its leases, the hosted and the desktop workers that hold them, and the  *)
(* user's edits (rotate, delete) that change a photo under a worker.       *)
(*                                                                         *)
(* Every SQL transaction is one step.  What lies between two transactions  *)
(* of a handler is not: a download, an inference, the three calls of a     *)
(* rotation or of a deletion are separate steps, and any of them may be    *)
(* the last one its process takes.                                         *)
(*                                                                         *)
(* Time is kept as what is left of it: ttl is the rest of a lease          *)
(* (lease_expires_at minus the present second, zero once it is past), wait *)
(* the rest of a retry's delay (available_at minus the present second).    *)
(***************************************************************************)
EXTENDS Integers, FiniteSets

CONSTANTS
    Photos,       \* capture ids, numbered in the order of captured_at
    Hosted,       \* hosted invocations that may run at once (vision.rs)
    Desktop,      \* desktop processors (processor/src/lib.rs)
    Editors,      \* user requests that may be in progress at once
    Tokens,       \* lease tokens
    LeaseTicks,   \* DEFAULT_LEASE_SECONDS, in ticks
    BackoffTicks, \* the 30 seconds of a retry, in ticks
    MaxAttempts,  \* MAX_HOSTED_ATTEMPTS
    Concurrency,  \* hosted_concurrency()
    ClaimLimit,   \* batch size of a desktop processor
    MaxRev,       \* bound on the JPEGs ever written
    SizeOf,       \* byte size of each JPEG ever written
    None          \* SQL NULL, a missing row, a missing object

Workers == Hosted \cup Desktop
Revs    == 0..MaxRev

ASSUME PhotosAssumption  == Photos \subseteq Nat /\ IsFiniteSet(Photos)
ASSUME WorkersAssumption == Hosted \cap Desktop = {} /\ None \notin Workers
ASSUME TimeAssumption    == LeaseTicks \in Nat \ {0} /\ BackoffTicks \in Nat
ASSUME LimitsAssumption  == /\ MaxAttempts \in Nat \ {0}
                            /\ Concurrency \in Nat \ {0}
                            /\ ClaimLimit \in Nat \ {0}
ASSUME MediaAssumption   == MaxRev \in Nat /\ SizeOf \in [Revs -> Nat]
ASSUME NoneAssumption    == /\ None \notin Nat /\ None \notin Tokens
                            /\ None \notin [photo : Photos, token : Tokens, bytes : Nat]

VARIABLES
    job,      \* photo_processing, a row per photo
    analysis, \* photo_analyses and faces: the JPEG the stored result describes
    catalog,  \* photos: byte_size of a ready row
    media,    \* the object store: the JPEG under the photo's key
    nextRev,  \* the next JPEG to be written
    phase,    \* where each desktop processor is in its drain loop
    held,     \* claims a worker has not begun
    active,   \* the claim a worker is working on
    loaded,   \* the JPEG it has downloaded for that claim
    lost,     \* a hosted run that will report a failure instead of a result
    edit,     \* the user requests in progress
    torn      \* edits that died half way, per photo

queueVars  == <<job, analysis>>
photoVars  == <<catalog, media, nextRev>>
workerVars == <<phase, held, active, loaded, lost>>
editVars   == <<edit, torn>>
vars       == <<queueVars, photoVars, workerVars, editVars>>

NoJob  == [status |-> "none", token |-> None, hosted |-> FALSE, ttl |-> 0,
           wait |-> 0, attempts |-> 0, error |-> FALSE]
NewJob == [NoJob EXCEPT !.status = "pending"]
NoEdit == [op |-> "none", photo |-> None, step |-> "idle", rev |-> None]

Job == [status : {"none", "pending", "leased", "complete", "failed"},
        token : Tokens \cup {None}, hosted : BOOLEAN, ttl : 0..LeaseTicks,
        wait : 0..BackoffTicks, attempts : 0..MaxAttempts, error : BOOLEAN]

Claim == [photo : Photos, token : Tokens, bytes : Nat]

Edit ==
    {NoEdit}
        \cup [op : {"rotate"}, photo : Photos, step : {"read"}, rev : {None}]
        \cup [op : {"rotate"}, photo : Photos, step : {"stored", "recorded"}, rev : Revs]
        \cup [op : {"delete"}, photo : Photos, step : {"mediaGone", "catalogGone"}, rev : {None}]

(* Every variable holds what the code can put there; what is in progress
   in an edit fits its kind.                                               *)
TypeOK ==
    /\ job \in [Photos -> Job]
    /\ analysis \in [Photos -> Revs \cup {None}]
    /\ catalog \in [Photos -> Nat \cup {None}]
    /\ media \in [Photos -> Revs \cup {None}]
    /\ nextRev \in 0..(MaxRev + 1)
    /\ phase \in [Desktop -> {"idle", "asking", "working", "stopping"}]
    /\ held \in [Workers -> SUBSET Claim]
    /\ active \in [Workers -> Claim \cup {None}]
    /\ loaded \in [Workers -> Revs \cup {None}]
    /\ lost \in [Workers -> BOOLEAN]
    /\ edit \in [Editors -> Edit]
    /\ torn \in [Photos -> SUBSET {"rotate", "delete"}]

Init ==
    /\ job = [p \in Photos |-> NoJob]
    /\ analysis = [p \in Photos |-> None]
    /\ catalog = [p \in Photos |-> None]
    /\ media = [p \in Photos |-> None]
    /\ nextRev = 0
    /\ phase = [w \in Desktop |-> "idle"]
    /\ held = [w \in Workers |-> {}]
    /\ active = [w \in Workers |-> None]
    /\ loaded = [w \in Workers |-> None]
    /\ lost = [w \in Workers |-> FALSE]
    /\ edit = [e \in Editors |-> NoEdit]
    /\ torn = [p \in Photos |-> {}]

-----------------------------------------------------------------------------
(* Rows and leases.                                                        *)

(* The mutated forms of this module (named Bug...) each stand for a slip in
   the definition after them; no action uses them.                         *)
BugValidExpired(c) == job[c.photo].status = "leased" /\ job[c.photo].token = c.token

(* The WHERE clause every call of a lease holder has: renew, complete and
   fail act on a row that is leased, under this token, and not expired.    *)
Valid(c) == /\ job[c.photo].status = "leased"
            /\ job[c.photo].token = c.token
            /\ job[c.photo].ttl > 0

Expired(j)   == j.status = "leased" /\ j.ttl = 0
BugClaimableLeased(j) == (j.status = "pending" /\ j.wait = 0) \/ j.status = "leased"
Claimable(j) == (j.status = "pending" /\ j.wait = 0) \/ Expired(j)
BugExhaustedNever(j) == j.attempts >= MaxAttempts /\ Expired(j)
Exhausted(j) == j.attempts >= MaxAttempts /\ (j.status = "pending" \/ Expired(j))

BusyHosted(jobs) ==
    {p \in Photos : jobs[p].status = "leased" /\ jobs[p].hosted /\ jobs[p].ttl > 0}

(* What each call makes of a row.                                          *)
OneMore(n)  == IF n < MaxAttempts THEN n + 1 ELSE MaxAttempts
Less(n)     == IF n > 0 THEN n - 1 ELSE 0
LeaseTo(j, t, hosted) ==
               [j EXCEPT !.status = "leased", !.token = t, !.hosted = hosted,
                         !.ttl = LeaseTicks, !.attempts = OneMore(@), !.error = FALSE]
GiveUp(j)   == [j EXCEPT !.status = "failed", !.token = None, !.hosted = FALSE,
                         !.ttl = 0, !.error = TRUE]
BugExtendAdds(j) == [j EXCEPT !.ttl = @ + LeaseTicks]
Extend(j)   == [j EXCEPT !.ttl = LeaseTicks]
Finish(j)   == [j EXCEPT !.status = "complete", !.hosted = FALSE, !.ttl = 0, !.error = FALSE]
PutBack(j)  == [j EXCEPT !.status = "pending", !.token = None, !.hosted = FALSE, !.ttl = 0,
                         !.wait = BackoffTicks, !.error = TRUE]
BugResetIfComplete(j) == IF j.status # "complete" THEN j ELSE NewJob
ResetJob(j) == IF j.status = "none" THEN j
               ELSE [j EXCEPT !.status = "pending", !.token = None, !.hosted = FALSE,
                              !.ttl = 0, !.wait = 0, !.error = FALSE]
Age(j)      == [j EXCEPT !.ttl = Less(@), !.wait = Less(@)]

(* A hosted claim first gives up on every job that has used its attempts.  *)
FailExhausted(jobs) ==
    [p \in Photos |-> IF Exhausted(jobs[p]) THEN GiveUp(jobs[p]) ELSE jobs[p]]

Candidates(jobs, S) == {p \in S : catalog[p] # None /\ Claimable(jobs[p])}
Earliest(S, n)      == {p \in S : Cardinality({q \in S : q < p}) < n}

(* Tokens somebody still knows for a photo: a new one differs from these.  *)
ClaimsOf(w)  == held[w] \cup ({active[w]} \ {None})
TokensFor(p) == {job[p].token} \cup
                {c.token : c \in {d \in UNION {ClaimsOf(w) : w \in Workers} : d.photo = p}}
FreshToken(p) == CHOOSE t \in Tokens : t \notin TokensFor(p)
CanIssue(S)   == \A p \in S : \E t \in Tokens : t \notin TokensFor(p)

Lease(jobs, S, hosted) ==
    [p \in Photos |-> IF p \in S THEN LeaseTo(jobs[p], FreshToken(p), hosted) ELSE jobs[p]]

ClaimFor(p) == [photo |-> p, token |-> FreshToken(p), bytes |-> catalog[p]]

Renewed(c)   == [job EXCEPT ![c.photo] = Extend(@)]
Completed(c) == [job EXCEPT ![c.photo] = Finish(@)]
Retried(c)   == [job EXCEPT ![c.photo] = PutBack(@)]
BugFailByToken(c) == job' = IF job[c.photo].token = c.token THEN Retried(c) ELSE job
(* fail() with retryable = TRUE, the only value a caller passes.           *)
Fail(c) == job' = IF Valid(c) THEN Retried(c) ELSE job

-----------------------------------------------------------------------------
(* Jobs appear: an upload is finalised, then enqueued; a reconcile inserts *)
(* what an interrupted finalisation left out.                              *)

Publish(p) ==
    /\ catalog[p] = None /\ nextRev <= MaxRev
    /\ media' = [media EXCEPT ![p] = nextRev]
    /\ catalog' = [catalog EXCEPT ![p] = SizeOf[nextRev]]
    /\ nextRev' = nextRev + 1
    /\ UNCHANGED <<queueVars, workerVars, editVars>>

BugMissingAny == {p \in Photos : job[p].status = "none"}
Missing == {p \in Photos : catalog[p] # None /\ job[p].status = "none"}

Inserted(S) == [p \in Photos |-> IF p \in S THEN NewJob ELSE job[p]]

EnqueuePhoto(p) ==
    /\ job' = Inserted(Missing \cap {p})
    /\ UNCHANGED <<analysis, photoVars, workerVars, editVars>>

ReconcileMissing ==
    /\ job' = Inserted(Missing)
    /\ UNCHANGED <<analysis, photoVars, workerVars, editVars>>

-----------------------------------------------------------------------------
(* Claims.                                                                 *)

Idle(w) == held[w] = {} /\ active[w] = None

(* One hosted invocation: S is every photo, or the one photo it was
   notified about.                                                         *)
ClaimHosted(w, S) ==
    /\ Idle(w)
    /\ LET swept  == FailExhausted(job)
           chosen == IF Cardinality(BusyHosted(swept)) < Concurrency
                     THEN Earliest(Candidates(swept, S), 1) ELSE {}
       IN  /\ CanIssue(chosen)
           /\ job' = Lease(swept, chosen, TRUE)
           /\ active' = [active EXCEPT ![w] = IF chosen = {} THEN None
                                              ELSE ClaimFor(CHOOSE p \in chosen : TRUE)]
    /\ UNCHANGED <<analysis, photoVars, phase, held, loaded, lost, editVars>>

(* The claim route of the desktop processor reconciles in one transaction
   and claims in the next.                                                 *)
AskDesktop(w) ==
    /\ phase[w] \in {"idle", "working"} /\ Idle(w)
    /\ job' = Inserted(Missing)
    /\ phase' = [phase EXCEPT ![w] = "asking"]
    /\ UNCHANGED <<analysis, photoVars, held, active, loaded, lost, editVars>>

ClaimDesktop(w) ==
    /\ phase[w] = "asking"
    /\ LET chosen == Earliest(Candidates(job, Photos), ClaimLimit)
       IN  /\ CanIssue(chosen)
           /\ job' = Lease(job, chosen, FALSE)
           /\ held' = [held EXCEPT ![w] = {ClaimFor(p) : p \in chosen}]
           /\ phase' = [phase EXCEPT ![w] = IF chosen = {} THEN "idle" ELSE "working"]
    /\ UNCHANGED <<analysis, photoVars, active, loaded, lost, editVars>>

-----------------------------------------------------------------------------
(* A worker and its active claim.  delivered is FALSE when the call did    *)
(* not reach the server, replied when its answer did not come back; a      *)
(* renewal whose answer is lost extends the lease and counts as refused.   *)

Done(w) ==
    /\ active' = [active EXCEPT ![w] = None]
    /\ loaded' = [loaded EXCEPT ![w] = None]
    /\ lost' = [lost EXCEPT ![w] = FALSE]

(* The desktop renews a claim before it begins it and skips a lost one.    *)
Begin(w, c, delivered) ==
    /\ phase[w] = "working" /\ active[w] = None /\ c \in held[w]
    /\ held' = [held EXCEPT ![w] = @ \ {c}]
    /\ IF delivered /\ Valid(c)
       THEN job' = Renewed(c) /\ active' \in {active, [active EXCEPT ![w] = c]}
       ELSE UNCHANGED <<job, active>>
    /\ UNCHANGED <<analysis, photoVars, phase, loaded, lost, editVars>>

(* A missing object or a changed byte count is a failure, see ReportFailure. *)
Download(w) ==
    /\ active[w] # None /\ loaded[w] = None
    /\ media[active[w].photo] # None
    /\ SizeOf[media[active[w].photo]] = active[w].bytes
    /\ loaded' = [loaded EXCEPT ![w] = media[active[w].photo]]
    /\ UNCHANGED <<queueVars, photoVars, phase, held, active, lost, editVars>>

(* The hosted heartbeat, while the inference runs.                         *)
Heartbeat(w, delivered) ==
    /\ w \in Hosted /\ loaded[w] # None
    /\ IF delivered /\ Valid(active[w])
       THEN job' = Renewed(active[w]) /\ lost' \in {lost, [lost EXCEPT ![w] = TRUE]}
       ELSE lost' = [lost EXCEPT ![w] = TRUE] /\ UNCHANGED job
    /\ UNCHANGED <<analysis, photoVars, phase, held, active, loaded, editVars>>

(* complete(): a hosted run that is refused, or does not hear the answer,
   goes on to report a failure.                                            *)
Commit(w, replied) ==
    /\ loaded[w] # None /\ ~lost[w]
    /\ w \in Desktop => phase[w] = "working"
    /\ IF Valid(active[w])
       THEN /\ job' = Completed(active[w])
            /\ analysis' = [analysis EXCEPT ![active[w].photo] = loaded[w]]
       ELSE UNCHANGED queueVars
    /\ IF w \in Desktop \/ (replied /\ Valid(active[w]))
       THEN Done(w)
       ELSE lost' = [lost EXCEPT ![w] = TRUE] /\ UNCHANGED <<active, loaded>>
    /\ UNCHANGED <<photoVars, phase, held, editVars>>

(* Any error after the claim: the download, the inference, the commit, a
   lost lease, or a desktop processor told to stop.                        *)
ReportFailure(w, delivered) ==
    /\ active[w] # None
    /\ IF delivered THEN Fail(active[w]) ELSE UNCHANGED job
    /\ Done(w)
    /\ UNCHANGED <<analysis, photoVars, phase, held, editVars>>

(* Control-C: the desktop processor gives back what it has not begun.      *)
Stop(w) ==
    /\ phase[w] = "working" /\ ~Idle(w)
    /\ phase' = [phase EXCEPT ![w] = "stopping"]
    /\ UNCHANGED <<queueVars, photoVars, held, active, loaded, lost, editVars>>

ReleaseRemaining(w, c) ==
    /\ phase[w] = "stopping" /\ active[w] = None /\ c \in held[w]
    /\ Fail(c)
    /\ held' = [held EXCEPT ![w] = @ \ {c}]
    /\ UNCHANGED <<analysis, photoVars, phase, active, loaded, lost, editVars>>

Stopped(w) ==
    /\ phase[w] = "stopping" /\ Idle(w)
    /\ phase' = [phase EXCEPT ![w] = "idle"]
    /\ UNCHANGED <<queueVars, photoVars, held, active, loaded, lost, editVars>>

(* A killed process, a hosted function past its time limit.                *)
WorkerDies(w) ==
    /\ ~Idle(w)
    /\ held' = [held EXCEPT ![w] = {}]
    /\ phase' = [d \in Desktop |-> IF d = w THEN "idle" ELSE phase[d]]
    /\ Done(w)
    /\ UNCHANGED <<queueVars, photoVars, editVars>>

-----------------------------------------------------------------------------
(* The user's edits.                                                       *)

EditIs(e, op, step) == edit[e].op = op /\ edit[e].step = step

(* PhotoStore::rotate reads the object and writes the rotated one back;
   nothing ties the two together.                                          *)
RotateRead(e, p) ==
    /\ edit[e] = NoEdit /\ media[p] # None
    /\ edit' = [edit EXCEPT ![e] = [op |-> "rotate", photo |-> p, step |-> "read", rev |-> None]]
    /\ UNCHANGED <<queueVars, photoVars, workerVars, torn>>

RotateStore(e) ==
    /\ EditIs(e, "rotate", "read") /\ nextRev <= MaxRev
    /\ media' = [media EXCEPT ![edit[e].photo] = nextRev]
    /\ nextRev' = nextRev + 1
    /\ edit' = [edit EXCEPT ![e] = [@ EXCEPT !.step = "stored", !.rev = nextRev]]
    /\ UNCHANGED <<queueVars, catalog, workerVars, torn>>

(* record_rotation fails, and the request ends, when no ready row is left. *)
RotateRecord(e) ==
    /\ EditIs(e, "rotate", "stored")
    /\ IF catalog[edit[e].photo] # None
       THEN /\ catalog' = [catalog EXCEPT ![edit[e].photo] = SizeOf[edit[e].rev]]
            /\ edit' = [edit EXCEPT ![e].step = "recorded"]
       ELSE /\ edit' = [edit EXCEPT ![e] = NoEdit]
            /\ UNCHANGED catalog
    /\ UNCHANGED <<queueVars, media, nextRev, workerVars, torn>>

ResetPhoto(e) ==
    /\ EditIs(e, "rotate", "recorded")
    /\ job' = [job EXCEPT ![edit[e].photo] = ResetJob(@)]
    /\ analysis' = [analysis EXCEPT ![edit[e].photo] = None]
    /\ torn' = [torn EXCEPT ![edit[e].photo] = @ \ {"rotate"}]
    /\ edit' = [edit EXCEPT ![e] = NoEdit]
    /\ UNCHANGED <<photoVars, workerVars>>

(* On R2, where deleting a missing object succeeds; the local store answers
   404 there and the request ends.                                         *)
DeleteMedia(e, p) ==
    /\ edit[e] = NoEdit
    /\ media' = [media EXCEPT ![p] = None]
    /\ edit' = [edit EXCEPT ![e] = [op |-> "delete", photo |-> p, step |-> "mediaGone", rev |-> None]]
    /\ UNCHANGED <<queueVars, catalog, nextRev, workerVars, torn>>

DeleteCatalog(e) ==
    /\ EditIs(e, "delete", "mediaGone")
    /\ catalog' = [catalog EXCEPT ![edit[e].photo] = None]
    /\ edit' = [edit EXCEPT ![e].step = "catalogGone"]
    /\ UNCHANGED <<queueVars, media, nextRev, workerVars, torn>>

DeletePhoto(e) ==
    /\ EditIs(e, "delete", "catalogGone")
    /\ job' = [job EXCEPT ![edit[e].photo] = NoJob]
    /\ analysis' = [analysis EXCEPT ![edit[e].photo] = None]
    /\ torn' = [torn EXCEPT ![edit[e].photo] = {}]
    /\ edit' = [edit EXCEPT ![e] = NoEdit]
    /\ UNCHANGED <<photoVars, workerVars>>

(* The request dies between two of its calls, or one of them fails.  A
   rotation that has stored nothing leaves no trace.                       *)
EditDies(e) ==
    /\ edit[e] # NoEdit
    /\ edit' = [edit EXCEPT ![e] = NoEdit]
    /\ torn' = IF edit[e].step = "read" THEN torn
               ELSE [torn EXCEPT ![edit[e].photo] = @ \cup {edit[e].op}]
    /\ UNCHANGED <<queueVars, photoVars, workerVars>>

-----------------------------------------------------------------------------
(* One tick of every clock.                                                *)
Tick ==
    /\ job' = [p \in Photos |-> Age(job[p])]
    /\ UNCHANGED <<analysis, photoVars, workerVars, editVars>>

WorkerStep(w) ==
    \/ Download(w)
    \/ \E delivered \in BOOLEAN : ReportFailure(w, delivered)
    \/ \E replied \in BOOLEAN : Commit(w, replied)

DesktopStep(w) ==
    \/ AskDesktop(w)
    \/ ClaimDesktop(w)
    \/ \E c \in held[w], delivered \in BOOLEAN : Begin(w, c, delivered)
    \/ Stop(w)
    \/ \E c \in held[w] : ReleaseRemaining(w, c)
    \/ Stopped(w)

EditStep(e) ==
    \/ RotateStore(e)
    \/ RotateRecord(e)
    \/ ResetPhoto(e)
    \/ DeleteCatalog(e)
    \/ DeletePhoto(e)

Next ==
    \/ Tick
    \/ ReconcileMissing
    \/ \E p \in Photos : Publish(p) \/ EnqueuePhoto(p)
    \/ \E w \in Hosted, S \in {Photos} \cup {{p} : p \in Photos} : ClaimHosted(w, S)
    \/ \E w \in Hosted, delivered \in BOOLEAN : Heartbeat(w, delivered)
    \/ \E w \in Workers : WorkerStep(w) \/ WorkerDies(w)
    \/ \E w \in Desktop : DesktopStep(w)
    \/ \E e \in Editors, p \in Photos : RotateRead(e, p) \/ DeleteMedia(e, p)
    \/ \E e \in Editors : EditStep(e) \/ EditDies(e)

Spec == Init /\ [][Next]_vars

(* The cron runs every five minutes and dispatches a hosted run; a process
   that is not killed takes its next step; clocks advance.                 *)
Fairness ==
    /\ WF_vars(Tick)
    /\ WF_vars(ReconcileMissing)
    /\ \A w \in Hosted : WF_vars(ClaimHosted(w, Photos)) /\ WF_vars(WorkerStep(w))

FairSpec == Spec /\ Fairness

-----------------------------------------------------------------------------
(* An edit of p is past its first write and not yet at its last.           *)
Editing(p, op) ==
    \E e \in Editors : /\ edit[e].photo = p /\ edit[e].op = op
                       /\ edit[e].step # "read"
Unsettled(p) == torn[p] # {} \/ \E op \in {"rotate", "delete"} : Editing(p, op)

(* A stored analysis describes the JPEG the gallery shows: no result
   computed from the bytes before a rotation, or before a deletion and a
   new upload under the same id, is ever filed for the bytes after it
   (claim_selected, complete, reset_photo, delete_photo).  Only an edit
   that is still running, or that died between its calls, can leave the
   two apart.                                                              *)
AnalysisFresh ==
    \A p \in Photos : job[p].status = "complete" /\ ~Unsettled(p) => analysis[p] = media[p]

(* A deleted photo leaves neither a job nor a result behind, whatever a
   worker, an enqueue or a reconcile did meanwhile, once the deletion has
   run to its end (delete_photo).                                          *)
NoOrphanJob ==
    \A p \in Photos :
        catalog[p] = None /\ ~Editing(p, "delete") /\ "delete" \notin torn[p]
            => job[p].status = "none" /\ analysis[p] = None

(* Never more unexpired hosted leases than the configured concurrency,
   across expiry, renewal and claims of several invocations
   (claim_hosted, renew).                                                  *)
HostedBound == Cardinality(BusyHosted(job)) <= Concurrency

(* A lease that has not expired is never handed to a second worker: its
   token may be given up or cleared, never replaced (claim_selected).      *)
LiveLeaseKept ==
    [][\A p \in Photos :
        job[p].status = "leased" /\ job[p].ttl > 0 /\ job'[p].token # job[p].token
            => job'[p].token = None]_vars

(* A completed job and its result are withdrawn only by a rotation's reset
   or a deletion: a late failure report, a late second result, a claim or a
   sweep of exhausted jobs leaves them alone (complete, fail, claim).      *)
ResultKept ==
    [][\A p \in Photos :
        job[p].status = "complete" /\ <<job'[p].status, analysis'[p]>> # <<"complete", analysis[p]>>
            => \E e \in Editors : ResetPhoto(e) \/ DeletePhoto(e)]_vars

(* The job of every photo in the catalog ends complete or failed: neither a
   photo that fails each time, nor a killed worker, nor a full hosted gate
   holds up the queue for ever (MAX_HOSTED_ATTEMPTS, claim_hosted).        *)
EventuallySettled ==
    \A p \in Photos : []<>(catalog[p] # None => job[p].status \in {"complete", "failed"})
=============================================================================
