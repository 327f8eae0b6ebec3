----------------------- MODULE ProcessingQueueProofs -----------------------
(***************************************************************************)
(* Theorems about ProcessingQueue, for every value of its constants.       *)
(***************************************************************************)
EXTENDS ProcessingQueue, FiniteSetTheorems, TLAPS

USE DEF queueVars, photoVars, workerVars, editVars

(* What a worker has in hand hangs together: bytes only for an active claim. *)
WorkerOK == \A w \in Workers : loaded[w] # None => active[w] # None

TypeInv == TypeOK /\ WorkerOK

LEMMA Ranges ==
    /\ 0 \in 0..LeaseTicks /\ LeaseTicks \in 0..LeaseTicks
    /\ 0 \in 0..BackoffTicks /\ BackoffTicks \in 0..BackoffTicks
    /\ 0 \in 0..MaxAttempts /\ \A n \in 0..MaxAttempts : OneMore(n) \in 0..MaxAttempts
    /\ \A n \in 0..LeaseTicks : Less(n) \in 0..LeaseTicks
    /\ \A n \in 0..BackoffTicks : Less(n) \in 0..BackoffTicks
  BY TimeAssumption, LimitsAssumption DEF OneMore, Less

(* A new row is a row, and so is a row any call has been through.          *)
LEMMA JobOps ==
    /\ NoJob \in Job /\ NewJob \in Job
    /\ \A j \in Job :
        /\ ResetJob(j) \in Job /\ GiveUp(j) \in Job /\ Finish(j) \in Job
        /\ PutBack(j) \in Job /\ Extend(j) \in Job /\ Age(j) \in Job
        /\ \A t \in Tokens, h \in BOOLEAN : LeaseTo(j, t, h) \in Job
  <1>1. NoJob \in Job /\ NewJob \in Job
    BY Ranges DEF NoJob, NewJob, Job
  <1>2. ASSUME NEW j \in Job PROVE ResetJob(j) \in Job
    BY Ranges DEF ResetJob, Job
  <1>3. ASSUME NEW j \in Job PROVE GiveUp(j) \in Job
    BY Ranges DEF GiveUp, Job
  <1>4. ASSUME NEW j \in Job PROVE Finish(j) \in Job
    BY Ranges DEF Finish, Job
  <1>5. ASSUME NEW j \in Job PROVE PutBack(j) \in Job
    BY Ranges DEF PutBack, Job
  <1>6. ASSUME NEW j \in Job PROVE Extend(j) \in Job /\ Age(j) \in Job
    BY Ranges DEF Extend, Age, Job
  <1>7. ASSUME NEW j \in Job, NEW t \in Tokens, NEW h \in BOOLEAN
        PROVE  LeaseTo(j, t, h) \in Job
    BY Ranges DEF LeaseTo, Job
  <1>8. QED
    BY <1>1, <1>2, <1>3, <1>4, <1>5, <1>6, <1>7

(* The fields of a row after each call.                                    *)
LEMMA RowFields ==
    /\ NoJob.status = "none" /\ NoJob.token = None
    /\ NewJob.status = "pending" /\ NewJob.token = None
    /\ \A j \in Job :
        /\ j.status # "none" => ResetJob(j).status = "pending" /\ ResetJob(j).token = None
        /\ j.status = "none" => ResetJob(j) = j
        /\ GiveUp(j).status = "failed" /\ GiveUp(j).token = None
        /\ Finish(j).status = "complete" /\ Finish(j).token = j.token
        /\ PutBack(j).status = "pending" /\ PutBack(j).token = None
        /\ Extend(j).status = j.status /\ Extend(j).token = j.token /\ Extend(j).hosted = j.hosted
        /\ Age(j).status = j.status /\ Age(j).token = j.token /\ Age(j).hosted = j.hosted
        /\ Age(j).ttl = Less(j.ttl)
        /\ \A t \in Tokens, h \in BOOLEAN :
              LeaseTo(j, t, h).status = "leased" /\ LeaseTo(j, t, h).token = t
  <1>1. /\ NoJob.status = "none" /\ NoJob.token = None
        /\ NewJob.status = "pending" /\ NewJob.token = None
    BY DEF NoJob, NewJob
  <1>2. ASSUME NEW j \in Job, j.status # "none"
        PROVE  ResetJob(j).status = "pending" /\ ResetJob(j).token = None
    BY <1>2 DEF ResetJob, Job
  <1>3. ASSUME NEW j \in Job
        PROVE  /\ GiveUp(j).status = "failed" /\ GiveUp(j).token = None
               /\ Finish(j).status = "complete" /\ Finish(j).token = j.token
               /\ PutBack(j).status = "pending" /\ PutBack(j).token = None
    BY DEF GiveUp, Finish, PutBack, Job
  <1>4. ASSUME NEW j \in Job
        PROVE  /\ Extend(j).status = j.status /\ Extend(j).token = j.token
               /\ Extend(j).hosted = j.hosted
               /\ Age(j).status = j.status /\ Age(j).token = j.token
               /\ Age(j).hosted = j.hosted /\ Age(j).ttl = Less(j.ttl)
    BY DEF Extend, Age, Job
  <1>5. ASSUME NEW j \in Job, NEW t \in Tokens, NEW h \in BOOLEAN
        PROVE  LeaseTo(j, t, h).status = "leased" /\ LeaseTo(j, t, h).token = t
    BY DEF LeaseTo, Job
  <1>6. QED
    BY <1>1, <1>2, <1>3, <1>4, <1>5 DEF ResetJob

(* A fresh token is a token, and differs from every token known.           *)
LEMMA FreshTokenIsFresh ==
    ASSUME NEW S, CanIssue(S), NEW p \in S
    PROVE  FreshToken(p) \in Tokens /\ FreshToken(p) \notin TokensFor(p)
  BY DEF CanIssue, FreshToken

(* The operators on the whole table keep it a table of jobs.               *)
LEMMA TableOps ==
    ASSUME job \in [Photos -> Job], NEW S
    PROVE  /\ Inserted(S) \in [Photos -> Job]
           /\ FailExhausted(job) \in [Photos -> Job]
           /\ \A jobs \in [Photos -> Job], h \in BOOLEAN :
                  CanIssue(S) => Lease(jobs, S, h) \in [Photos -> Job]
  <1>1. Inserted(S) \in [Photos -> Job]
    BY JobOps DEF Inserted
  <1>2. FailExhausted(job) \in [Photos -> Job]
    BY JobOps DEF FailExhausted
  <1>3. ASSUME NEW jobs \in [Photos -> Job], NEW h \in BOOLEAN, CanIssue(S)
        PROVE  Lease(jobs, S, h) \in [Photos -> Job]
    <2>1. ASSUME NEW p \in Photos PROVE Lease(jobs, S, h)[p] \in Job
      <3>1. CASE p \in S
        BY <1>3, <3>1, FreshTokenIsFresh, JobOps DEF Lease
      <3>2. CASE p \notin S
        BY <3>2 DEF Lease
      <3>3. QED
        BY <3>1, <3>2
    <2>2. QED
      BY <2>1 DEF Lease
  <1>4. QED
    BY <1>1, <1>2, <1>3

(* The calls of a lease holder keep the table a table of jobs.             *)
LEMMA HolderOps ==
    ASSUME job \in [Photos -> Job], NEW c \in Claim
    PROVE  /\ Renewed(c) \in [Photos -> Job]
           /\ Completed(c) \in [Photos -> Job]
           /\ Retried(c) \in [Photos -> Job]
  <1>1. c.photo \in Photos
    BY DEF Claim
  <1>2. Renewed(c) \in [Photos -> Job]
    BY <1>1, JobOps DEF Renewed
  <1>3. Completed(c) \in [Photos -> Job]
    BY <1>1, JobOps DEF Completed
  <1>4. Retried(c) \in [Photos -> Job]
    BY <1>1, JobOps DEF Retried
  <1>5. QED
    BY <1>2, <1>3, <1>4

LEMMA TypeInit == Init => TypeInv
  <1> SUFFICES ASSUME Init PROVE TypeInv
    OBVIOUS
  <1>1. nextRev \in 0..(MaxRev + 1) /\ NoEdit \in Edit
    BY MediaAssumption DEF Init, Edit
  <1>2. job \in [Photos -> Job]
    BY JobOps DEF Init
  <1>3. QED
    BY <1>1, <1>2 DEF Init, TypeInv, TypeOK, WorkerOK

LEMMA TypeNext == TypeInv /\ [Next]_vars => TypeInv'
  <1> SUFFICES ASSUME TypeInv, [Next]_vars PROVE TypeInv'
    OBVIOUS
  <1> USE DEF TypeInv, TypeOK, WorkerOK
  <1>1. CASE Tick
    <2>1. \A p \in Photos : Age(job[p]) \in Job
      BY JobOps
    <2>2. job' \in [Photos -> Job]
      BY <1>1, <2>1 DEF Tick
    <2>3. QED
      BY <1>1, <2>2 DEF Tick
  <1>2. CASE ReconcileMissing
    BY <1>2, TableOps DEF ReconcileMissing
  <1>3. ASSUME NEW p \in Photos, Publish(p) PROVE TypeInv'
    BY <1>3, MediaAssumption DEF Publish, Revs
  <1>4. ASSUME NEW p \in Photos, EnqueuePhoto(p) PROVE TypeInv'
    BY <1>4, TableOps DEF EnqueuePhoto
  <1>5. ASSUME NEW w \in Hosted, NEW S \in {Photos} \cup {{p} : p \in Photos}, ClaimHosted(w, S)
        PROVE  TypeInv'
    <2> DEFINE swept  == FailExhausted(job)
               chosen == IF Cardinality(BusyHosted(swept)) < Concurrency
                         THEN Earliest(Candidates(swept, S), 1) ELSE {}
    <2>1. w \in Workers
      BY DEF Workers
    <2>2. chosen \subseteq Photos /\ \A p \in chosen : catalog[p] \in Nat
      BY <1>5 DEF Earliest, Candidates
    <2>3. CanIssue(chosen)
      BY <1>5 DEF ClaimHosted
    <2>4. job' \in [Photos -> Job]
      <3> HIDE DEF swept, chosen
      <3>1. job' = Lease(swept, chosen, TRUE)
        BY <1>5 DEF ClaimHosted, swept, chosen
      <3>2. swept \in [Photos -> Job]
        BY TableOps DEF swept
      <3>3. QED
        BY <2>3, <3>1, <3>2, TableOps
    <2>5. active' \in [Workers -> Claim \cup {None}]
      <3> HIDE DEF swept, chosen
      <3>1. \A p \in chosen : ClaimFor(p) \in Claim
        BY <2>2, <2>3, FreshTokenIsFresh DEF ClaimFor, Claim
      <3>2. active' = [active EXCEPT ![w] = IF chosen = {} THEN None
                                            ELSE ClaimFor(CHOOSE p \in chosen : TRUE)]
        BY <1>5 DEF ClaimHosted, swept, chosen
      <3>3. chosen # {} => (CHOOSE p \in chosen : TRUE) \in chosen
        OBVIOUS
      <3>4. QED
        BY <3>1, <3>2, <3>3
    <2>6. WorkerOK'
      <3>1. loaded[w] = None
        BY <1>5, <2>1 DEF ClaimHosted, Idle
      <3>2. QED
        BY <1>5, <2>1, <3>1 DEF ClaimHosted
    <2>7. QED
      BY <1>5, <2>4, <2>5, <2>6 DEF ClaimHosted
  <1>6. ASSUME NEW w \in Hosted, NEW delivered \in BOOLEAN, Heartbeat(w, delivered)
        PROVE  TypeInv'
    <2>1. w \in Workers /\ active[w] \in Claim
      BY <1>6 DEF Heartbeat, Workers
    <2>2. job' \in [Photos -> Job]
      BY <1>6, <2>1, HolderOps DEF Heartbeat
    <2>3. QED
      BY <1>6, <2>1, <2>2 DEF Heartbeat
  <1>7. ASSUME NEW w \in Workers, WorkerStep(w) PROVE TypeInv'
    <2>1. CASE Download(w)
      BY <2>1 DEF Download, Claim
    <2>2. ASSUME NEW delivered \in BOOLEAN, ReportFailure(w, delivered) PROVE TypeInv'
      BY <2>2, HolderOps DEF ReportFailure, Fail, Done
    <2>3. ASSUME NEW replied \in BOOLEAN, Commit(w, replied) PROVE TypeInv'
      <3>1. active[w] \in Claim /\ active[w].photo \in Photos
        BY <2>3 DEF Commit, Claim
      <3>2. job' \in [Photos -> Job] /\ analysis' \in [Photos -> Revs \cup {None}]
        BY <2>3, <3>1, HolderOps DEF Commit
      <3>3. QED
        BY <2>3, <3>2 DEF Commit, Done
    <2>4. QED
      BY <1>7, <2>1, <2>2, <2>3 DEF WorkerStep
  <1>8. ASSUME NEW w \in Workers, WorkerDies(w) PROVE TypeInv'
    BY <1>8 DEF WorkerDies, Done
  <1>9. ASSUME NEW w \in Desktop, DesktopStep(w) PROVE TypeInv'
    <2> w \in Workers
      BY DEF Workers
    <2>1. CASE AskDesktop(w)
      BY <2>1, TableOps DEF AskDesktop
    <2>2. CASE ClaimDesktop(w)
      <3> DEFINE chosen == Earliest(Candidates(job, Photos), ClaimLimit)
      <3>1. chosen \subseteq Photos /\ \A p \in chosen : catalog[p] \in Nat
        BY DEF Earliest, Candidates
      <3>2. CanIssue(chosen) /\ job' = Lease(job, chosen, FALSE)
        BY <2>2 DEF ClaimDesktop
      <3>3. held' = [held EXCEPT ![w] = {ClaimFor(p) : p \in chosen}]
        BY <2>2 DEF ClaimDesktop
      <3> HIDE DEF chosen
      <3>4. \A p \in chosen : ClaimFor(p) \in Claim
        BY <3>1, <3>2, FreshTokenIsFresh DEF ClaimFor, Claim
      <3>5. job' \in [Photos -> Job]
        BY <3>2, TableOps
      <3>6. {ClaimFor(p) : p \in chosen} \in SUBSET Claim
        BY <3>4
      <3>7. held' \in [Workers -> SUBSET Claim]
        BY <3>3, <3>6
      <3>8. QED
        BY <2>2, <3>5, <3>7 DEF ClaimDesktop
    <2>3. ASSUME NEW c \in held[w], NEW delivered \in BOOLEAN, Begin(w, c, delivered)
          PROVE  TypeInv'
      BY <2>3, HolderOps DEF Begin
    <2>4. CASE Stop(w)
      BY <2>4 DEF Stop
    <2>5. ASSUME NEW c \in held[w], ReleaseRemaining(w, c) PROVE TypeInv'
      BY <2>5, HolderOps DEF ReleaseRemaining, Fail
    <2>6. CASE Stopped(w)
      BY <2>6 DEF Stopped
    <2>7. QED
      BY <1>9, <2>1, <2>2, <2>3, <2>4, <2>5, <2>6 DEF DesktopStep
  <1>10. ASSUME NEW e \in Editors, NEW p \in Photos, RotateRead(e, p) \/ DeleteMedia(e, p)
         PROVE  TypeInv'
    BY <1>10 DEF RotateRead, DeleteMedia, Edit
  <1>11. ASSUME NEW e \in Editors, EditStep(e) PROVE TypeInv'
    <2>1. edit[e] # NoEdit => edit[e].photo \in Photos
      BY DEF Edit
    <2>2. CASE RotateStore(e)
      <3>1. nextRev \in Revs /\ nextRev + 1 \in 0..(MaxRev + 1)
        BY <2>2, MediaAssumption DEF RotateStore, Revs
      <3>2. edit[e].op = "rotate" /\ edit[e].photo \in Photos
        BY <2>1, <2>2 DEF RotateStore, EditIs, NoEdit
      <3>3. edit[e] \in [op : {"rotate"}, photo : Photos, step : {"read"}, rev : {None}]
        BY <2>2 DEF RotateStore, EditIs, Edit, NoEdit
      <3>4. [edit[e] EXCEPT !.step = "stored", !.rev = nextRev] \in Edit
        BY <3>1, <3>3 DEF Edit
      <3>5. QED
        BY <2>2, <3>1, <3>2, <3>4 DEF RotateStore
    <2>3. CASE RotateRecord(e)
      BY <2>1, <2>3, MediaAssumption DEF RotateRecord, EditIs, Edit, NoEdit
    <2>4. CASE ResetPhoto(e)
      BY <2>1, <2>4, JobOps DEF ResetPhoto, EditIs, Edit, NoEdit
    <2>5. CASE DeleteCatalog(e)
      BY <2>1, <2>5 DEF DeleteCatalog, EditIs, Edit, NoEdit
    <2>6. CASE DeletePhoto(e)
      BY <2>1, <2>6, JobOps DEF DeletePhoto, EditIs, Edit, NoEdit
    <2>7. QED
      BY <1>11, <2>2, <2>3, <2>4, <2>5, <2>6 DEF EditStep
  <1>12. ASSUME NEW e \in Editors, EditDies(e) PROVE TypeInv'
    BY <1>12 DEF EditDies, Edit, NoEdit
  <1>13. CASE UNCHANGED vars
    BY <1>13 DEF vars
  <1>14. QED
    BY <1>1, <1>2, <1>3, <1>4, <1>5, <1>6, <1>7, <1>8, <1>9, <1>10, <1>11, <1>12, <1>13 DEF Next

-----------------------------------------------------------------------------
(* What a step may do to one row and its result.                           *)

SameResult(p) == analysis'[p] = analysis[p]

Same(p) == /\ job'[p].status = job[p].status /\ job'[p].token = job[p].token
           /\ SameResult(p)

Appears(p) == /\ catalog[p] # None /\ job[p].status = "none"
              /\ job'[p].status = "pending" /\ SameResult(p)

Taken(p) == /\ catalog[p] # None /\ Claimable(job[p])
            /\ job'[p].status = "leased" /\ job'[p].token \notin TokensFor(p)
            /\ SameResult(p)

Dropped(p) == /\ job[p].status \in {"pending", "leased"}
              /\ job'[p].status \in {"pending", "failed"} /\ job'[p].token = None
              /\ SameResult(p)

Finished(p) == \E w \in Workers :
    /\ loaded[w] # None /\ Valid(active[w]) /\ active[w].photo = p
    /\ job'[p].status = "complete" /\ job'[p].token = job[p].token
    /\ analysis'[p] = loaded[w]

Edited(p) ==
    /\ \E e \in Editors : ResetPhoto(e) \/ DeletePhoto(e)
    /\ job'[p].status \in {"none", "pending"}
    /\ job[p].status # "none" => job'[p].token = None
    /\ job[p].status = "none" => job'[p].status = "none"
    /\ analysis'[p] = None

RowStep(p) == \/ Same(p) \/ Appears(p) \/ Taken(p) \/ Dropped(p)
              \/ Finished(p) \/ Edited(p)

LEMMA InsertedRows ==
    ASSUME TypeInv, NEW S, job' = Inserted(S), S \subseteq Missing, UNCHANGED analysis,
           NEW p \in Photos
    PROVE  RowStep(p)
  BY RowFields DEF TypeInv, TypeOK, Inserted, Missing, RowStep, Same, Appears, SameResult

LEMMA LeasedRows ==
    ASSUME TypeInv, NEW S, CanIssue(S), NEW jobs \in [Photos -> Job], NEW h \in BOOLEAN,
           S \subseteq Candidates(jobs, Photos), job' = Lease(jobs, S, h), UNCHANGED analysis,
           NEW p \in Photos, jobs[p] = job[p] \/ jobs = FailExhausted(job)
    PROVE  RowStep(p)
  <1> USE DEF TypeInv, TypeOK
  <1>1. CASE p \in S
    <2>1. job'[p].status = "leased" /\ job'[p].token = FreshToken(p)
      BY <1>1, FreshTokenIsFresh, RowFields DEF Lease
    <2>2. catalog[p] # None /\ Claimable(jobs[p])
      BY <1>1 DEF Candidates
    <2>3. jobs[p] = job[p]
      BY <2>2, RowFields DEF Claimable, Expired, FailExhausted
    <2>4. QED
      BY <1>1, <2>1, <2>2, <2>3, FreshTokenIsFresh DEF RowStep, Taken, SameResult
  <1>2. CASE p \notin S
    <2>1. job'[p] = jobs[p]
      BY <1>2 DEF Lease
    <2>2. job'[p] = job[p] \/ (Exhausted(job[p]) /\ job'[p] = GiveUp(job[p]))
      BY <2>1 DEF FailExhausted
    <2>3. QED
      BY <2>2, RowFields DEF RowStep, Same, Dropped, SameResult, Exhausted, Expired
  <1>3. QED
    BY <1>1, <1>2

LEMMA FailedRows ==
    ASSUME TypeInv, NEW c \in Claim, Fail(c), UNCHANGED analysis, NEW p \in Photos
    PROVE  RowStep(p)
  BY RowFields DEF TypeInv, TypeOK, Fail, Retried, Valid, Claim, RowStep, Same, Dropped, SameResult

LEMMA RenewedRows ==
    ASSUME TypeInv, NEW c \in Claim, job' = Renewed(c), UNCHANGED analysis, NEW p \in Photos
    PROVE  RowStep(p)
  BY RowFields DEF TypeInv, TypeOK, Renewed, Claim, RowStep, Same, SameResult

LEMMA KeptRows ==
    ASSUME UNCHANGED queueVars, NEW p \in Photos
    PROVE  RowStep(p)
  BY DEF RowStep, Same, SameResult

(* A step leaves the row of a photo as it is or changes it in one of five
   ways, each with its own condition.                                      *)
LEMMA RowSteps ==
    ASSUME TypeInv, [Next]_vars, NEW p \in Photos
    PROVE  RowStep(p)
  <1> USE DEF TypeInv, TypeOK, WorkerOK
  <1>1. CASE Tick
    BY <1>1, RowFields DEF Tick, RowStep, Same, SameResult
  <1>2. CASE ReconcileMissing
    BY <1>2, InsertedRows DEF ReconcileMissing
  <1>3. ASSUME NEW q \in Photos, Publish(q) PROVE RowStep(p)
    BY <1>3, KeptRows DEF Publish
  <1>4. ASSUME NEW q \in Photos, EnqueuePhoto(q) PROVE RowStep(p)
    BY <1>4, InsertedRows DEF EnqueuePhoto
  <1>5. ASSUME NEW w \in Hosted, NEW S \in {Photos} \cup {{q} : q \in Photos}, ClaimHosted(w, S)
        PROVE  RowStep(p)
    <2> DEFINE swept  == FailExhausted(job)
               chosen == IF Cardinality(BusyHosted(swept)) < Concurrency
                         THEN Earliest(Candidates(swept, S), 1) ELSE {}
    <2>1. chosen \subseteq Candidates(swept, Photos) /\ swept \in [Photos -> Job]
      BY TableOps DEF Earliest, Candidates
    <2>2. CanIssue(chosen) /\ job' = Lease(swept, chosen, TRUE) /\ UNCHANGED analysis
      BY <1>5 DEF ClaimHosted
    <2> HIDE DEF chosen
    <2>3. QED
      BY <2>1, <2>2, LeasedRows
  <1>6. ASSUME NEW w \in Hosted, NEW delivered \in BOOLEAN, Heartbeat(w, delivered)
        PROVE  RowStep(p)
    <2>1. active[w] \in Claim
      BY <1>6 DEF Heartbeat, Workers
    <2>2. QED
      BY <1>6, <2>1, RenewedRows, KeptRows DEF Heartbeat
  <1>7. ASSUME NEW w \in Workers, WorkerStep(w) PROVE RowStep(p)
    <2>1. CASE Download(w)
      BY <2>1, KeptRows DEF Download
    <2>2. ASSUME NEW delivered \in BOOLEAN, ReportFailure(w, delivered) PROVE RowStep(p)
      BY <2>2, FailedRows, KeptRows DEF ReportFailure
    <2>3. ASSUME NEW replied \in BOOLEAN, Commit(w, replied) PROVE RowStep(p)
      <3>1. active[w] \in Claim /\ active[w].photo \in Photos
        BY <2>3 DEF Commit, Claim
      <3>2. CASE ~Valid(active[w])
        BY <2>3, <3>2, KeptRows DEF Commit
      <3>3. CASE Valid(active[w]) /\ p # active[w].photo
        BY <2>3, <3>1, <3>3 DEF Commit, Completed, RowStep, Same, SameResult
      <3>4. CASE Valid(active[w]) /\ p = active[w].photo
        <4>1. job'[p] = Finish(job[p]) /\ analysis'[p] = loaded[w] /\ loaded[w] # None
          BY <2>3, <3>1, <3>4 DEF Commit, Completed
        <4>2. QED
          BY <3>4, <4>1, RowFields DEF RowStep, Finished
      <3>5. QED
        BY <3>2, <3>3, <3>4
    <2>4. QED
      BY <1>7, <2>1, <2>2, <2>3 DEF WorkerStep
  <1>8. ASSUME NEW w \in Workers, WorkerDies(w) PROVE RowStep(p)
    BY <1>8, KeptRows DEF WorkerDies
  <1>9. ASSUME NEW w \in Desktop, DesktopStep(w) PROVE RowStep(p)
    <2> w \in Workers
      BY DEF Workers
    <2>1. CASE AskDesktop(w)
      BY <2>1, InsertedRows DEF AskDesktop
    <2>2. CASE ClaimDesktop(w)
      <3> DEFINE chosen == Earliest(Candidates(job, Photos), ClaimLimit)
      <3>1. chosen \subseteq Candidates(job, Photos)
        BY DEF Earliest
      <3>2. CanIssue(chosen) /\ job' = Lease(job, chosen, FALSE) /\ UNCHANGED analysis
        BY <2>2 DEF ClaimDesktop
      <3> HIDE DEF chosen
      <3>3. QED
        BY <3>1, <3>2, LeasedRows
    <2>3. ASSUME NEW c \in held[w], NEW delivered \in BOOLEAN, Begin(w, c, delivered)
          PROVE  RowStep(p)
      BY <2>3, RenewedRows, KeptRows DEF Begin
    <2>4. CASE Stop(w) \/ Stopped(w)
      BY <2>4, KeptRows DEF Stop, Stopped
    <2>5. ASSUME NEW c \in held[w], ReleaseRemaining(w, c) PROVE RowStep(p)
      BY <2>5, FailedRows DEF ReleaseRemaining
    <2>6. QED
      BY <1>9, <2>1, <2>2, <2>3, <2>4, <2>5 DEF DesktopStep
  <1>10. ASSUME NEW e \in Editors, NEW q \in Photos, RotateRead(e, q) \/ DeleteMedia(e, q)
         PROVE  RowStep(p)
    BY <1>10, KeptRows DEF RotateRead, DeleteMedia
  <1>11. ASSUME NEW e \in Editors, EditStep(e) PROVE RowStep(p)
    <2>1. CASE RotateStore(e) \/ RotateRecord(e) \/ DeleteCatalog(e)
      BY <2>1, KeptRows DEF RotateStore, RotateRecord, DeleteCatalog
    <2>2. CASE ResetPhoto(e) \/ DeletePhoto(e)
      <3>1. CASE p # edit[e].photo
        BY <2>2, <3>1 DEF ResetPhoto, DeletePhoto, RowStep, Same, SameResult
      <3>2. CASE p = edit[e].photo
        <4>1. /\ job'[p] = ResetJob(job[p]) \/ job'[p] = NoJob
              /\ analysis'[p] = None
          BY <2>2, <3>2 DEF ResetPhoto, DeletePhoto
        <4>2. QED
          BY <2>2, <4>1, RowFields DEF RowStep, Edited
      <3>3. QED
        BY <3>1, <3>2
    <2>3. QED
      BY <1>11, <2>1, <2>2 DEF EditStep
  <1>12. ASSUME NEW e \in Editors, EditDies(e) PROVE RowStep(p)
    BY <1>12, KeptRows DEF EditDies
  <1>13. CASE UNCHANGED vars
    BY <1>13, KeptRows DEF vars
  <1>14. QED
    BY <1>1, <1>2, <1>3, <1>4, <1>5, <1>6, <1>7, <1>8, <1>9, <1>10, <1>11, <1>12, <1>13 DEF Next

-----------------------------------------------------------------------------
(* The inductive invariant.  AnalysisFresh is not inductive alone: that a
   result is fresh when it is filed rests on the bytes a worker holds being
   fresh for as long as its token is the row's, and that a new upload under
   an old id finds no old row rests on NoOrphanJob.                        *)
LoadedFresh ==
    \A w \in Workers :
        LET p == active[w].photo
        IN  loaded[w] # None /\ job[p].status = "leased" /\ job[p].token = active[w].token
                => loaded[w] = media[p] \/ Unsettled(p)

IInv == TypeInv /\ NoOrphanJob /\ LoadedFresh /\ AnalysisFresh

(* The bytes of a worker are dropped, kept with their claim, or have just
   been read.                                                              *)
WorkerChange(w) ==
    \/ loaded'[w] = None
    \/ loaded'[w] = loaded[w] /\ active'[w] = active[w]
    \/ active'[w] = active[w] /\ loaded'[w] = media[active[w].photo] /\ UNCHANGED <<media, editVars>>

LEMMA WorkerChanges ==
    ASSUME TypeInv, [Next]_vars, NEW w \in Workers
    PROVE  WorkerChange(w)
  <1> USE DEF TypeInv, TypeOK, WorkerOK, WorkerChange
  <1>1. CASE Tick \/ ReconcileMissing
    BY <1>1 DEF Tick, ReconcileMissing
  <1>2. ASSUME NEW q \in Photos, Publish(q) \/ EnqueuePhoto(q) PROVE WorkerChange(w)
    BY <1>2 DEF Publish, EnqueuePhoto
  <1>3. ASSUME NEW v \in Hosted, NEW S \in {Photos} \cup {{q} : q \in Photos}, ClaimHosted(v, S)
        PROVE  WorkerChange(w)
    BY <1>3 DEF ClaimHosted, Idle
  <1>4. ASSUME NEW v \in Hosted, NEW delivered \in BOOLEAN, Heartbeat(v, delivered)
        PROVE  WorkerChange(w)
    BY <1>4 DEF Heartbeat
  <1>5. ASSUME NEW v \in Workers, WorkerStep(v) PROVE WorkerChange(w)
    BY <1>5 DEF WorkerStep, Download, ReportFailure, Commit, Done
  <1>6. ASSUME NEW v \in Workers, WorkerDies(v) PROVE WorkerChange(w)
    BY <1>6 DEF WorkerDies, Done
  <1>7. ASSUME NEW v \in Desktop, DesktopStep(v) PROVE WorkerChange(w)
    BY <1>7 DEF DesktopStep, AskDesktop, ClaimDesktop, Begin, Stop, ReleaseRemaining, Stopped
  <1>8. ASSUME NEW e \in Editors, NEW q \in Photos, RotateRead(e, q) \/ DeleteMedia(e, q)
        PROVE  WorkerChange(w)
    BY <1>8 DEF RotateRead, DeleteMedia
  <1>9. ASSUME NEW e \in Editors, EditStep(e) \/ EditDies(e) PROVE WorkerChange(w)
    BY <1>9 DEF EditStep, RotateStore, RotateRecord, ResetPhoto, DeleteCatalog, DeletePhoto, EditDies
  <1>10. CASE UNCHANGED vars
    BY <1>10 DEF vars
  <1>11. QED
    BY <1>1, <1>2, <1>3, <1>4, <1>5, <1>6, <1>7, <1>8, <1>9, <1>10 DEF Next

(* A photo that is settled after a step was settled, with the same bytes,
   before it, unless it has no job or its job starts anew.                 *)
LEMMA SettledBefore ==
    ASSUME TypeInv, NoOrphanJob, [Next]_vars, NEW p \in Photos, ~Unsettled(p)'
    PROVE  \/ media'[p] = media[p] /\ ~Unsettled(p)
           \/ job'[p].status \in {"none", "pending"}
  <1> USE DEF TypeInv, TypeOK, Unsettled, Editing
  <1>1. CASE UNCHANGED <<media, editVars>>
    BY <1>1
  <1> DEFINE Goal == \/ media'[p] = media[p] /\ ~Unsettled(p)
                     \/ job'[p].status \in {"none", "pending"}
  <1>2. ASSUME NEW q \in Photos, Publish(q) PROVE Goal
    BY <1>2 DEF Publish, NoOrphanJob
  <1>3. ASSUME NEW e \in Editors, NEW q \in Photos, RotateRead(e, q) \/ DeleteMedia(e, q)
        PROVE  Goal
    BY <1>3 DEF RotateRead, DeleteMedia, NoEdit
  <1>4. ASSUME NEW e \in Editors, EditDies(e) PROVE Goal
    BY <1>4 DEF EditDies, NoEdit, Edit
  <1>5. ASSUME NEW e \in Editors, EditStep(e) PROVE Goal
    <2>1. CASE RotateStore(e)
      BY <2>1 DEF RotateStore, EditIs, NoEdit, Edit
    <2>2. CASE RotateRecord(e)
      BY <2>2 DEF RotateRecord, EditIs, NoEdit, Edit, NoOrphanJob
    <2>3. CASE ResetPhoto(e)
      BY <2>3, RowFields DEF ResetPhoto, EditIs, NoEdit, Edit
    <2>4. CASE DeleteCatalog(e)
      BY <2>4 DEF DeleteCatalog, EditIs, NoEdit, Edit
    <2>5. CASE DeletePhoto(e)
      BY <2>5, RowFields DEF DeletePhoto, EditIs, NoEdit, Edit
    <2>6. QED
      BY <1>5, <2>1, <2>2, <2>3, <2>4, <2>5 DEF EditStep
  <1>6. CASE Next /\ ~UNCHANGED <<media, editVars>>
    <2>1. \/ \E q \in Photos : Publish(q)
          \/ \E e \in Editors, q \in Photos : RotateRead(e, q) \/ DeleteMedia(e, q)
          \/ \E e \in Editors : EditStep(e) \/ EditDies(e)
      BY <1>6 DEF Next, Tick, ReconcileMissing, EnqueuePhoto, ClaimHosted, Heartbeat, WorkerStep,
                  Download, ReportFailure, Commit, WorkerDies, DesktopStep, AskDesktop,
                  ClaimDesktop, Begin, Stop, ReleaseRemaining, Stopped
    <2>2. QED
      BY <2>1, <1>2, <1>3, <1>4, <1>5
  <1>7. QED
    BY <1>1, <1>6 DEF vars

(* A photo that is gone after a step, with no deletion running or broken
   off, was so before it, unless the step is the last of a deletion.       *)
Gone(p) == catalog[p] = None /\ ~Editing(p, "delete") /\ "delete" \notin torn[p]

LEMMA GoneBefore ==
    ASSUME TypeInv, [Next]_vars, NEW p \in Photos, Gone(p)'
    PROVE  Gone(p) \/ (job'[p].status = "none" /\ analysis'[p] = None)
  <1> USE DEF TypeInv, TypeOK, Gone, Editing
  <1> DEFINE Goal == Gone(p) \/ (job'[p].status = "none" /\ analysis'[p] = None)
  <1>1. CASE UNCHANGED <<catalog, editVars>>
    BY <1>1
  <1>2. ASSUME NEW q \in Photos, Publish(q) PROVE Goal
    BY <1>2, MediaAssumption, NoneAssumption DEF Publish, Revs
  <1>3. ASSUME NEW e \in Editors, NEW q \in Photos, RotateRead(e, q) \/ DeleteMedia(e, q)
        PROVE  Goal
    BY <1>3 DEF RotateRead, DeleteMedia, NoEdit
  <1>4. ASSUME NEW e \in Editors, EditDies(e) PROVE Goal
    BY <1>4 DEF EditDies, NoEdit, Edit
  <1>5. ASSUME NEW e \in Editors, EditStep(e) PROVE Goal
    <2>1. CASE RotateStore(e)
      BY <2>1 DEF RotateStore, EditIs, NoEdit, Edit
    <2>2. CASE RotateRecord(e)
      BY <2>2, MediaAssumption, NoneAssumption DEF RotateRecord, EditIs, NoEdit, Edit
    <2>3. CASE ResetPhoto(e)
      BY <2>3 DEF ResetPhoto, EditIs, NoEdit, Edit
    <2>4. CASE DeleteCatalog(e)
      BY <2>4 DEF DeleteCatalog, EditIs, NoEdit, Edit
    <2>5. CASE DeletePhoto(e)
      BY <2>5, RowFields DEF DeletePhoto, EditIs, NoEdit, Edit
    <2>6. QED
      BY <1>5, <2>1, <2>2, <2>3, <2>4, <2>5 DEF EditStep
  <1>6. CASE Next /\ ~UNCHANGED <<catalog, editVars>>
    <2>1. \/ \E q \in Photos : Publish(q)
          \/ \E e \in Editors, q \in Photos : RotateRead(e, q) \/ DeleteMedia(e, q)
          \/ \E e \in Editors : EditStep(e) \/ EditDies(e)
      BY <1>6 DEF Next, Tick, ReconcileMissing, EnqueuePhoto, ClaimHosted, Heartbeat, WorkerStep,
                  Download, ReportFailure, Commit, WorkerDies, DesktopStep, AskDesktop,
                  ClaimDesktop, Begin, Stop, ReleaseRemaining, Stopped
    <2>2. QED
      BY <2>1, <1>2, <1>3, <1>4, <1>5
  <1>7. QED
    BY <1>1, <1>6 DEF vars

LEMMA InvInit == Init => IInv
  <1> SUFFICES ASSUME Init PROVE IInv
    OBVIOUS
  <1>1. TypeInv
    BY TypeInit
  <1>2. NoOrphanJob /\ AnalysisFresh
    BY RowFields DEF Init, NoOrphanJob, AnalysisFresh
  <1>3. LoadedFresh
    BY DEF Init, LoadedFresh
  <1>4. QED
    BY <1>1, <1>2, <1>3 DEF IInv

LEMMA InvNext == IInv /\ [Next]_vars => IInv'
  <1> SUFFICES ASSUME IInv, [Next]_vars PROVE IInv'
    OBVIOUS
  <1>1. TypeInv /\ TypeInv'
    BY TypeNext DEF IInv
  <1>2. NoOrphanJob'
    <2> SUFFICES ASSUME NEW p \in Photos, Gone(p)'
                 PROVE  job'[p].status = "none" /\ analysis'[p] = None
      BY DEF NoOrphanJob, Gone
    <2>1. CASE ~Gone(p)
      BY <1>1, <2>1, GoneBefore
    <2>2. CASE Gone(p)
      <3>1. job[p].status = "none" /\ analysis[p] = None /\ catalog[p] = None
        BY <2>2 DEF IInv, NoOrphanJob, Gone
      <3>2. ~Finished(p)
        <4> SUFFICES ASSUME Finished(p) PROVE FALSE
          OBVIOUS
        <4>1. PICK w \in Workers : Valid(active[w]) /\ active[w].photo = p
          BY DEF Finished
        <4>2. QED
          BY <3>1, <4>1 DEF Valid
      <3>3. Same(p) \/ Edited(p)
        BY <1>1, <3>1, <3>2, RowSteps DEF RowStep, Appears, Taken, Dropped
      <3>4. QED
        BY <3>1, <3>3 DEF Same, SameResult, Edited
    <2>3. QED
      BY <2>1, <2>2
  <1>3. AnalysisFresh'
    <2> SUFFICES ASSUME NEW p \in Photos, job'[p].status = "complete", ~Unsettled(p)'
                 PROVE  analysis'[p] = media'[p]
      BY DEF AnalysisFresh
    <2>1. media'[p] = media[p] /\ ~Unsettled(p)
      BY <1>1, SettledBefore DEF IInv
    <2>2. CASE Finished(p)
      <3>1. PICK w \in Workers : /\ loaded[w] # None /\ Valid(active[w]) /\ active[w].photo = p
                                /\ analysis'[p] = loaded[w]
        BY <2>2 DEF Finished
      <3>2. QED
        BY <2>1, <3>1 DEF IInv, LoadedFresh, Valid
    <2>3. CASE ~Finished(p)
      BY <1>1, <2>1, <2>3, RowSteps
         DEF RowStep, Same, SameResult, Appears, Taken, Dropped, Edited, IInv, AnalysisFresh
    <2>4. QED
      BY <2>2, <2>3
  <1>4. LoadedFresh'
    <2> SUFFICES ASSUME NEW w \in Workers, NEW p, p = active'[w].photo, loaded'[w] # None,
                        job'[p].status = "leased", job'[p].token = active'[w].token,
                        ~Unsettled(p)'
                 PROVE  loaded'[w] = media'[p]
      BY DEF LoadedFresh
    <2>1. active'[w] \in Claim /\ p \in Photos
      BY <1>1 DEF TypeInv, TypeOK, WorkerOK, Claim
    <2>2. media'[p] = media[p] /\ ~Unsettled(p)
      BY <1>1, <2>1, SettledBefore DEF IInv
    <2>3. CASE loaded'[w] = loaded[w] /\ active'[w] = active[w]
      <3>1. active[w] \in Claim /\ active[w] # None
        BY <2>1, <2>3, NoneAssumption DEF Claim
      <3>2. active[w].token \in TokensFor(p)
        BY <2>3, <3>1 DEF TokensFor, ClaimsOf
      <3>3. Same(p)
        BY <1>1, <2>1, <2>3, <3>2, RowSteps
           DEF RowStep, Appears, Taken, Dropped, Finished, Edited
      <3>4. QED
        BY <2>2, <2>3, <3>3 DEF Same, IInv, LoadedFresh
    <2>4. CASE active'[w] = active[w] /\ loaded'[w] = media[active[w].photo] /\ UNCHANGED media
      BY <2>4
    <2>5. QED
      BY <1>1, <2>3, <2>4, WorkerChanges DEF WorkerChange
  <1>5. QED
    BY <1>1, <1>2, <1>3, <1>4 DEF IInv

THEOREM InvariantOK == Spec => []IInv
  <1>1. Init => IInv
    BY InvInit
  <1>2. IInv /\ [Next]_vars => IInv'
    BY InvNext
  <1>3. QED
    BY <1>1, <1>2, PTL DEF Spec

-----------------------------------------------------------------------------
(* Every reachable state is well typed (the tables, the workers' hands, the
   edits in progress).                                                     *)
THEOREM TypeCorrect == Spec => []TypeOK
  <1>1. IInv => TypeOK
    BY DEF IInv, TypeInv
  <1>2. QED
    BY <1>1, InvariantOK, PTL

(* No result computed from other bytes than those the gallery shows is on
   file for a photo, unless an edit of it is still running or broke off.   *)
THEOREM ResultsAreFresh == Spec => []AnalysisFresh
  <1>1. IInv => AnalysisFresh
    BY DEF IInv
  <1>2. QED
    BY <1>1, InvariantOK, PTL

(* A deletion that ran to its end leaves no job and no result behind.      *)
THEOREM DeletionIsComplete == Spec => []NoOrphanJob
  <1>1. IInv => NoOrphanJob
    BY DEF IInv
  <1>2. QED
    BY <1>1, InvariantOK, PTL

(* An unexpired lease is never handed to a second worker.                  *)
THEOREM LeasesAreExclusive == Spec => LiveLeaseKept
  <1>1. ASSUME TypeInv, [Next]_vars, NEW p \in Photos,
               job[p].status = "leased", job[p].ttl > 0, job'[p].token # job[p].token
        PROVE  job'[p].token = None
    <2>1. RowStep(p)
      BY <1>1, RowSteps
    <2>2. ~Taken(p)
      BY <1>1 DEF Taken, Claimable, Expired, TypeInv, TypeOK, Job
    <2>3. QED
      BY <1>1, <2>1, <2>2 DEF RowStep, Same, Appears, Dropped, Finished, Edited
  <1>2. TypeInv /\ [Next]_vars =>
            [\A p \in Photos :
                job[p].status = "leased" /\ job[p].ttl > 0 /\ job'[p].token # job[p].token
                    => job'[p].token = None]_vars
    BY <1>1
  <1>3. IInv => TypeInv
    BY DEF IInv
  <1>4. QED
    BY <1>2, <1>3, InvariantOK, PTL DEF Spec, LiveLeaseKept

(* A completed job and its result are withdrawn only by an edit.           *)
THEOREM ResultsAreKept == Spec => ResultKept
  <1>1. ASSUME TypeInv, [Next]_vars, NEW p \in Photos, job[p].status = "complete",
               <<job'[p].status, analysis'[p]>> # <<"complete", analysis[p]>>
        PROVE  \E e \in Editors : ResetPhoto(e) \/ DeletePhoto(e)
    BY <1>1, RowSteps DEF RowStep, Same, SameResult, Appears, Taken, Claimable, Expired,
                          Dropped, Finished, Valid, Edited
  <1>2. TypeInv /\ [Next]_vars =>
            [\A p \in Photos :
                job[p].status = "complete"
                    /\ <<job'[p].status, analysis'[p]>> # <<"complete", analysis[p]>>
                    => \E e \in Editors : ResetPhoto(e) \/ DeletePhoto(e)]_vars
    BY <1>1
  <1>3. IInv => TypeInv
    BY DEF IInv
  <1>4. QED
    BY <1>2, <1>3, InvariantOK, PTL DEF Spec, ResultKept

-----------------------------------------------------------------------------
(* The hosted gate.                                                        *)

(* The earliest candidate is one.                                          *)
LEMMA EarliestIsOne ==
    ASSUME NEW S \in SUBSET Photos
    PROVE  Earliest(S, 1) = {} \/ \E p \in S : Earliest(S, 1) = {p}
  <1>1. IsFiniteSet(S)
    BY PhotosAssumption, FS_Subset
  <1>2. ASSUME NEW p \in Earliest(S, 1), NEW q \in Earliest(S, 1), q < p PROVE FALSE
    <2>1. {r \in S : r < p} \subseteq S /\ q \in {r \in S : r < p}
      BY <1>2 DEF Earliest
    <2>2. IsFiniteSet({r \in S : r < p})
      BY <1>1, <2>1, FS_Subset
    <2>3. Cardinality({r \in S : r < p}) \in Nat /\ Cardinality({r \in S : r < p}) # 0
      BY <2>1, <2>2, FS_CardinalityType, FS_EmptySet
    <2>4. Cardinality({r \in S : r < p}) < 1
      BY DEF Earliest
    <2>5. QED
      BY <2>3, <2>4
  <1>3. \A p, q \in Earliest(S, 1) : p = q
    BY <1>2, PhotosAssumption DEF Earliest
  <1>4. QED
    BY <1>3 DEF Earliest

(* Only a hosted claim adds a hosted lease.                                *)
LEMMA BusyShrinks ==
    ASSUME TypeInv, [Next]_vars,
           \A w \in Hosted, S \in {Photos} \cup {{q} : q \in Photos} : ~ClaimHosted(w, S)
    PROVE  BusyHosted(job') \subseteq BusyHosted(job)
  <1> USE DEF TypeInv, TypeOK, WorkerOK
  <1> DEFINE Shrinks == BusyHosted(job') \subseteq BusyHosted(job)
  <1>1. CASE Tick
    <2>1. \A n \in Nat : Less(n) > 0 => n > 0
      BY DEF Less
    <2>2. \A p \in Photos : job[p].ttl \in Nat
      BY TimeAssumption DEF Job
    <2>3. QED
      BY <1>1, <2>1, <2>2, RowFields DEF Tick, BusyHosted
  <1>2. ASSUME NEW S, job' = Inserted(S) PROVE Shrinks
    BY <1>2, RowFields DEF Inserted, BusyHosted
  <1>3. ASSUME NEW c \in Claim, Valid(c), job' = Renewed(c) PROVE Shrinks
    BY <1>3, RowFields DEF Renewed, Valid, BusyHosted, Claim
  <1>4. ASSUME NEW c \in Claim, job' = Completed(c) \/ job' = Retried(c) PROVE Shrinks
    <2>1. c.photo \in Photos
      BY DEF Claim
    <2>2. \A p \in Photos : \/ job'[p] = job[p]
                            \/ job'[p] = Finish(job[p]) \/ job'[p] = PutBack(job[p])
      BY <1>4, <2>1 DEF Completed, Retried
    <2>3. QED
      BY <2>2, RowFields DEF BusyHosted
  <1>5. ASSUME NEW c \in Claim, Fail(c) PROVE Shrinks
    BY <1>4, <1>5 DEF Fail
  <1>6. ASSUME NEW w \in Hosted, NEW delivered \in BOOLEAN, Heartbeat(w, delivered) PROVE Shrinks
    BY <1>3, <1>6 DEF Heartbeat, Workers
  <1>7. ASSUME NEW w \in Workers, WorkerStep(w) PROVE Shrinks
    BY <1>4, <1>5, <1>7 DEF WorkerStep, Download, ReportFailure, Commit
  <1>8. ASSUME NEW w \in Desktop, DesktopStep(w) PROVE Shrinks
    <2> w \in Workers
      BY DEF Workers
    <2>1. CASE ClaimDesktop(w)
      <3> DEFINE chosen == Earliest(Candidates(job, Photos), ClaimLimit)
      <3>1. CanIssue(chosen) /\ job' = Lease(job, chosen, FALSE)
        BY <2>1 DEF ClaimDesktop
      <3> HIDE DEF chosen
      <3>2. \A p \in Photos : job'[p] = job[p] \/ job'[p].hosted = FALSE
        <4>1. ASSUME NEW p \in Photos, p \in chosen PROVE job'[p].hosted = FALSE
          <5>1. FreshToken(p) \in Tokens /\ job'[p] = LeaseTo(job[p], FreshToken(p), FALSE)
            BY <3>1, <4>1, FreshTokenIsFresh DEF Lease
          <5>2. LeaseTo(job[p], FreshToken(p), FALSE).hosted = FALSE
            BY DEF LeaseTo, Job
          <5>3. QED
            BY <5>1, <5>2
        <4>2. QED
          BY <3>1, <4>1 DEF Lease
      <3>3. QED
        BY <3>2 DEF BusyHosted
    <2>2. CASE ~ClaimDesktop(w)
      BY <1>2, <1>3, <1>5, <1>8, <2>2
         DEF DesktopStep, AskDesktop, Begin, Stop, ReleaseRemaining, Stopped
    <2>3. QED
      BY <2>1, <2>2
  <1>9. ASSUME NEW e \in Editors, EditStep(e) PROVE Shrinks
    <2>1. \A p \in Photos : \/ job'[p] = job[p] \/ job'[p] = NoJob
                            \/ job'[p] = ResetJob(job[p])
      BY <1>9 DEF EditStep, RotateStore, RotateRecord, ResetPhoto, DeleteCatalog, DeletePhoto
    <2>2. QED
      BY <2>1, RowFields DEF BusyHosted
  <1>10. CASE UNCHANGED job
    BY <1>10
  <1>11. QED
    BY <1>1, <1>2, <1>6, <1>7, <1>8, <1>9, <1>10
       DEF Next, vars, ReconcileMissing, Publish, EnqueuePhoto, WorkerDies, RotateRead, DeleteMedia,
           EditDies

(* A sweep of exhausted jobs adds none either.                             *)
LEMMA SweepShrinks ==
    ASSUME TypeInv
    PROVE  BusyHosted(FailExhausted(job)) \subseteq BusyHosted(job)
  BY RowFields DEF TypeInv, TypeOK, FailExhausted, BusyHosted

(* There are never more unexpired hosted leases than the limit.            *)
THEOREM HostedLeasesAreBounded == Spec => []HostedBound
  <1>1. Init => HostedBound
    <2>1. ASSUME Init PROVE BusyHosted(job) = {}
      BY <2>1, RowFields DEF Init, BusyHosted
    <2>2. QED
      BY <2>1, FS_EmptySet, LimitsAssumption DEF HostedBound
  <1>2. ASSUME TypeInv, HostedBound, [Next]_vars PROVE HostedBound'
    <2>1. \A jobs : BusyHosted(jobs) \subseteq Photos /\ IsFiniteSet(BusyHosted(jobs))
      BY PhotosAssumption, FS_Subset DEF BusyHosted
    <2>2. ASSUME NEW jobs, BusyHosted(jobs) \subseteq BusyHosted(job)
          PROVE  Cardinality(BusyHosted(jobs)) <= Concurrency
      <3>1. Cardinality(BusyHosted(jobs)) <= Cardinality(BusyHosted(job))
        BY <2>1, <2>2, FS_Subset
      <3>2. QED
        BY <1>2, <2>1, <3>1, FS_CardinalityType, LimitsAssumption DEF HostedBound
    <2>3. CASE \A w \in Hosted, S \in {Photos} \cup {{q} : q \in Photos} : ~ClaimHosted(w, S)
      <3>1. BusyHosted(job') \subseteq BusyHosted(job)
        BY <1>2, <2>3, BusyShrinks
      <3>2. QED
        BY <2>2, <3>1 DEF HostedBound
    <2>4. ASSUME NEW w \in Hosted, NEW S \in {Photos} \cup {{q} : q \in Photos}, ClaimHosted(w, S)
          PROVE  HostedBound'
      <3> DEFINE swept  == FailExhausted(job)
                 open   == Cardinality(BusyHosted(swept)) < Concurrency
                 ready  == Candidates(swept, S)
                 chosen == IF open THEN Earliest(ready, 1) ELSE {}
      <3>1. job' = Lease(swept, chosen, TRUE)
        BY <2>4 DEF ClaimHosted
      <3>2. BusyHosted(job') \subseteq BusyHosted(swept) \cup chosen
        BY <3>1 DEF Lease, BusyHosted
      <3>3. CASE chosen = {}
        <4>1. BusyHosted(job') \subseteq BusyHosted(job)
          BY <1>2, <3>2, <3>3, SweepShrinks
        <4>2. QED
          BY <2>2, <4>1 DEF HostedBound
      <3>4. CASE chosen # {}
        <4>1. ready \in SUBSET Photos
          BY DEF Candidates
        <4>2. PICK p \in Photos : open /\ chosen = {p}
          <5> HIDE DEF ready
          <5>1. QED
            BY <3>4, <4>1, EarliestIsOne
        <4> HIDE DEF chosen, swept
        <4>3. IsFiniteSet(BusyHosted(swept)) /\ BusyHosted(job') \subseteq BusyHosted(swept) \cup {p}
          BY <2>1, <3>2, <4>2
        <4>4. /\ IsFiniteSet(BusyHosted(swept) \cup {p})
              /\ Cardinality(BusyHosted(swept) \cup {p}) <= Cardinality(BusyHosted(swept)) + 1
          <5> DEFINE busy == BusyHosted(swept)
          <5>1. IsFiniteSet(busy) /\ Cardinality(busy) \in Nat
            BY <4>3, FS_CardinalityType
          <5> HIDE DEF busy
          <5>2. /\ IsFiniteSet(busy \cup {p})
                /\ Cardinality(busy \cup {p}) =
                       IF p \in busy THEN Cardinality(busy) ELSE Cardinality(busy) + 1
            BY <5>1, FS_AddElement
          <5>3. IsFiniteSet(busy \cup {p}) /\ Cardinality(busy \cup {p}) <= Cardinality(busy) + 1
            BY <5>1, <5>2
          <5>4. QED
            BY <5>3 DEF busy
        <4>5. Cardinality(BusyHosted(job')) <= Cardinality(BusyHosted(swept) \cup {p})
          BY <4>3, <4>4, FS_Subset
        <4>6. QED
          BY <4>2, <4>3, <4>4, <4>5, <2>1, FS_CardinalityType, LimitsAssumption DEF HostedBound
      <3>5. QED
        BY <3>3, <3>4
    <2>5. QED
      BY <2>3, <2>4
  <1>3. IInv => TypeInv
    BY DEF IInv
  <1>4. QED
    BY <1>1, <1>2, <1>3, InvariantOK, PTL DEF Spec
=============================================================================
