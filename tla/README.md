# Daily Mirror: specifications, model checks and proofs

Daily Mirror is a mirror with a button and a camera. The appliance captures a
photo, keeps it on flash until the server has it, and the server catalogs it,
finds faces in it and shows it in a gallery. This directory holds TLA+ modules
of the parts whose correctness depends on interleavings, failures and time,
TLC configurations that check them on small instances, and TLAPS proofs.

## Inventory

| part | state | operations | talks to |
|---|---|---|---|
| processing queue (`server/src/processing.rs`) | rows of `photo_processing`, `photo_analyses`, `faces` | enqueue, reconcile, claim, claim_hosted, renew, complete, fail, reset, delete | workers by lease token, edits by HTTP handler |
| hosted worker (`server/src/vision.rs`) and cron (`background.rs`) | one claim, one downloaded JPEG | claim, download, heartbeat, commit, report failure, chain the next run | queue (same process), object store |
| desktop worker (`processor/src/lib.rs`) | a batch of claims | drain, renew, release what is left | queue over HTTP |
| catalog, uploads, object store (`catalog.rs`, `upload_flow.rs`, `photos.rs`) | photo rows, JPEGs, thumbnails | reserve, finalize, reconcile, rotate, delete | devices, queue |
| device registry (`devices.rs`) | device rows, claim tokens, token hashes | mint, claim, authenticate, release, register | app mints, appliance redeems |
| appliance core (`crates/mirror-core`) | machine state, gesture detector, event queue, credentials in RAM | poll, dispatch, run a command | adapters: store, net, camera, ring |
| host adapters (`firmware/host`) | `provisioned.json`, pending captures, device id | save, enqueue, remove, erase_all; claim, upload; `POST /provision` | server, app |
| ESP-IDF firmware (`firmware/esp-idf/main`) | spool files, NVS config, pairing state, press state | spool add and drain, upload, pair, press, join Wi-Fi | server, app over BLE |
| Raspberry Pi client (`device`) | file queue, local photos, test mode, operation and camera locks, live preview | capture, upload, retry, admin requests, shell commands | server |
| mobile app (`mobile/src`) | pairing machine, session, caches | provision, poll the result, sign in, browse | server, appliance |
| migrations and schema gate (`migrations.rs`, `schema_gate.rs`) | rows of `schema_migrations`, the schema, the lock row, each instance's cached report | status, verify, up, lock, gate | operator, servers |
| accounts (`auth.rs`, `passkeys.rs`) | users, sessions, passkeys, ceremonies, deletion requests | sign in and out, register, authenticate, ask to be deleted | app, operator |
| households (`onboarding.rs`, household routes) | households, seats, people, bindings | sign up, add, seat, link, enroll, erase | app, operator, registry |
| faces (`face_matching.rs`, `face_admin.rs`) | the person and the source of each face | label, propose, enroll by a finished analysis | queue, app |

What is hard in this system, and what makes each part correct:

* The queue hands work out under leases that expire while the holder works, to
  workers that die or lose the answer of a call, while users rotate and delete
  the photos. Correct means: a live lease has one holder, a result is never
  filed for other bytes than those in the store, a result stays until an edit
  withdraws it, a deletion leaves nothing, the hosted gate holds, and each job
  ends.
* The appliance runs one loop over a button, a provisioning link and a clock;
  commands block, fail, and lose power half way. Correct means: the machine
  never waits for an answer nobody gives, reset arming agrees between detector
  and machine, a capture stays until the server has it, stored credentials are
  replaced only by granted ones, the link is open only while pairing.
* The spool of the deployed firmware is shared by a task that adds (and drops
  the oldest when full) and a task that reads and uploads without the lock,
  across restarts that reuse sequence numbers. Correct means: the drain never
  removes another photo than the one it dealt with, ids name one photo,
  retries reuse the id, order is kept, one bad file does not wedge the rest.
* Every upload is three requests whose answers may be lost, from threads and a
  shell that share one directory, into a catalog whose handlers hold no
  transaction across two statements, beside a reconciliation that works from
  lists it read before. Correct means: the camera lets go of a photo only when
  it is filed, only whole JPEGs are filed, what is taken in test mode stays,
  and one bad photo does not hold up the others.
* The pairing of the deployed firmware runs on four tasks over shared globals.
  Correct means: what the app reports as paired is on flash, the token is never
  kept without its server unless a person took the address away, and the pairing
  task ends. That a claim needs a press for the payload it redeems is promised
  too, and is not so (see findings).
* Accounts and households are erased statement by statement, by a command that
  may stop and is run again beside everything else. Correct means: what was
  erased is gone for good, others keep theirs, ceremonies count once, and what
  a person said of a face is not overruled by a guess.
* Migrations are run by processes of several builds, which may die with the lock,
  beside instances that cache what they read of the schema and outlive it. Correct
  means: no handler runs on a schema that lacks what its build needs, two runners
  do not interleave, a deployment that got stuck recovers.

`PROJECT.json` lists every hazard at its line with the properties that cover it.

## Modules

`ProcessingQueue` (checked through `MCProcessingQueue`, proved about in
`ProcessingQueueProofs`): the server's queue with both kinds of worker and the
user's edits. `job` is a row of `photo_processing`, `analysis` the JPEG that
the stored result was computed from, `catalog` the recorded byte size of a
ready row, `media` the object; `phase`, `held`, `active`, `loaded`, `lost`
are the local state of workers; `edit` is where each rotate or delete request
is between its three calls. One SQL transaction is one action; a download, a
heartbeat and the calls of an edit are actions of their own. Time is the
remaining time of a lease (`ttl`) and of a retry delay (`wait`), aged by
`Tick`. Abstractions: one pipeline version is active; `fail` is only ever
called as retryable; validation and the content of a result are left out;
attempts stop counting at the limit; a desktop worker may begin any claim of
its batch; a fresh token differs from all that somebody still holds; an upload
becomes a ready row with its object in one step (`Publish`), and the rows that
reconciliation imports without a byte size are left to `UploadFlow`.
`torn` remembers that an edit died between its calls; the code
has nothing that repairs such a photo, so the properties speak about the others.

`Gesture`, `Machine`, `Appliance` (checked through `MCAppliance`): the core
crate's detector and machine as pure operators, and the runtime over them.
`Appliance` has one action per poll, one for `dispatch`, one per command, and
`DrainOne` for each upload of a drain. `flash` and `spool` survive `PowerLoss`,
everything else does not; `Elapse` lets time pass at any point, also while a
command blocks. A device token is named by the payload whose claim token
produced it. Ring patterns, focus and reports change nothing in the model.
A host adapter's `stop_provisioning` cannot fail.

`Spool`: `mirror_spool.c` of the ESP-IDF firmware. `q` and `r` are the
directories on flash, `adding` is the lock held by an add between dropping and
renaming, `drain.pc` is where the drain task is between its lock sections,
`taken` records whether each photo's JPEG is whole and whether the clock was
valid when it was spooled, `server` what was filed under which id. The
upload's three requests are one step, whose outcomes are all the code tells
apart; a photo takes one unit of the partition. An unlink of an open file is
LittleFS's affair: the model lets the drop happen or wait.

`UploadFlow`, `PiDevice`, `PhotoDelivery` (checked through `MCPhotoDelivery`)
and `Delivery`: an upload from the shutter to the gallery.

* `UploadFlow` is the server: `rows` the catalog, `objects` and `thumbs` the
  bucket, `handlers` the requests at work, each of whose statements and bucket
  calls is an action; `edit` and `sweep` are a rotation or deletion and a
  reconciliation with their own steps. An object is a rendition (the camera's
  JPEG, or that of the n-th rotation), and a byte size is the rendition that
  has it. A request whose client gave up goes on; a handler may fail or die
  between any two steps.
* `PiDevice` is the Raspberry Pi client: `queue` and `local` are its
  directories, `threads` the loop, the admin requests and the shell, `opLock`
  and `camera` the two locks, `preview` the live view with its stop flag.
  `secret` remembers what was taken in test mode. The shell reads the settings
  once when it starts and takes no lock.
* `PhotoDelivery` adds `Uploader::upload` and joins the two through requests
  and replies. `flying` are PUTs that outlive the client's wait and may land at
  any time. `Events` (requests of people, edits, reconciliations, shell
  commands, lost answers, failures, restarts) are bounded all together.
* `Delivery` is what the two promise: a photo is held, filed, then released.
  `Implements` is the refinement, with the camera's queue for `held`.
* `PhotoDeliveryProofs` holds the theorems about them.

`Accounts`, `Household`, `Faces`, `HouseholdService` (checked through
`MCHouseholdService`): each extends the one before. `Accounts` is the auth
database, a request being authenticated once, at its start, with what was read
then; `Household` the households, seats, claim tokens, devices, captures and
sign-up; `Faces` who a face is said to show; `HouseholdService` adds the
operator's commands, of which one runs at a time, with every statement of
`delete-account`, `link-household` and `register-device` an action. `owner`
remembers which household a person or photo belongs to: a photo is its camera's
household's from the reservation on (`TakenFor`), and registering a camera for
another household takes its photos along. `erased` are the accounts and
households of deletions that ran to their end undisturbed, and `disturbed` what a
deletion cannot answer for, because the code guards against none of it: an
account beside whose deletion a request or an event was at work; a household
somebody joined meanwhile; a photo on its way in, which an erasure does not find
and a later one may not find either; a person or photo that got another household.
`shuffled` are the households in which accounts or roles changed meanwhile.
`fruits` counts what a ceremony led to. A photo shows at most one face, and the
person it resembles most is any enrolled one. `HouseholdProofs` and `ErasureProofs`
hold the theorems.

`MirrorPair`, `MirrorPress`, `AddMirror`, `Pairing` (checked through
`MCPairing` and `MCPairingConsent`): pairing of the deployed firmware. `m` are the
globals of `mirror_pair.c` and where its endpoint handler is, `task` the pairing
task and the token it carries, `nvs` the settings on flash, `radio` the station;
`press` is `s_busy` and where each of the two tasks is that may run a press;
`phone` is the app's reducer with the operation of a busy step. Timers are free to
fire in any state that arms them. None of the tasks holds a lock over its work, so
each is cut wherever another can see it half done: the endpoint handler into the
token it copies, the press it voids, the window it opens and the answer it writes;
a press into its test and its flag; the pairing task between taking up the press
and entering the claim, before it reads the token it redeems, between the claim's
writes, between report and change of state, and between entering idle, stopping
the service and its own end. What is coarser than the code: the globals that
`mirror_pair_start` clears, the writes of boot, and those of the settings form are
one step each (though the form may stop after any of them, and may leave the
address blank, which erases it). A long press waits up to five seconds for a service
that is on its way down and then goes on as it is; in the model it may go on at any
moment of that. An operation of the app ends when its screen is left; in the code one
that is under way runs out, and its result is ignored. `cleared` remembers that a
person took the server's address away and none came since. `MCPairingConsent` adds
`consent`, the payload in force when the button was last pressed to confirm.
`PairingProofs` holds the theorems.

`Migrations` (checked through `MCMigrations`, proved about in `MigrationsProofs`):
a build is the sequence of its migrations' checksums, of which `Body` says what
tables and columns each adds. `recorded`, `items` and `lock` are the database:
`schema_migrations`, the schema, the lock's row. `runs` is where each `up` is
(clear a stale lock, claim it, look again, apply one migration after another,
release), with the build it was started from; `servers` the cached report and the
prepared catalog of each instance; `requests` where each request to `/api/` is
between the report's read, its caching, the catalog's own check and its queries.
Times are ages, aged by `Tick` as far as a limit tells them apart. A migration and
its row are one transaction; its commit may be lost, and where the database cannot
run it as one, some of its idempotent statements may stay (`ApplyFails`). `Start` puts an instance
of any build in an instance's place: a deployment, a preview, a cold start.
Runners have a name, host and process id, which is all the lock tells them apart
by; `HOSTNAME` is often not exported, so two names may coincide, and `LockExcludes`
speaks of runners whose name is their own. A `status` that cannot be read after the
lock was taken leaves the lock behind, as a crash does (`Dies`).

Each module keeps its mutants (`Bug...`, or named for what they do) next to the
definition they mutate; no action uses them. `PROJECT.json` pairs each with the
property it must break.

## Runs

| run | asks | result |
|---|---|---|
| `ProcessingQueue` | `TypeOK`, `AnalysisFresh`, `NoOrphanJob`, `LiveLeaseKept`, `ResultKept` | hold |
| `ProcessingQueueLive` | `HostedBound`, `EventuallySettled` | hold |
| `Appliance` | `TypeOK`, `NeverStranded`, `ArmedTogether`, `CaptureKept`, `OldCredentialsSurvive` | hold |
| `AppliancePersist` | `PersistedWasConfirmed` | violated, see findings |
| `Spool` | `TypeOK`, `IdsUnique`, `FiledOnce`, `KeptUntilFiled`, `OldestFirst`, `EventuallyLeaves` | hold |
| `PhotoDelivery` | `TypeOK`, `FiledIsReadable`, `TestPhotosStay`, `TestModeSilences`, `Implements`, `EventuallyReleased`, `PressServed` | hold |
| `PhotoDeliveryImport` | `GalleryIsReadable` | violated |
| `HouseholdService` | `TypeOK`, `ErasedForGood`, `CeremonyOnce`, `OthersKept`, `AdminRemains`, `HandLabelsStay`, `TaughtByPeople` | hold |
| `HouseholdErased` | `FacesErased` | violated |
| `Pairing` | `TypeOK`, `TokenLast`, `SuccessIsStored`, `PairingEnds` | hold |
| `PairingUnpressed` | `NoPressNoClaim` | violated |
| `Migrations` | `ServedComplete`, `LockExcludes`, `Recovers` | hold |

Bounds, and why they are enough for the cases that matter:

* `ProcessingQueue`: one photo, one hosted and one desktop worker, two edits at
  once, three JPEGs of which two have the same byte count, one tick of lease.
  Photos do not interact but through the gate and the order of claims; two
  workers and two edits give every pair that can meet on a photo, an upload
  after a deletion included. Hosted workers and edits are symmetric.
* `ProcessingQueueLive`: two photos and two invocations behind a gate of one,
  three attempts, leases and delays of two ticks. No edits.
* `Appliance`: two payloads (symmetric), one capture, one payload waiting on
  the link; the thresholds of the detector are 1, 2 and 3 ticks and the reset
  takes two clicks instead of three: the order of the thresholds is the code's,
  which is all the detector's branches depend on.
* `Spool`: three photos in room for two, one rejected file kept, two restarts,
  two ticks of the clock. A drop, a reuse of a number after a restart and an
  entry dropped under the drain all happen within these bounds; four photos
  were checked too (7 million states), but take longer than a routine run should.
* `PhotoDelivery`: two photos, the first of which never decodes, two requests
  at work on the server at once, one rotation of a photo, one admin request,
  and any two events. Two photos give a retry
  something to go on to; two requests give a request that was given up beside
  its successor; two events give, for instance, a reconciliation under way
  while an answer is lost, or a change of mode during a shell command.
* `HouseholdService`: two accounts, two households, three people, two photos,
  one camera, one ceremony, one request beside the operator's command, grids of
  two and three seats, one example enough to enroll, any two events. The
  initial states hold every way the two accounts can share or not share a
  household, labelled photos, and a deletion already begun, so that both events
  are left for what disturbs it: a stop, and whatever comes before the second
  attempt.
* `Pairing`: two attempts of the phone, starting from a mirror out of its box or
  a paired one, and any one reset, long press, restart, settings change or
  capture (1.9 million states). Dropped links, lost answers and failing writes are
  not bounded. Two attempts give a payload that arrives between any two steps of
  the claim of the one before; `PairingProofs` proves the safety properties for any
  number of attempts and disturbances. `PairingEnds` depends on the bounds in that
  each payload, and each long press, gives the pairing task more to do.
  `PairingUnpressed` needs no disturbance.
* `Migrations`: a build of two migrations and one whose first migration was edited,
  two runners, one instance with two requests, a lock that is stale after one tick, a
  report that is read again after one, and one event (a crash, a failure or a
  deployment). Two runners and two requests give every pair that can meet. The
  initial schema is any part of what the migrations add. With two events and a lock
  that is stale after two ticks the safety properties hold as well (8.7 million
  states), and `MigrationsProofs` proves them for any number of everything.

`CHECK_DEADLOCK FALSE` is set where the bounds stop the system: when all events
are used up and nothing is left to do, a household or a pairing rests.

### Fairness

* `ProcessingQueueLive`: weak fairness of the clock, of the reconcile and the
  hosted run (the cron dispatches both every five minutes), and of the next
  step of a hosted worker, which may be its failure. A worker may still die
  each time. Desktop workers are excluded: the attempt limit is applied only in
  hosted claims, so a desktop worker that reclaims a failing job at once can
  retry it for ever (a hazard the list names).
* `Spool`: weak fairness of both tasks, of SNTP while there is a network
  and of the backoff timer; strong fairness of a read, a write-back and an
  upload that settles, that is, one tried again and again is one day not
  disturbed. The property itself assumes that the network stays in the end, and
  allows the device to be off or its credential refused.
* `PhotoDelivery`: weak fairness of every thread and handler, of the
  preview's end once it was told to stop, and strong fairness of the loop's
  retry, which a press puts off by its interval each time. Nothing is assumed
  of people, of the shell, or that a live preview ends by itself;
  `EventuallyReleased` names what may keep a photo waiting.
* `Pairing`: weak fairness of the pairing task, and of nothing else. It runs once
  a tick for as long as it exists; the pairing window, the confirmation, the join
  and the linger end by limits of its own (`PAIRING_TIMEOUT_MS` and its like), and
  the claim's call by the client's. Nothing is assumed of the phone (the app's
  calls to the mirror have no time limit, and its poll looks at the clock only
  between two reads), nor of people, links, the station or the service's shutdown.
* `Migrations`: weak fairness of the clock, of each step of a runner and of a
  request, and of `up`, which the operator or the deployment runs until it works;
  strong fairness of requests to each instance, which a cached report turns away
  for a while.

## Findings

* **Another payload's credentials** (`AppliancePersist`). `dispatch` remembers
  each payload's credentials before the machine decides whether it wants them;
  a second payload during confirmation or joining is then stored with the first
  one's token. `docs/device-pairing-plan.md:125` accepts the phone that was
  confirmed.
* **Imported half-way** (`PhotoDeliveryImport`). `reconcile_all` imports what it
  saw in the bucket and not among the rows it had read before, without the
  size and image checks of a completion: an upload reserved between the two
  reads is in the gallery whatever its bytes are. `upload_flow.rs:399` and
  `server/README.md:99` keep such a photo out.
* **Faces that outlive their household** (`HouseholdErased`). The erasure removes
  a photo's row before its job and faces and finds photos by their rows; stopped
  in between and run again, it ends well and leaves those faces.
  `onboarding.rs:437` promises them erased.

* **A claim without a press** (`PairingUnpressed`). The press is tested when the
  claim begins; the token that is redeemed is read from the globals after the join,
  and a payload replaces it in any state, before it voids the press. A second
  payload that arrives after the press for the first is redeemed unpressed.
  `mirror_pair.h:36` says that the press gates the claim, and
  `docs/device-pairing-plan.md:85` "No press, no claim".

Four more places where a document and the code part, which the models follow
as the code has it and no run is spent on: a job reset by a rotation keeps its
attempts, so the next hosted claim may fail it unseen
(`processing.rs:538`, `docs/face-processing-architecture.md:228`); a full reset
mints a new device id, so the next claim adds a row instead of revoking the old
token (`store.rs:183`, `docs/device-pairing-plan.md:65`); a photo taken
before SNTP answered is stamped when the drain reaches it, not when the clock
became valid (`mirror_spool.c:617`, `firmware/esp-idf/README.md:224`); an instance of an old
build that starts after a newer build has migrated finds a version it does not know,
takes it for drift and answers 503 to every request to `/api/`, while the old code
is said to run against the new schema until the switchover
(`schema_gate.rs`, `docs/deployment.md:156`).

## Proofs

`ProcessingQueueProofs` proves, for any sets of photos, workers, editors and
tokens and any values of the limits that satisfy the named assumptions:
`TypeCorrect`, `ResultsAreFresh`, `DeletionIsComplete`, `LeasesAreExclusive`,
`ResultsAreKept` and `HostedLeasesAreBounded`.

The inductive invariant is `IInv`. `AnalysisFresh` alone is not inductive: a
worker that has loaded a JPEG, holds a valid claim and commits would break it
if that JPEG were no longer the one in the store. `LoadedFresh` says that this
cannot be, unless an edit of the photo is under way or torn: every write to the
store that an edit finishes is followed by the reset that clears the token.
`NoOrphanJob` is part of it because a photo that is uploaded anew must not find
an old job. The types of jobs and claims complete it (`TypeInv`). Each action
has its step in each conjunct's preservation lemma; `queueVars`-only and
stuttering steps are shared. `LiveLeaseKept`, `ResultKept` follow from the
invariant action by action; `HostedBound` from the guard of the claim and
lemmas about the cardinality of the set of busy rows.

Assumptions: those named in `ProcessingQueue` (`PhotosAssumption`,
`WorkersAssumption`, `TimeAssumption`, `LimitsAssumption`, `MediaAssumption`,
`NoneAssumption`). TLC evaluates them in every run of the module.

`PairingProofs` proves, for any number of attempts and disturbances and any
tokens and names that satisfy the assumptions, every safety property of the
`Pairing` run: `TypeCorrect`, `TokenIsLast` and `SuccessMeansStored`. Its inductive
invariant, also called `IInv`, has two parts:

* types, with what ties the fields together: an address only on the good network,
  no service once Bluetooth memory is released, a device token in the task's
  hands exactly while it stores one (`Carries`), an attempt number that is a token
  from the send step to the confirmation (`Attempted`), and a success screen that
  is at rest (`Over`: a failure can not turn it back into an attempt);
* `Kept`, what the tasks that share the globals rely on. `UrlFirst`: the address is
  there before the token is written, not only after, or a person took it away.
  `Current`: what the task carries is what the server accepts, a claim is reported
  only when it is stored, and a window that a payload opened during a claim since
  reported is one that the finishing task will close. A payload that arrives while
  the result of the claim before still stands opens its window first and takes the
  result back after that; between the two a phone's read would be told of the old
  claim, and it is only because one task serves all of Bluetooth that none falls
  there. The token in force changes only while the task redeems, and only one task
  does.

The proof has one lemma per action for each of the two parts (`...OK` for the
types, `...Kept` for the rest), one for a start of the mirror (`BootEffect`) and
one for a long press (`LongPressEffect`), whose outcomes several actions share.
`Promised` is carried along with each step: the app may turn to success only when
the token is in force.

Assumptions: `DistinctNames`, `AttemptsAssumption`, `TokensAreAttempts` and
`EventsAssumption`, evaluated by TLC in the `Pairing` run.

`SpoolProofs` proves, for any number of photos, any capacity and any clock, every
safety property of the `Spool` run: `TypeCorrect`, `IdsAreUnique`,
`FiledUnderOneId`, `PhotosAreKept` and `OldestGoesFirst`. The difficulty is that
the drain works without the lock and that numbers are given out again after a
restart; neither `IdsUnique` nor `KeptUntilFiled` says anything about either. The
inductive invariant adds

* `Queued`: numbers in use are below the next one and in the order of capture;
* `Holds`: the drain's number is in front of every other, and what has it, if
  anything still does, is the photo that the drain has read;
* `Timed`: no time in the queue, on the wire or at the server is ahead of the
  clock;
* `Later`: what the server has under a number that is due to be given out again
  was filed at an earlier second; a boot takes longer than a second, so this holds
  when numbering resumes, and an id made of second and number stays unique;
* `OneId`: a photo dated at capture has the same time in the queue, on the wire
  and at the server;
* `Types` and `Fits`, with the finiteness of both directories: a prune leaves room
  for the file to come (`PrunedSize`).

A step that only lets go of files or of the entry on the wire, passes time or
starts the device is `Quiet`, and one lemma (`QuietOK`) covers them all; each of
the others (commit, pick, read, date, file) has its own. Least and greatest
numbers come from the well-foundedness of `<` on `Nat` (`MinOK`, `MaxOK`). That a
boot takes longer than a second is part of the model (`Boot`); without it, or with
a clock that is set back, the proof fails at `Later`.

Assumptions: `SizeAssumption` and `ClockAssumption`, evaluated by TLC in the
`Spool` run.

`PhotoDeliveryProofs` proves, for any number of photos, admin requests, requests at
the server, rotations and events, every safety property of the `PhotoDelivery` run:
`TypeCorrect`, `FiledPhotosDecode`, `TestPhotosAreKeptBack`, `TestModeIsSilent` and
the refinement, `DeliveryImplemented`. None of them is inductive. A photo may be
removed from the queue by one thread while another still uploads it, and a request
outlives the client that gave up on it; the invariant says what is left to rely on:

* `DeviceTypes` and `Locks`: whoever works on photos in the service has the
  operation lock, whoever shoots has the camera, a preview about to start has no
  thread yet and one starter. With them `TestModeSilences` is inductive: settings
  are saved under the operation lock;
* `Traced`: whatever the server has of a photo, is asked about it or still works
  on, the reconciliation's old lists included, is of a photo in `Known`: in the
  queue or filed. `Known` never shrinks, and no photo of test mode is in it;
* `Readable`: a thumbnail is of a photo that decodes, and so is whatever a handler,
  a rotation or the reconciliation does after drawing one. The reconciliation's
  import lists photos nobody drew, so this is about what is *filed*, that is,
  completed, which is where the finding `PhotoDeliveryImport` lies;
* `Talk`: a request whose client still waits is that client's only one, and an
  answer belongs to the request it waits for; hence a thread that reads "ok"
  removes a photo that is filed.

Each action has a lemma that it is `Fine`: it keeps both halves of the invariant and
is a step of `Delivery` or leaves the queue and the filed photos alone. Actions of the
camera that only move threads share lemmas (`Grows`, `Stays`), and so do those of
the server that touch one photo's row or objects.

Assumptions: `BoundAssumption`, `CountAssumption`, `SystemAssumption`,
`UnreadableAssumption`, `TokenAssumption`, `AbsentAssumption`, `NobodyAssumption` and
`RequestAssumption` (the names of admin requests are not those of the other threads),
evaluated by TLC in the `PhotoDelivery` run.

`ApplianceProofs` proves, for any payloads and households, any hold times, click
window, click count and timeouts, and any number of captures and waiting payloads,
every safety property of the `Appliance` run: `TypeCorrect`, `NothingIsAwaited`,
`DetectorAgrees`, `CapturesAreKept` and `CredentialsAreGranted`; and `LinkIsClosed`,
whose property, `LinkOnlyWhilePairing`, no run spends its time on. Three of the first five speak of the moments between polls
only, so the invariant has to say what holds while an event is worked off:

* `Course`: one event waits, or commands are left, or neither. `Script` lists the
  commands that may be left in each state, `Awaited` the events that may wait in it,
  and `InStep` what the detector may know that the machine has not been told yet;
* `LinkKept`: an open link belongs to a pairing state, or the commands that are left
  close it (`Closing`);
* `ClaimStands`: while the credentials are still to be stored, what the runtime
  holds is the claim the server last granted;
* `OffClean` and `Types`.

`HandleSound` is the lemma about the machine: an event that may wait is answered with
a state of rest or with the commands of the new state, arming and disarming as the
detector did. `PollButtonOK` is the one about the detector. Then there is a lemma
per command and per poll.

Assumptions: `HoldAssumption`, `TimerAssumption`, `PayloadAssumption`,
`BoundAssumption` and `NoneAssumption`, evaluated by TLC in the `Appliance` run.

`HouseholdProofs` proves, for any finite number of accounts, households, people and
photos, any cameras, ceremonies, grids, requests at once and events, four properties of
the `HouseholdService` run: `TypeCorrect`, `CeremoniesLeadOnce`, `HandLabelsAreKept`
and `PeopleTeach`. The invariant adds to the types

* `ReqOK`: a request carries, at each of its steps, the account, household, person or
  photo that its next statement writes;
* `Fits`: nobody is seated under a household id that has not been given out, so the
  seats of a new household are counted from none; with it the limit of the grid,
  part of `TypeOK`, is inductive, whoever seats people: requests, sign-up or the operator;
* `Once`: a ceremony some request works for is gone, has led to nothing yet, and no
  other request works for it;
* `OpOK` and `Alone`: an erasure found nobody else in its household, or somebody has
  joined since and `disturbed` has noted it.

Requests start, go on and end by lemmas of their own (`StartsOK`, `GoesOK`, `EndsOK`),
and so does the command (`OpGoesOK`, `OpEndsOK`); then there is a lemma per group of
actions. The two theorems about faces come from one lemma on `propose` (`Proposed`)
and hold because the examples are looked up before anything is suggested.

`ErasureProofs` proves the three other properties of that run, all about
`delete-account`, a command of some twenty statements without a transaction that
may stop anywhere and be run again.

`AdministratorRemains` states `AdminRemains`. Its invariant, `AdminInv`, says what the
command goes by once it has looked round: `Planned` (what it has read of the account),
`AnotherAdmin` (the household it leaves has another administrator, or has been
shuffled) and `NobodyElse` (the household it erases has no other account, or somebody
has joined). Since the command reads the roles once, the proof has to follow every
step that changes an account's household or role, which is what `shuffled` notes.

`ErasedStaysErased` states `ErasedForGood`, and is the longest proof of the project.
A deletion that stopped may have removed any prefix of what there is, requests of the
account go on while it is deleted, and afterwards everybody else goes on for ever. Its
invariant, `EraseInv`, has four parts besides the household side's:

* `Ids`: an id that was not given out is nowhere, and no two requests write the same
  new account or photo, so that nothing erased comes back under an old name;
* `ItemInv`: the household of a person or photo can be told from the rows the erasure
  looks at (`StillSeated`, `Traced`), or the photo is on its way in (`OnItsWay`), or it
  is `disturbed`; and while an erasure is under way, what it has not removed yet is
  still in the list it goes by or can still be found (`ToErase`, `Cleared`, `Evicted`);
* `CleanInv`: what an undisturbed deletion has removed at each of its statements, of
  the household (`HomeErased`) and of the account (`AccountErased`). At the last one it
  amounts to the property (`FulfilledIsGone`);
* `GoneInv`: nothing reaches an erased account or household again (`UserGone`,
  `HomeGone`): no request has read it, no token, claim, camera or link names it.

What a step of anybody but the operator may do to each variable is said once
(`Moves`, of which `Links` and `Registers` are the commands that link an account and
register a camera), what a statement of a deletion may do likewise (`Lessens`). Each
part of the invariant is then shown to survive a step that `Moves` or `Lessens`
(`QuietSteps`, `DeletionReaches`, `DeletionChanges`, `EraseKept`), instead of once per
action.

`HousematesAreKept` states `OthersKept`. A deletion takes photographs, and what belongs
to them, from the list it has made and nothing else (`Takes`); whatever gets on that
list is of the household it erases, or of a person seated there too (`ListedIsOwn`).
The invariant this adds, `KindInv`, tells the photographs of cameras from those of
people (`OneKind`), as the erasure finds the two by different columns.

Proving `ErasedStaysErased` corrected the model. A photo belongs to its camera's household of the time,
at its reservation and when the camera is registered elsewhere, which the model had
wrong. And a deletion that is disturbed may leave what no later deletion finds, however
quietly that one runs: a photo on its way in while its camera's rows are erased, or
what another household took over meanwhile. The run does not reach this, as it takes
more events than its bound; the invariant could not be kept without noting it. The code
promises nothing here, so `disturbed` remembers such photos and people, not only the
account that was being deleted.

Assumptions of both modules: `AccountsAssumption`, `RowAssumption`, `GridAssumption`,
`ExamplesAssumption` and `ServiceAssumption`, evaluated by TLC in the
`HouseholdService` run.

`MigrationsProofs` proves, for any builds, whatever they share with each other, any
number of runners, instances and requests, any time limits and any number of events,
the safety properties of the `Migrations` run, `GateFailsClosed` (`ServedComplete`)
and `LockKeepsApart` (`LockExcludes`), and two that are needed on the way and that no
run lists: `TypeCorrect` and `RecordedInOrder` (`InOrder`). Its invariant says

* `Whole`: what a migration on record adds is there, whoever recorded it and from
  whatever build; the schema only grows;
* `InOrder`: the versions on record have no gap, since a runner applies the least of
  what it found missing, and finds the rest on record (`Orderly`), also while another
  runner, which took a lock it thought stale, applies the same ones;
* `Locked`: a runner at work under a name of its own has the lock, as old as its own
  work, or is overdue, so that others may have taken it;
* `Sure` and `Told`: an instance whose report is cached as good, or whose catalog is
  prepared, and a request past those checks, have each of their build's migrations on
  record (`Has`). It is these rows that stay, not the report: another build's
  migrations may turn what was current into drift.

Assumptions: `BodyAssumption`, `BuildsAssumption`, `HolderAssumption`, `TimeAssumption`
and `NoneAssumption`, evaluated by TLC in the `Migrations` run.

Every safety property of a passing run is a theorem. Only model-checked: all liveness
(liveness under fairness and ENABLED are beyond the prover) and the violations.

Three properties say less than their names may suggest, because the code does no more.
`OthersKept` exempts a household that somebody joins during the deletion (its accounts
are counted once), a photograph on its way in, and the photographs of a person seated
in two households; `AdminRemains` one whose accounts or roles change meanwhile;
`TokenLast` a mirror whose address a person has taken away.

## Not modelled

Camera drivers, ring patterns and board support (hardware I/O); the ESP32-P4
Rust adapters (mostly unimplemented); similarity scores of faces (any enrolled
person may be the best match); password hashing, login limits, cookies and
headers; the mobile app's presentation and caches; the local-disk
backend of the photo store; statistics, names and last-seen times. `data`,
`hardware`, `snapr`, `view`, `vendor`, `tools`, `scripts` and the Python `src`
are assets, legacy programs or third-party code.

## Plan

What is left, the most consequential first:

1. `Spool` over `UploadFlow`, as `PhotoDelivery` has the Raspberry Pi, showing
   `Delivery` again: the spool's three requests are one step so far.
2. Two operators at once in `HouseholdService`, and the login limits.
3. The app's operations that outlive their screen in `AddMirror`.
