------------------------------ MODULE UploadFlow ------------------------------
(***************************************************************************)
(* The server's side of an upload (upload_flow.rs, catalog.rs, photos.rs   *)
(* and the upload routes) over the R2 backend: a row is reserved, the      *)
(* camera puts the object into the bucket by a signed URL, and completion  *)
(* checks it and marks the row ready.  The daily reconciliation and the    *)
(* user's rotations and deletions work on the same rows and objects.       *)
(*                                                                         *)
(* Every statement and every call to the bucket is a step: none of these   *)
(* handlers holds a transaction across two of them.                        *)
(*                                                                         *)
(* The object of a photo is a rendition: 0 is the camera's JPEG, n the     *)
(* JPEG written by the n-th rotation.  Two renditions differ in length, so *)
(* a byte_size is the rendition that has it.                               *)
(***************************************************************************)
EXTENDS Naturals, FiniteSets

CONSTANTS Photos,      \* capture ids
          Unreadable,  \* those whose JPEG is framed, and does not decode
          Clients,     \* the processes that upload
          TokenOf,     \* the device a client's token names, or Absent
          Devices,     \* paired devices
          Slots,       \* bound on the requests the server works on at once
          MaxTurns,    \* bound on the rotations of a photo
          Absent       \* no row, no object, no device, no size, nobody

ASSUME UnreadableAssumption == Unreadable \subseteq Photos
ASSUME TokenAssumption      == TokenOf \in [Clients -> Devices \cup {Absent}]
ASSUME BoundAssumption      == MaxTurns \in Nat
ASSUME AbsentAssumption     == /\ Absent \notin Photos /\ Absent \notin Clients
                               /\ Absent \notin Devices /\ Absent \notin Nat

VARIABLES
    rows,     \* photos
    objects,  \* the bucket's photos
    thumbs,   \* the bucket's thumbnails
    handlers, \* upload requests the server works on
    replies,  \* what came back to a client
    edit,     \* the rotation or deletion under way
    sweep,    \* the reconciliation under way
    filed     \* photos measured, drawn and made ready

flow == <<rows, objects, thumbs, handlers, replies, edit, sweep, filed>>

Renditions == 0..MaxTurns
NewRow(size, device) == [ready |-> FALSE, size |-> size, device |-> device, thumb |-> FALSE]
Row == [ready : BOOLEAN, size : Renditions \cup {Absent},
        device : Devices \cup {Absent}, thumb : BOOLEAN]

Phases == {"guard", "upsert", "expect", "measure", "thumb", "draw", "ready", "mark"}
Idle == [pc |-> "idle", photo |-> Absent, client |-> Absent, device |-> Absent, saw |-> Absent]
NoEdit == [pc |-> "idle", photo |-> Absent, saw |-> Absent]
NoSweep == [pc |-> "idle", ready |-> {}, pending |-> {}, stored |-> {}, todo |-> {}, at |-> Absent]

Stored == {p \in Photos : objects[p] # Absent}
Listed == {p \in Photos : rows[p] # Absent}
Gallery == {p \in Listed : rows[p].ready}

FlowInit ==
    /\ rows = [p \in Photos |-> Absent]
    /\ objects = [p \in Photos |-> Absent] /\ thumbs = [p \in Photos |-> Absent]
    /\ handlers = [s \in Slots |-> Idle] /\ replies = [c \in Clients |-> "none"]
    /\ edit = NoEdit /\ sweep = NoSweep
    /\ filed = {}

-----------------------------------------------------------------------------
(* Requests.  A client that gives up leaves its request running.           *)

Free == {s \in Slots : handlers[s] = Idle}
Call(c, pc, p) ==
    /\ Free # {}
    /\ handlers' = [handlers EXCEPT ![CHOOSE s \in Free : TRUE] =
            [pc |-> pc, photo |-> p, client |-> c, device |-> TokenOf[c], saw |-> Absent]]
Hangs(c) == [s \in Slots |-> [handlers[s] EXCEPT !.client = IF @ = c THEN Absent ELSE @]]

At(s, pc) == handlers[s].pc = pc
StepTo(s, pc, saw) ==
    /\ handlers' = [handlers EXCEPT ![s].pc = pc, ![s].saw = saw]
    /\ UNCHANGED replies
Answer(s, status) ==
    /\ handlers' = [handlers EXCEPT ![s] = Idle]
    /\ replies' = IF handlers[s].client = Absent THEN replies
                  ELSE [replies EXCEPT ![handlers[s].client] = status]

(* A statement or a call to the bucket fails: the answer is an error.      *)
HandlerFails(s) ==
    /\ handlers[s] # Idle /\ Answer(s, "error")
    /\ UNCHANGED <<rows, objects, thumbs, edit, sweep, filed>>
(* The function is killed: nothing comes back.                             *)
HandlerDies(s) ==
    /\ handlers[s] # Idle /\ handlers' = [handlers EXCEPT ![s] = Idle]
    /\ UNCHANGED <<rows, objects, thumbs, replies, edit, sweep, filed>>

-----------------------------------------------------------------------------
(* POST /api/uploads                                                       *)

SameUpload(row, size, device) ==
    row.size = size /\ (device = Absent \/ device = row.device)
MayReserve(p, size, device) ==
    rows[p] # Absent => (rows[p].ready => SameUpload(rows[p], size, device))

GuardRow(s) ==
    /\ At(s, "guard")
    /\ IF MayReserve(handlers[s].photo, 0, handlers[s].device)
       THEN StepTo(s, "upsert", Absent) ELSE Answer(s, "error")
    /\ UNCHANGED <<rows, objects, thumbs, edit, sweep, filed>>

Reserved(row, device) ==
    IF row = Absent THEN NewRow(0, device)
    ELSE [row EXCEPT !.size = 0, !.device = IF device = Absent THEN @ ELSE device]

UpsertRow(s) ==
    /\ At(s, "upsert")
    /\ rows' = [rows EXCEPT ![handlers[s].photo] = Reserved(@, handlers[s].device)]
    /\ Answer(s, "ok")
    /\ UNCHANGED <<objects, thumbs, edit, sweep, filed>>

(* The signed URL: the bucket takes the bytes, whatever it held.           *)
PutObject(p) == objects' = [objects EXCEPT ![p] = 0]

-----------------------------------------------------------------------------
(* POST /api/uploads/{id}: finalize_upload.                                *)

ExpectedSize(s) ==
    /\ At(s, "expect")
    /\ LET row == rows[handlers[s].photo] IN
       IF row = Absent THEN Answer(s, "error")
       ELSE IF row.size = Absent THEN Answer(s, "error") ELSE StepTo(s, "measure", row.size)
    /\ UNCHANGED <<rows, objects, thumbs, edit, sweep, filed>>

HasSize(p, size) == objects[p] = size

UploadedSize(s) ==
    /\ At(s, "measure")
    /\ IF HasSize(handlers[s].photo, handlers[s].saw)
       THEN StepTo(s, "thumb", Absent) ELSE Answer(s, "error")
    /\ UNCHANGED <<rows, objects, thumbs, edit, sweep, filed>>

(* Mutant: a JPEG that does not decode gets a blank thumbnail.             *)
BugDecodesAll(p) == objects[p] # Absent
Decodes(p) == objects[p] # Absent /\ p \notin Unreadable

(* ensure_thumbnail keeps the one that is there.                           *)
EnsureThumbnail(s) ==
    /\ At(s, "thumb")
    /\ LET p == handlers[s].photo IN
       \/ thumbs[p] # Absent /\ StepTo(s, "ready", Absent)
       \/ thumbs[p] = Absent /\ Decodes(p) /\ StepTo(s, "draw", objects[p])
       \/ thumbs[p] = Absent /\ ~Decodes(p) /\ Answer(s, "error")
    /\ UNCHANGED <<rows, objects, thumbs, edit, sweep, filed>>
WriteThumbnail(s) ==
    /\ At(s, "draw")
    /\ thumbs' = [thumbs EXCEPT ![handlers[s].photo] = handlers[s].saw]
    /\ StepTo(s, "ready", Absent)
    /\ UNCHANGED <<rows, objects, edit, sweep, filed>>

Publish(p) == rows' = [rows EXCEPT ![p].ready = TRUE] /\ filed' = filed \cup {p}

MarkReady(s) ==
    /\ At(s, "ready")
    /\ \/ rows[handlers[s].photo] # Absent /\ Publish(handlers[s].photo)
          /\ StepTo(s, "mark", Absent)
       \/ rows[handlers[s].photo] = Absent /\ Answer(s, "error") /\ UNCHANGED <<rows, filed>>
    /\ UNCHANGED <<objects, thumbs, edit, sweep>>

ThumbMarked(p) == [rows EXCEPT ![p] = IF @ = Absent THEN @ ELSE [@ EXCEPT !.thumb = TRUE]]

(* The photo is then queued for analysis: see ProcessingQueue.             *)
MarkThumbnailReady(s) ==
    /\ At(s, "mark")
    /\ rows' = ThumbMarked(handlers[s].photo) /\ Answer(s, "ok")
    /\ UNCHANGED <<objects, thumbs, edit, sweep, filed>>

HandlerStep(s) ==
    \/ GuardRow(s) \/ UpsertRow(s) \/ ExpectedSize(s) \/ UploadedSize(s)
    \/ EnsureThumbnail(s) \/ WriteThumbnail(s) \/ MarkReady(s) \/ MarkThumbnailReady(s)

-----------------------------------------------------------------------------
(* PATCH and DELETE /api/photos/{id}, on a photo of the gallery.           *)

EditAt(pc) == edit.pc = pc
EditGoes(pc) == edit' = [edit EXCEPT !.pc = pc]
Kept == UNCHANGED <<handlers, replies, sweep>>

RotateRead(p) ==
    /\ edit = NoEdit /\ p \in Gallery /\ Decodes(p) /\ objects[p] < MaxTurns
    /\ edit' = [pc |-> "store", photo |-> p, saw |-> objects[p] + 1]
    /\ Kept /\ UNCHANGED <<rows, objects, thumbs, filed>>
RotateStore ==
    /\ EditAt("store") /\ EditGoes("redraw")
    /\ objects' = [objects EXCEPT ![edit.photo] = edit.saw]
    /\ Kept /\ UNCHANGED <<rows, thumbs, filed>>
RotateThumb ==
    /\ EditAt("redraw") /\ EditGoes("record")
    /\ thumbs' = [thumbs EXCEPT ![edit.photo] = edit.saw]
    /\ Kept /\ UNCHANGED <<rows, objects, filed>>
RotateRecord ==
    /\ EditAt("record") /\ edit' = NoEdit
    /\ rows' = IF edit.photo \in Gallery
               THEN [rows EXCEPT ![edit.photo].size = edit.saw, ![edit.photo].thumb = TRUE]
               ELSE rows
    /\ Kept /\ UNCHANGED <<objects, thumbs, filed>>

DeleteThumb(p) ==
    /\ edit = NoEdit /\ p \in Gallery
    /\ edit' = [pc |-> "erase", photo |-> p, saw |-> Absent]
    /\ thumbs' = [thumbs EXCEPT ![p] = Absent]
    /\ Kept /\ UNCHANGED <<rows, objects, filed>>
DeleteObject ==
    /\ EditAt("erase") /\ EditGoes("unlist")
    /\ objects' = [objects EXCEPT ![edit.photo] = Absent]
    /\ Kept /\ UNCHANGED <<rows, thumbs, filed>>
DeleteRow ==
    /\ EditAt("unlist") /\ edit' = NoEdit
    /\ rows' = [rows EXCEPT ![edit.photo] = Absent]
    /\ Kept /\ UNCHANGED <<objects, thumbs, filed>>
EditDies ==
    /\ edit # NoEdit /\ edit' = NoEdit
    /\ Kept /\ UNCHANGED <<rows, objects, thumbs, filed>>

EditStarts == \E p \in Photos : RotateRead(p) \/ DeleteThumb(p)
EditStep ==
    \/ RotateStore \/ RotateThumb \/ RotateRecord \/ DeleteObject \/ DeleteRow

-----------------------------------------------------------------------------
(* reconcile_all, once a day: three lists are read, one after the other,   *)
(* and what follows works from them.                                       *)

SweepAt(pc) == sweep.pc = pc
Aside == UNCHANGED <<handlers, replies, edit>>

SweepReady ==
    /\ sweep = NoSweep
    /\ sweep' = [NoSweep EXCEPT !.pc = "pending", !.ready = Gallery]
    /\ Aside /\ UNCHANGED <<rows, objects, thumbs, filed>>
SweepPending ==
    /\ SweepAt("pending")
    /\ sweep' = [sweep EXCEPT !.pc = "stored", !.todo = Listed \ Gallery,
                              !.pending = Listed \ Gallery]
    /\ Aside /\ UNCHANGED <<rows, objects, thumbs, filed>>
SweepStored ==
    /\ SweepAt("stored") /\ sweep' = [sweep EXCEPT !.pc = "each", !.stored = Stored]
    /\ Aside /\ UNCHANGED <<rows, objects, thumbs, filed>>

Drawn(p) == [thumbs EXCEPT ![p] = IF @ = Absent THEN objects[p] ELSE @]
CanDraw(p) == thumbs[p] # Absent \/ Decodes(p)

(* A listed reservation whose object has come is finished.  A pending row  *)
(* always has the size of the camera's JPEG.                               *)
SweepRecover(p) ==
    /\ SweepAt("each") /\ p \in sweep.todo /\ HasSize(p, 0) /\ CanDraw(p)
    /\ thumbs' = Drawn(p) /\ sweep' = [sweep EXCEPT !.pc = "recover", !.at = p]
    /\ Aside /\ UNCHANGED <<rows, objects, filed>>
SweepSkip(p) ==
    /\ SweepAt("each") /\ p \in sweep.todo /\ ~(HasSize(p, 0) /\ CanDraw(p))
    /\ sweep' = [sweep EXCEPT !.todo = @ \ {p}]
    /\ Aside /\ UNCHANGED <<rows, objects, thumbs, filed>>
(* Without its row, the whole reconciliation ends in an error.             *)
SweepMarkReady ==
    /\ SweepAt("recover")
    /\ IF rows[sweep.at] = Absent
       THEN sweep' = NoSweep /\ UNCHANGED <<rows, filed>>
       ELSE sweep' = [sweep EXCEPT !.pc = "recovered"] /\ Publish(sweep.at)
    /\ Aside /\ UNCHANGED <<objects, thumbs>>
SweepMarkThumb ==
    /\ SweepAt("recovered") /\ rows' = ThumbMarked(sweep.at)
    /\ sweep' = [sweep EXCEPT !.pc = "each", !.todo = @ \ {sweep.at}, !.at = Absent]
    /\ Aside /\ UNCHANGED <<objects, thumbs, filed>>

Orphans == sweep.stored \ (sweep.ready \cup sweep.pending)

SweepOrphans ==
    /\ SweepAt("each") /\ sweep.todo = {}
    /\ sweep' = [sweep EXCEPT !.pc = "import", !.todo = Orphans]
    /\ Aside /\ UNCHANGED <<rows, objects, thumbs, filed>>
(* An object without a row gets one, of no known size; a row is made ready.*)
Imported(row) == IF row = Absent THEN [NewRow(Absent, Absent) EXCEPT !.ready = TRUE]
                 ELSE [row EXCEPT !.ready = TRUE]
SweepImport(p) ==
    /\ SweepAt("import") /\ p \in sweep.todo
    /\ rows' = [rows EXCEPT ![p] = Imported(@)] /\ sweep' = [sweep EXCEPT !.todo = @ \ {p}]
    /\ Aside /\ UNCHANGED <<objects, thumbs, filed>>
SweepThumbs ==
    /\ SweepAt("import") /\ sweep.todo = {}
    /\ sweep' = [sweep EXCEPT !.pc = "thumbs",
                              !.todo = {p \in Gallery \cap sweep.stored : ~rows[p].thumb}]
    /\ Aside /\ UNCHANGED <<rows, objects, thumbs, filed>>
SweepThumb(p) ==
    /\ SweepAt("thumbs") /\ p \in sweep.todo /\ sweep' = [sweep EXCEPT !.todo = @ \ {p}]
    /\ IF CanDraw(p) THEN thumbs' = Drawn(p) /\ rows' = ThumbMarked(p)
       ELSE UNCHANGED <<rows, thumbs>>
    /\ Aside /\ UNCHANGED <<objects, filed>>
SweepEnds ==
    /\ SweepAt("thumbs") /\ sweep.todo = {} /\ sweep' = NoSweep
    /\ Aside /\ UNCHANGED <<rows, objects, thumbs, filed>>
(* A statement fails, or the function is killed.                           *)
SweepDies ==
    /\ sweep # NoSweep /\ sweep' = NoSweep /\ Aside /\ UNCHANGED <<rows, objects, thumbs, filed>>

SweepStep ==
    \/ SweepPending \/ SweepStored \/ SweepMarkReady \/ SweepMarkThumb
    \/ SweepOrphans \/ SweepThumbs \/ SweepEnds
    \/ \E p \in Photos : \/ SweepRecover(p) \/ SweepSkip(p)
                         \/ SweepImport(p) \/ SweepThumb(p)

ServerNext == (\E s \in Slots : HandlerStep(s)) \/ EditStep \/ SweepStep
(* What happens now and then: see PhotoDelivery.                           *)
ServerEvents ==
    \/ EditStarts \/ SweepReady
    \/ \E s \in Slots : HandlerFails(s) \/ HandlerDies(s)
    \/ EditDies \/ SweepDies
=============================================================================
