---------------------------- MODULE BlobStorage ----------------------------
(***************************************************************************)
(* The blobs of one vault in object storage: LocalDiskBlobObjectStorage,   *)
(* S3BlobObjectStorage and R2BlobObjectStorage, and the transfers that     *)
(* BlobTransferService makes through them.  The coordinator that stages a  *)
(* blob, and takes the stage back, is SyncCoordinator's; here it answers   *)
(* or fails.                                                               *)
(*                                                                         *)
(* A body has the declared length ("exact"), is shorter or longer, or      *)
(* breaks.  Keys are numbers, in the order in which a bucket lists them.   *)
(***************************************************************************)
EXTENDS Integers, FiniteSets

CONSTANTS
  Op,     \* uploads, downloads, collections and purges
  Key,
  Batch   \* LIST_BATCH_SIZE, R2_LIST_BATCH_SIZE

ASSUME BlobAssumption == Key \subseteq Nat /\ IsFiniteSet(Key) /\ Batch \in Nat \ {0}

VARIABLES
  backend,   \* "disk", "s3" or "r2"
  object,    \* what each key holds: absent, whole or cut
  room,      \* on disk: the directory of the vault exists
  part,      \* on disk: uploads whose .part file exists
  littered,  \* history variable: uploads whose .part file could not be removed
  op         \* what every operation is doing

blobVars == <<backend, object, room, part, littered, op>>

NoOp == [does |-> "nothing", pc |-> "idle", keys |-> {}, todo |-> {}, chunk |-> {},
         left |-> {}, failed |-> {}, later |-> FALSE, verdict |-> "none"]

BlobTypeOK ==
  /\ backend \in {"disk", "s3", "r2"}
  /\ object \in [Key -> {"absent", "whole", "cut"}]
  /\ room \in BOOLEAN
  /\ part \subseteq Op /\ littered \subseteq part
  /\ \A o \in Op :
       /\ op[o].does \in {"nothing", "put", "get", "collect", "purge"}
       /\ op[o].left \subseteq op[o].chunk
       /\ op[o].todo \cup op[o].chunk \cup op[o].failed \subseteq op[o].keys
       /\ op[o].keys \subseteq Key

BlobInit(where, stored) ==
  /\ backend = where
  /\ object = [k \in Key |-> IF k \in stored THEN "whole" ELSE "absent"]
  /\ room = (stored # {})
  /\ part = {} /\ littered = {}
  /\ op = [o \in Op |-> NoOp]

At(o, pc) == op[o].pc = pc

KeyOf(o) == CHOOSE k \in op[o].keys : TRUE

Becomes(o, r) == op' = [op EXCEPT ![o] = r]

Goes(o, pc) == Becomes(o, [op[o] EXCEPT !.pc = pc])

\* An operation answers: "ok", or for a download what it found, or "failed",
\* and the keys that a deletion reports as not deleted.
Reports(o, verdict, failed) ==
  Becomes(o, [NoOp EXCEPT !.does = op[o].does, !.pc = "done", !.keys = op[o].keys,
                          !.failed = failed, !.verdict = verdict])

Answers(o, verdict) == Reports(o, verdict, {})

Untouched == UNCHANGED <<backend, object, room, part, littered>>

Begins(o, does, pc, K) ==
  /\ op[o] = NoOp
  /\ Becomes(o, [NoOp EXCEPT !.does = does, !.pc = pc, !.keys = K, !.todo = K])
  /\ Untouched

-----------------------------------------------------------------------------
(* Uploads. *)

\* PUT with a body, a valid size and a valid token; the coordinator is asked
\* to stage the blob.
UploadBlob(o, k) == Begins(o, "put", "staging", {k})

StageAnswered(o) ==
  /\ At(o, "staging")
  /\ Goes(o, "opening") \/ Answers(o, "failed")
  /\ Untouched

\* On disk the directories are made, if they can be, and the .part file is
\* created under a name of its own; the others open nothing.
OpenPart(o) ==
  /\ At(o, "opening")
  /\ \/ /\ Goes(o, "receiving")
        /\ room' = (room \/ backend = "disk")
        /\ part' = IF backend = "disk" THEN part \cup {o} ELSE part
     \/ backend = "disk" /\ Goes(o, "aborting") /\ UNCHANGED <<room, part>>
  /\ UNCHANGED <<backend, object, littered>>

\* limitBodySize: the length of what arrived is the declared one.
Fits(body) == body = "exact"

\* Mutant: a refused body returns without removing the file.
ReceiveOnDiskReturns(o, body) ==
  /\ backend = "disk" /\ At(o, "receiving")
  /\ \/ Fits(body) /\ Goes(o, "renaming")
     \/ Goes(o, "aborting")
  /\ Untouched

ReceiveOnDisk(o, body) ==
  /\ backend = "disk" /\ At(o, "receiving")
  /\ \/ Fits(body) /\ Goes(o, "renaming")
     \/ Goes(o, "cleaning")       \* wrong length, a broken body, a failed write
  /\ Untouched

\* The rename needs the directory, which a purge may have removed.
Rename(o) ==
  /\ At(o, "renaming")
  /\ \/ /\ room
        /\ object' = [object EXCEPT ![KeyOf(o)] = "whole"]
        /\ part' = part \ {o}
        /\ Goes(o, "placed")
     \/ UNCHANGED <<object, part>> /\ Goes(o, "cleaning")
  /\ UNCHANGED <<backend, room, littered>>

\* The .part file of an upload that did not complete is removed, if it can be.
Cleanup(o) ==
  /\ At(o, "cleaning")
  /\ Goes(o, "aborting")
  /\ \/ part' = part \ {o} /\ UNCHANGED littered
     \/ littered' = littered \cup {o} /\ UNCHANGED part
  /\ UNCHANGED <<backend, object, room>>

\* S3 gets the object only when the whole body is here and has its length.
ReceiveForS3(o, body) ==
  /\ backend = "s3" /\ At(o, "receiving")
  /\ Goes(o, IF Fits(body) THEN "sending" ELSE "aborting")
  /\ Untouched

\* The object is stored at once, but its answer may be lost and the request
\* sent again.
PutToS3(o) ==
  /\ backend = "s3" /\ At(o, "sending")
  /\ object' = [object EXCEPT ![KeyOf(o)] = "whole"]
  /\ Goes(o, "sending") \/ Goes(o, "placed")
  /\ UNCHANGED <<backend, room, part, littered>>

PutToS3Fails(o) ==
  /\ backend = "s3" /\ At(o, "sending")
  /\ Goes(o, "aborting") /\ Untouched

\* R2 reads the body while it arrives.  A body that is too long may leave an
\* object of the declared length, and the upload is refused all the same.
ReceiveForR2(o, body) ==
  /\ backend = "r2" /\ At(o, "receiving")
  /\ \/ UNCHANGED object /\ Goes(o, "aborting")
     \/ /\ body = "exact"
        /\ object' = [object EXCEPT ![KeyOf(o)] = "whole"]
        /\ Goes(o, "placed") \/ Goes(o, "aborting")
     \/ /\ body = "long"
        /\ object' = [object EXCEPT ![KeyOf(o)] = "cut"]
        /\ Goes(o, "aborting")
  /\ UNCHANGED <<backend, room, part, littered>>

UploadAnswered(o) ==
  /\ At(o, "placed")
  /\ Answers(o, "ok")
  /\ Untouched

\* The coordinator is asked to take the stage back; whether it does or not,
\* the client hears of the failed transfer.
AbortUpload(o) ==
  /\ At(o, "aborting")
  /\ Answers(o, "failed")
  /\ Untouched

-----------------------------------------------------------------------------
(* Downloads. *)

DownloadBlob(o, k) == Begins(o, "get", "looking", {k})

\* S3 and R2 answer with the object; the disk has only been asked whether the
\* file is there.
Look(o) ==
  /\ At(o, "looking")
  /\ \/ Answers(o, "failed")
     \/ object[KeyOf(o)] = "absent" /\ Answers(o, "absent")
     \/ /\ object[KeyOf(o)] # "absent"
        /\ IF backend = "disk" THEN Goes(o, "reading") ELSE Answers(o, object[KeyOf(o)])
  /\ Untouched

\* The file is opened when the answer is already under way.
ReadFile(o) ==
  /\ At(o, "reading")
  /\ Answers(o, IF object[KeyOf(o)] = "absent" THEN "failed" ELSE object[KeyOf(o)])
  /\ Untouched

-----------------------------------------------------------------------------
(* Deletions: of the keys a collection names, and of everything a vault has. *)

First(K) == {k \in K : Cardinality({j \in K : j < k}) < Batch}

\* The disk knows neither batches nor pages.
Portion(K) == IF backend = "disk" THEN K ELSE First(K)

DeleteMany(o, K) == Begins(o, "collect", "asking", K)

AskChunk(o) ==
  /\ At(o, "asking")
  /\ LET chunk == Portion(op[o].todo) IN
     Becomes(o, [op[o] EXCEPT !.pc = "deleting", !.chunk = chunk, !.left = chunk,
                              !.todo = @ \ chunk])
  /\ Untouched

\* A batch goes object by object.  S3's is sent again when its answer is lost.
RemoveObject(o, k) ==
  /\ At(o, "deleting")
  /\ k \in op[o].left \/ (backend = "s3" /\ k \in op[o].chunk)
  /\ object' = [object EXCEPT ![k] = "absent"]
  /\ Becomes(o, [op[o] EXCEPT !.left = @ \ {k}])
  /\ UNCHANGED <<backend, room, part, littered>>

\* One key fails: its unlink is rejected, or S3's answer has an Error for it.
KeyFails(o, k) ==
  /\ backend # "r2" /\ At(o, "deleting") /\ k \in op[o].left
  /\ Becomes(o, [op[o] EXCEPT !.left = @ \ {k}, !.failed = @ \cup {k}])
  /\ Untouched

ChunkDone(o) ==
  /\ op[o].does = "collect" /\ At(o, "deleting") /\ op[o].left = {}
  /\ IF op[o].todo = {}
     THEN Reports(o, "ok", op[o].failed)
     ELSE Becomes(o, [op[o] EXCEPT !.pc = "asking", !.later = TRUE, !.chunk = {}])
  /\ Untouched

\* Mutant: the failed batch itself is not reported.
ChunkFailsAfter(o) ==
  /\ backend # "disk" /\ op[o].does = "collect" /\ At(o, "deleting")
  /\ IF op[o].later
     THEN Reports(o, "ok", op[o].failed \cup op[o].todo)
     ELSE Answers(o, "failed")
  /\ Untouched

\* The first batch failing fails the call; a later one, and all that follow it,
\* are reported as not deleted.
ChunkFails(o) ==
  /\ backend # "disk" /\ op[o].does = "collect" /\ At(o, "deleting")
  /\ IF op[o].later
     THEN Reports(o, "ok", op[o].failed \cup op[o].chunk \cup op[o].todo)
     ELSE Answers(o, "failed")
  /\ Untouched

DeleteByPrefix(o) == Begins(o, "purge", "listing", Key)

Truncated(found) == found # Portion(found)

\* One page of the keys after the last one listed, which a batch deletes.
ListPage(o) ==
  /\ At(o, "listing")
  /\ LET found == {k \in op[o].todo : object[k] # "absent"}
         page == Portion(found)
     IN Becomes(o, [op[o] EXCEPT
          !.pc = "deleting", !.chunk = page, !.left = page,
          !.todo = IF Truncated(found)
                   THEN {k \in @ : \A j \in page : j < k} ELSE {}])
  /\ Untouched

PageDone(o) ==
  /\ op[o].does = "purge" /\ At(o, "deleting") /\ op[o].left = {}
  /\ CASE op[o].failed # {} -> Answers(o, "failed")
       [] op[o].failed = {} /\ op[o].todo # {} ->
            Becomes(o, [op[o] EXCEPT !.pc = "listing", !.chunk = {}])
       [] op[o].failed = {} /\ op[o].todo = {} ->
            IF backend = "disk" THEN Goes(o, "removing") ELSE Answers(o, "ok")
  /\ Untouched

\* The listing or the batch is answered with an error.
PurgeFails(o) ==
  /\ op[o].does = "purge" /\ ~At(o, "done")
  /\ Answers(o, "failed")
  /\ Untouched

\* On disk the emptied directory goes too; a file renamed into it meanwhile
\* keeps it, and the purge fails.
RemoveRoom(o) ==
  /\ At(o, "removing")
  /\ LET empty == \A k \in Key : object[k] = "absent" IN
     /\ Answers(o, IF empty THEN "ok" ELSE "failed")
     /\ room' = (room /\ ~empty)
  /\ UNCHANGED <<backend, object, part, littered>>

-----------------------------------------------------------------------------
\* LocalDiskBlobObjectStorage.initialize, before any request: what uploads of
\* an earlier process left is removed.
Initialize ==
  /\ part' = IF backend = "disk" THEN {} ELSE part
  /\ littered' = {}
  /\ UNCHANGED <<backend, object, room, op>>

\* The process ends in the midst of what it does.
BlobCrash ==
  /\ op' = [o \in Op |-> NoOp]
  /\ Untouched

BlobStep(o) ==
  \/ OpenPart(o) \/ Rename(o) \/ Cleanup(o) \/ PutToS3(o) \/ PutToS3Fails(o)
  \/ UploadAnswered(o) \/ Look(o) \/ ReadFile(o)
  \/ AskChunk(o) \/ ChunkDone(o) \/ ChunkFails(o)
  \/ ListPage(o) \/ PageDone(o) \/ PurgeFails(o) \/ RemoveRoom(o)
  \/ \E k \in Key : RemoveObject(o, k) \/ KeyFails(o, k)
  \/ \E body \in {"exact", "short", "long", "broken"} :
       ReceiveOnDisk(o, body) \/ ReceiveForS3(o, body) \/ ReceiveForR2(o, body)

-----------------------------------------------------------------------------
(* What the storage promises. *)

Running(o) == op[o].pc \notin {"idle", "done"}

Deleting(o) == op[o].does \in {"collect", "purge"} /\ Running(o)

Promise == INSTANCE ObjectStore WITH
  tears <- backend = "r2",
  content <- object,
  asked <- [o \in Op |->
    [does |-> IF ~Running(o) THEN "nothing"
              ELSE IF Deleting(o) THEN "delete" ELSE op[o].does,
     keys |-> IF Running(o) THEN op[o].keys ELSE {}]],
  placed <- {o \in Op : At(o, "placed")},
  owed <- [o \in Op |->
    IF Deleting(o) THEN op[o].todo \cup op[o].left \cup op[o].failed ELSE {}],
  answer <- [o \in Op |->
    [is |-> op[o].verdict, failed |-> IF Running(o) THEN {} ELSE op[o].failed]]
=============================================================================
