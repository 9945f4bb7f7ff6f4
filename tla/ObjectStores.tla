---------------------------- MODULE ObjectStores ----------------------------
(***************************************************************************)
(* src/protected-bundles/storage: MemoryObjectStore, FilesystemObjectStore *)
(* and S3ObjectStore under concurrent calls for one object identifier.     *)
(* Every await is a step; the bytes of a call are known by the call.       *)
(***************************************************************************)
CONSTANTS Puts, Deletes

VARIABLES
    store,      \* which of the three stores is configured
    object,     \* what get returns: the bytes of a call, "partial", or "absent"
    steps,      \* call -> how far it is
    answers     \* call -> its answer

storeVars == <<store, object, steps, answers>>
Calls == Puts \cup Deletes

StoresInit ==
    /\ store = "none"
    /\ object = "absent"
    /\ steps = [c \in Calls |-> "called"]
    /\ answers = [c \in Calls |-> "pending"]

At(kind, c, step) == store = kind /\ answers[c] = "pending" /\ steps[c] = step
Go(c, step) == steps' = [steps EXCEPT ![c] = step] /\ UNCHANGED <<store, answers>>
Answer(c, answer) == answers' = [answers EXCEPT ![c] = answer] /\ UNCHANGED <<store, steps>>

(* The constructors.                                                       *)
open(kind) == store = "none" /\ store' = kind /\ UNCHANGED <<object, steps, answers>>

(* head: an object that is there answers the call.                         *)
head(c, absentStep) ==
    /\ IF object # "absent" THEN Answer(c, "exists") ELSE Go(c, absentStep)
    /\ UNCHANGED object

-----------------------------------------------------------------------------
(* MemoryObjectStore: the source is collected between two looks at the map.*)
memoryLook(c) == At("memory", c, "called") /\ head(c, "collect")
memorySet(c) ==
    /\ At("memory", c, "collect")
    /\ IF object = "absent" THEN object' = c /\ Answer(c, "created")
       ELSE Answer(c, "exists") /\ UNCHANGED object
memoryDelete(c) ==
    /\ At("memory", c, "called")
    /\ IF object = "absent" THEN Answer(c, "missing") ELSE Answer(c, "removed")
    /\ object' = "absent"

-----------------------------------------------------------------------------
(* FilesystemObjectStore: a temporary file of its own is written and       *)
(* synced, then linked to the destination.                                 *)
filesystemHead(c) == At("filesystem", c, "called") /\ head(c, "write")

Mutant_filesystemWrite(c) ==
    /\ At("filesystem", c, "write")
    /\ Go(c, "link")
    /\ object' = "partial"
filesystemWrite(c) ==
    /\ At("filesystem", c, "write")
    /\ Go(c, "link")
    /\ UNCHANGED object

filesystemLink(c) ==
    /\ At("filesystem", c, "link")
    /\ IF object = "absent" THEN object' = c /\ Answer(c, "created")
       ELSE Go(c, "stat") /\ UNCHANGED object

(* EEXIST: the winner is looked at, and may have been deleted by then.     *)
filesystemStat(c) ==
    /\ At("filesystem", c, "stat")
    /\ IF object = "absent" THEN Answer(c, "failed") ELSE Answer(c, "exists")
    /\ UNCHANGED object

filesystemUnlink(c) ==
    /\ At("filesystem", c, "called")
    /\ IF object = "absent" THEN Answer(c, "missing") ELSE Answer(c, "removed")
    /\ object' = "absent"

(* The process stops: its calls are never answered, temporary files stay.  *)
filesystemCrash ==
    /\ store = "filesystem"
    /\ answers' = [c \in Calls |-> IF answers[c] = "pending" THEN "failed" ELSE answers[c]]
    /\ UNCHANGED <<store, object, steps>>

-----------------------------------------------------------------------------
(* S3ObjectStore: PutObject with If-None-Match.  The answer of the service *)
(* may get lost, and the client then sends the request again.              *)
s3Put(c) ==
    /\ At("s3", c, "called")
    /\ \/ /\ object = "absent"
          /\ object' = c
          /\ Answer(c, "created") \/ UNCHANGED <<store, steps, answers>>
       \/ /\ object # "absent"
          /\ Go(c, "conflict")
          /\ UNCHANGED object

s3Head(c) ==
    /\ At("s3", c, "conflict")
    /\ IF object = "absent" THEN Answer(c, "failed") ELSE Answer(c, "exists")
    /\ UNCHANGED object

s3DeleteHead(c) ==
    /\ At("s3", c, "called")
    /\ IF object = "absent" THEN Answer(c, "missing") ELSE Go(c, "delete")
    /\ UNCHANGED object

s3Delete(c) ==
    /\ At("s3", c, "delete")
    /\ object' = "absent"
    /\ Answer(c, "removed")

-----------------------------------------------------------------------------
(* The source is longer than maxObjectBytes or breaks off, the signal      *)
(* aborts, the store is unavailable.                                       *)
failed(c) ==
    /\ store # "none"
    /\ answers[c] = "pending"
    /\ Answer(c, "failed")
    /\ UNCHANGED object

StoresNext ==
    \/ \E kind \in {"memory", "filesystem", "s3"} : open(kind)
    \/ \E c \in Puts :
          \/ memoryLook(c) \/ memorySet(c)
          \/ filesystemHead(c) \/ filesystemWrite(c) \/ filesystemLink(c) \/ filesystemStat(c)
          \/ s3Put(c) \/ s3Head(c)
    \/ \E c \in Deletes : memoryDelete(c) \/ filesystemUnlink(c) \/ s3DeleteHead(c) \/ s3Delete(c)
    \/ \E c \in Calls : failed(c)
    \/ filesystemCrash

StoresSpec == StoresInit /\ [][StoresNext]_storeVars

-----------------------------------------------------------------------------
Interface == INSTANCE ObjectStore

(* Whatever calls run in between, fail or are repeated, each of the three  *)
(* stores keeps the promise of OpaqueObjectStore that promoteStagedObject  *)
(* and replicateExact rest on.                                             *)
EveryStoreIsAtomic == Interface!StoreSpec
=============================================================================
