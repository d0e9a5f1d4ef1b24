-------------------------- MODULE ObjectLifecycle --------------------------
(***************************************************************************)
(* The images of the receipts.  An image lies in the object storage, its   *)
(* receipt in PostgreSQL, and no transaction spans the two: a row of       *)
(* object_cleanup_tasks is kept for every image that may have to go.  The  *)
(* upload of a receipt, its deletion with cleanup_one behind it, and the   *)
(* command cleanup_receipt_objects interleave; each of their calls may     *)
(* fail with or without effect, and each process may die between calls.    *)
(*                                                                         *)
(* A receipt stands for its receipt_id and the object key made from it.    *)
(* An object written by a failed or dying upload is there when the upload  *)
(* ends, or never.                                                         *)
(***************************************************************************)
EXTENDS Naturals, FiniteSets

CONSTANTS
    Receipts,     \* receipt ids, each the result of one uuid4()
    Processes     \* delete requests after their commit, and cleanup commands

VARIABLES
    receipts,     \* committed rows of receipts
    tasks,        \* committed rows of object_cleanup_tasks
    objects,      \* the images in the storage
    upload,       \* per receipt, how far its upload request is
    cleanup       \* the processes that call cleanup_one

vars == <<receipts, tasks, objects, upload, cleanup>>

UploadSteps == {"new", "registered", "stored", "ended"}
Active == {"registered", "stored"}

(***************************************************************************)
(* todo: receipts whose task is still to be handled; step "delete" and     *)
(* "commit": the transaction of cleanup_one holds the lock on the task of  *)
(* current; snapshot: the tasks the command read, nothing for a request.   *)
(***************************************************************************)
Cleanup == [ step : {"idle", "next", "delete", "commit"},
             current : SUBSET Receipts,
             todo : SUBSET Receipts,
             snapshot : SUBSET Receipts,
             failures : BOOLEAN ]

Idle == [ step |-> "idle", current |-> {}, todo |-> {}, snapshot |-> {},
          failures |-> FALSE ]

TypeOK ==
    /\ receipts \subseteq Receipts
    /\ tasks \subseteq Receipts
    /\ objects \subseteq Receipts
    /\ upload \in [Receipts -> UploadSteps]
    /\ cleanup \in [Processes -> Cleanup]

Init ==
    /\ receipts = {}
    /\ tasks = {}
    /\ objects = {}
    /\ upload = [r \in Receipts |-> "new"]
    /\ cleanup = [p \in Processes |-> Idle]

Locked(r) == \E p \in Processes : r \in cleanup[p].current

\* What a call can do: succeed, or raise with or without its effect.
Outcomes == {"done", "raised", "raised_after_effect"}
Effective(outcome) == outcome # "raised"

\* Process p goes on as c.
Becomes(p, c) == [cleanup EXCEPT ![p] = c]

-----------------------------------------------------------------------------
(***************************************************************************)
(* ReceiptUploadService.upload                                             *)
(***************************************************************************)

TasksAfterRegister(r, outcome) ==
    IF Effective(outcome) THEN tasks \union {r} ELSE tasks

\* _registry_cleanup_task commits a transaction of its own.
RegisterCleanupTask(r, outcome) ==
    /\ upload[r] = "new"
    /\ tasks' = TasksAfterRegister(r, outcome)
    /\ upload' = [upload EXCEPT ![r] = IF outcome = "done"
                                       THEN "registered" ELSE "ended"]
    /\ UNCHANGED <<receipts, objects, cleanup>>

\* The row is inserted, uncommitted, and the image uploaded.  Both failures
\* roll back and keep the task; so does the death of the process.
StoreObject(r, outcome) ==
    /\ upload[r] = "registered"
    /\ objects' = IF Effective(outcome) THEN objects \union {r} ELSE objects
    /\ upload' = [upload EXCEPT ![r] = IF outcome = "done"
                                       THEN "stored" ELSE "ended"]
    /\ UNCHANGED <<receipts, tasks, cleanup>>

\* DELETE of the task waits for its lock; then the commit.
CommitUpload(r, outcome) ==
    /\ upload[r] = "stored"
    /\ ~Locked(r)
    /\ IF Effective(outcome)
       THEN /\ receipts' = receipts \union {r}
            /\ tasks' = tasks \ {r}
       ELSE UNCHANGED <<receipts, tasks>>
    /\ upload' = [upload EXCEPT ![r] = "ended"]
    /\ UNCHANGED <<objects, cleanup>>

-----------------------------------------------------------------------------
(***************************************************************************)
(* ReceiptService.delete_receipt and cleanup_receipt_objects               *)
(***************************************************************************)

\* slip: the row is deleted without leaving a task
TasksAfterDeletionForgotten(r) == tasks

TasksAfterDeletion(r) == tasks \union {r}

\* One transaction, under the lock on the row.  When the commit raises, the
\* request ends without a cleanup, whether the row is gone or not.
DeleteReceipt(p, r, outcome) ==
    /\ cleanup[p].step = "idle"
    /\ r \in receipts
    /\ IF Effective(outcome)
       THEN /\ receipts' = receipts \ {r}
            /\ tasks' = TasksAfterDeletion(r)
       ELSE UNCHANGED <<receipts, tasks>>
    /\ cleanup' = IF outcome = "done"
                  THEN Becomes(p, [Idle EXCEPT !.step = "next", !.todo = {r}])
                  ELSE cleanup
    /\ UNCHANGED <<objects, upload>>

\* slip: the command runs while uploads are active
UploadsRunning == TRUE

UploadsStopped == \A r \in Receipts : upload[r] \notin Active

\* The operator passes --uploads-stopped, which is true at that moment;
\* uploads may begin again while the command works on what it has read.
StartCommand(p) ==
    /\ cleanup[p].step = "idle"
    /\ UploadsStopped
    /\ tasks # {}
    /\ cleanup' = Becomes(p, [Idle EXCEPT !.step = "next", !.todo = tasks,
                                          !.snapshot = tasks])
    /\ UNCHANGED <<receipts, tasks, objects, upload>>

\* cleanup_one: get the task with_for_update, then look for a receipt.
LockTask(p, r) ==
    /\ cleanup[p].step = "next"
    /\ r \in cleanup[p].todo
    /\ ~Locked(r)
    /\ IF r \in tasks /\ r \notin receipts
       THEN /\ cleanup' = Becomes(p, [cleanup[p] EXCEPT !.step = "delete",
                                                        !.todo = @ \ {r},
                                                        !.current = {r}])
            /\ UNCHANGED tasks
       ELSE /\ cleanup' = Becomes(p, [cleanup[p] EXCEPT !.todo = @ \ {r}])
            /\ tasks' = tasks \ {r}
    /\ UNCHANGED <<receipts, objects, upload>>

\* slip: an error of the storage is not counted
FailedUncounted(p) == [cleanup[p] EXCEPT !.step = "next", !.current = {}]

\* The transaction is rolled back; the command goes on with the next task.
Failed(p) ==
    [cleanup[p] EXCEPT !.step = "next", !.current = {}, !.failures = TRUE]

DeleteObject(p, outcome) ==
    /\ cleanup[p].step = "delete"
    /\ objects' = IF Effective(outcome)
                  THEN objects \ cleanup[p].current ELSE objects
    /\ cleanup' = IF outcome = "done"
                  THEN Becomes(p, [cleanup[p] EXCEPT !.step = "commit"])
                  ELSE Becomes(p, Failed(p))
    /\ UNCHANGED <<receipts, tasks, upload>>

CommitCleanup(p, outcome) ==
    /\ cleanup[p].step = "commit"
    /\ tasks' = IF Effective(outcome) THEN tasks \ cleanup[p].current ELSE tasks
    /\ cleanup' = IF outcome = "done"
                  THEN Becomes(p, [cleanup[p] EXCEPT !.step = "next",
                                                     !.current = {}])
                  ELSE Becomes(p, Failed(p))
    /\ UNCHANGED <<receipts, objects, upload>>

\* PostgreSQL fails before the lock is held.
LockFails(p, r) ==
    /\ cleanup[p].step = "next"
    /\ r \in cleanup[p].todo
    /\ cleanup' = Becomes(p, [Failed(p) EXCEPT !.todo = @ \ {r}])
    /\ UNCHANGED <<receipts, tasks, objects, upload>>

\* Nothing is left to do: main returns failures, a request answers 204.
Finish(p) ==
    /\ cleanup[p].step = "next"
    /\ cleanup[p].todo = {}
    /\ cleanup' = Becomes(p, Idle)
    /\ UNCHANGED <<receipts, tasks, objects, upload>>

\* PostgreSQL rolls back what a dead process had open.
CleanupDies(p) ==
    /\ cleanup[p].step # "idle"
    /\ cleanup' = Becomes(p, Idle)
    /\ UNCHANGED <<receipts, tasks, objects, upload>>

UploadDies(r) ==
    /\ upload[r] \in Active
    /\ upload' = [upload EXCEPT ![r] = "ended"]
    /\ UNCHANGED <<receipts, tasks, objects, cleanup>>

-----------------------------------------------------------------------------
Upload(r) ==
    \/ \E outcome \in Outcomes : RegisterCleanupTask(r, outcome)
    \/ \E outcome \in Outcomes : StoreObject(r, outcome)
    \/ \E outcome \in Outcomes : CommitUpload(r, outcome)
    \/ UploadDies(r)

Clean(p) ==
    \/ \E r \in Receipts, outcome \in Outcomes : DeleteReceipt(p, r, outcome)
    \/ StartCommand(p)
    \/ \E r \in Receipts : LockTask(p, r)
    \/ \E outcome \in Outcomes : DeleteObject(p, outcome)
    \/ \E outcome \in Outcomes : CommitCleanup(p, outcome)
    \/ \E r \in Receipts : LockFails(p, r)
    \/ Finish(p)
    \/ CleanupDies(p)

Next == \/ \E r \in Receipts : Upload(r)
        \/ \E p \in Processes : Clean(p)

Spec == Init /\ [][Next]_vars

-----------------------------------------------------------------------------
\* At every moment an image in the storage either belongs to a receipt or has
\* a cleanup task, so that no call that fails and no process that dies can
\* leave an image nobody will ever remove.
NoImageForgotten == objects \subseteq receipts \union tasks

\* A receipt that can be listed has its image: nothing that removes images
\* reaches one whose receipt is committed, or is being committed.
ReceiptHasImage == receipts \subseteq objects

\* When the cleanup command ends and has counted no failure, no image is left
\* of any task it found, whatever other processes did to them meanwhile.
CleanRunRemovesAll ==
    [][ \A p \in Processes :
          /\ cleanup[p].step = "next" /\ cleanup[p].todo = {}
          /\ ~cleanup[p].failures
          /\ cleanup'[p] = Idle
          => cleanup[p].snapshot \intersect objects = {} ]_vars
=============================================================================
