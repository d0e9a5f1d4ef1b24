----------------------- MODULE ObjectLifecycleProofs -----------------------
(***************************************************************************)
(* Proofs about ObjectLifecycle, for any set of receipts and of processes. *)
(*                                                                         *)
(* The two invariants of the storage are not inductive alone: that the     *)
(* cleanup never reaches an image being uploaded rests on what an upload   *)
(* in progress holds (Uploading), on who may hold a task's lock (Locking)  *)
(* and on what a command may still have to do (Planned).                   *)
(***************************************************************************)
EXTENDS ObjectLifecycle, TLAPS

\* An upload before its registration has left nothing; one in progress has a
\* task and no receipt; and once the image is stored, it stays.
Uploading ==
    \A r \in Receipts :
        /\ upload[r] = "new" => r \notin receipts \union tasks \union objects
        /\ upload[r] \in Active => r \in tasks /\ r \notin receipts
        /\ upload[r] = "stored" => r \in objects

\* A process deals with one task at a time and alone; while it holds the
\* lock the task stays, and before its commit the image is gone.
Locking ==
    /\ \A p \in Processes :
         LET c == cleanup[p] IN
         /\ c.step \in {"idle", "next"} => c.current = {}
         /\ c.step \in {"delete", "commit"} => c.current \subseteq tasks
         /\ c.step = "commit" => c.current \intersect objects = {}
    /\ \A p, q \in Processes :
         p # q => cleanup[p].current \intersect cleanup[q].current = {}

\* What a process has read, has to do or is doing are receipts whose upload
\* has ended and which have no row.
Planned ==
    \A p \in Processes :
        LET c == cleanup[p] IN
        \A r \in c.snapshot \union c.todo \union c.current :
            upload[r] = "ended" /\ r \notin receipts

\* What the command has handled without a failure is gone.
Handled ==
    \A p \in Processes :
        LET c == cleanup[p] IN
        ~c.failures =>
            (c.snapshot \ (c.todo \union c.current)) \intersect objects = {}

IInv ==
    /\ TypeOK
    /\ NoImageForgotten
    /\ ReceiptHasImage
    /\ receipts \intersect tasks = {}
    /\ Uploading
    /\ Locking
    /\ Planned
    /\ Handled

-----------------------------------------------------------------------------
LEMMA InitIInv == Init => IInv
  BY DEF Init, IInv, TypeOK, NoImageForgotten, ReceiptHasImage, Uploading,
         Locking, Planned, Handled, Idle, Cleanup, UploadSteps, Active

LEMMA RegisterCleanupTaskKeeps ==
  ASSUME IInv, NEW r \in Receipts, NEW outcome \in Outcomes,
         RegisterCleanupTask(r, outcome)
  PROVE  IInv'
<1> USE DEF IInv, TypeOK, Cleanup, RegisterCleanupTask, TasksAfterRegister
<1>1. TypeOK'
  BY DEF UploadSteps, Active, Outcomes, Effective, Locked
<1>2. NoImageForgotten'
  BY DEF NoImageForgotten, UploadSteps, Active, Outcomes, Effective, Locked, Uploading, Locking
<1>3. ReceiptHasImage'
  BY DEF ReceiptHasImage
<1>4. (receipts \intersect tasks = {})'
  BY DEF Uploading
<1>5. Uploading'
  BY DEF Uploading, Active, Effective
<1>6. Locking'
  BY DEF Locking
<1>7. Planned'
  BY DEF Planned
<1>8. Handled'
  BY DEF Handled
<1> QED BY <1>1, <1>2, <1>3, <1>4, <1>5, <1>6, <1>7, <1>8

LEMMA StoreObjectKeeps ==
  ASSUME IInv, NEW r \in Receipts, NEW outcome \in Outcomes,
         StoreObject(r, outcome)
  PROVE  IInv'
<1> USE DEF IInv, TypeOK, Cleanup, StoreObject
<1>1. TypeOK'
  BY DEF UploadSteps
<1>2. NoImageForgotten'
  BY DEF NoImageForgotten, Active, Uploading
<1>3. ReceiptHasImage'
  BY DEF ReceiptHasImage
<1>4. (receipts \intersect tasks = {})'
  OBVIOUS
<1>5. Uploading'
  BY DEF Uploading, Active, Effective
<1>6. Locking'
  BY DEF Locking, Planned
<1>7. Planned'
  BY DEF Planned
<1>8. Handled'
  BY DEF Handled, Planned
<1> QED BY <1>1, <1>2, <1>3, <1>4, <1>5, <1>6, <1>7, <1>8

LEMMA CommitUploadKeeps ==
  ASSUME IInv, NEW r \in Receipts, NEW outcome \in Outcomes,
         CommitUpload(r, outcome)
  PROVE  IInv'
<1> USE DEF IInv, TypeOK, Cleanup, CommitUpload
<1>1. TypeOK'
  BY DEF UploadSteps
<1>2. NoImageForgotten'
  BY DEF NoImageForgotten
<1>3. ReceiptHasImage'
  BY DEF ReceiptHasImage, Uploading
<1>4. (receipts \intersect tasks = {})'
  OBVIOUS
<1>5. Uploading'
  BY DEF Uploading, Active
<1>6. Locking'
  BY DEF Locking, Planned
<1>7. Planned'
  BY DEF Planned
<1>8. Handled'
  BY DEF Handled
<1> QED BY <1>1, <1>2, <1>3, <1>4, <1>5, <1>6, <1>7, <1>8

LEMMA UploadDiesKeeps ==
  ASSUME IInv, NEW r \in Receipts,
         UploadDies(r)
  PROVE  IInv'
<1> USE DEF IInv, TypeOK, Cleanup, UploadDies
<1>1. TypeOK'
  BY DEF UploadSteps
<1>2. NoImageForgotten'
  BY DEF NoImageForgotten
<1>3. ReceiptHasImage'
  BY DEF ReceiptHasImage
<1>4. (receipts \intersect tasks = {})'
  OBVIOUS
<1>5. Uploading'
  BY DEF Uploading
<1>6. Locking'
  BY DEF Locking
<1>7. Planned'
  BY DEF Planned
<1>8. Handled'
  BY DEF Handled
<1> QED BY <1>1, <1>2, <1>3, <1>4, <1>5, <1>6, <1>7, <1>8

LEMMA DeleteReceiptKeeps ==
  ASSUME IInv, NEW p \in Processes, NEW r \in Receipts, NEW outcome \in Outcomes,
         DeleteReceipt(p, r, outcome)
  PROVE  IInv'
<1> USE DEF IInv, TypeOK, Cleanup, Becomes, Idle, DeleteReceipt, TasksAfterDeletion
<1>1. TypeOK'
  <2>1. [cleanup[p] EXCEPT !.step = "next", !.todo = {r}] \in Cleanup
    OBVIOUS
  <2>2. cleanup' \in [Processes -> Cleanup]
    BY <2>1
  <2> QED BY <2>2
<1>2. NoImageForgotten'
  BY DEF NoImageForgotten
<1>3. ReceiptHasImage'
  BY DEF ReceiptHasImage
<1>4. (receipts \intersect tasks = {})'
  OBVIOUS
<1>5. Uploading'
  BY DEF Uploading
<1>6. Locking'
  BY DEF Locking
<1>7. Planned'
  BY DEF Planned, Uploading, Active, UploadSteps, Effective
<1>8. Handled'
  BY DEF Handled
<1> QED BY <1>1, <1>2, <1>3, <1>4, <1>5, <1>6, <1>7, <1>8

LEMMA StartCommandKeeps ==
  ASSUME IInv, NEW p \in Processes,
         StartCommand(p)
  PROVE  IInv'
<1> USE DEF IInv, TypeOK, Cleanup, Becomes, Idle, StartCommand, UploadsStopped
<1>1. TypeOK'
  <2>1. cleanup[p] \in Cleanup
    OBVIOUS
  <2>2. [cleanup[p] EXCEPT !.step = "next", !.todo = tasks,
                           !.snapshot = tasks] \in Cleanup
    BY <2>1
  <2> QED BY <2>2
<1>2. NoImageForgotten'
  BY DEF NoImageForgotten
<1>3. ReceiptHasImage'
  BY DEF ReceiptHasImage
<1>4. (receipts \intersect tasks = {})'
  OBVIOUS
<1>5. Uploading'
  BY DEF Uploading
<1>6. Locking'
  BY DEF Locking
<1>7. Planned'
  BY DEF Planned, Uploading, UploadsStopped, Active, UploadSteps, NoImageForgotten
<1>8. Handled'
  BY DEF Handled
<1> QED BY <1>1, <1>2, <1>3, <1>4, <1>5, <1>6, <1>7, <1>8

LEMMA LockTaskKeeps ==
  ASSUME IInv, NEW p \in Processes, NEW r \in Receipts,
         LockTask(p, r)
  PROVE  IInv'
<1> DEFINE locked == [cleanup[p] EXCEPT !.step = "delete", !.todo = @ \ {r},
                                        !.current = {r}]
           skipped == [cleanup[p] EXCEPT !.todo = @ \ {r}]
<1> USE DEF IInv, TypeOK, Becomes
<1>0. /\ cleanup[p] \in Cleanup
      /\ cleanup[p].step = "next"
      /\ r \in cleanup[p].todo
      /\ UNCHANGED <<receipts, objects, upload>>
  BY DEF LockTask
<1>1. CASE r \in tasks /\ r \notin receipts
  <2>1. cleanup' = [cleanup EXCEPT ![p] = locked] /\ UNCHANGED tasks
    BY <1>1 DEF LockTask
  <2>2. \A q \in Processes :
            cleanup'[q] = IF q = p THEN locked ELSE cleanup[q]
    BY <2>1
  <2>3. /\ locked \in Cleanup
        /\ locked.step = "delete"
        /\ locked.current = {r}
        /\ locked.todo = cleanup[p].todo \ {r}
        /\ locked.snapshot = cleanup[p].snapshot
        /\ locked.failures = cleanup[p].failures
    BY <1>0 DEF Cleanup
  <2> HIDE DEF locked
  <2>4. TypeOK'
    BY <1>0, <2>1, <2>3
  <2>5. Locking'
    BY <1>0, <1>1, <2>1, <2>2, <2>3 DEF Locking, LockTask, Locked
  <2>6. Planned'
    BY <1>0, <2>2, <2>3 DEF Planned
  <2>7. Handled'
    BY <1>0, <2>2, <2>3 DEF Handled, Locking
  <2> QED BY <1>0, <2>1, <2>4, <2>5, <2>6, <2>7
          DEF NoImageForgotten, ReceiptHasImage, Uploading
<1>2. CASE ~(r \in tasks /\ r \notin receipts)
  <2>1. cleanup' = [cleanup EXCEPT ![p] = skipped] /\ tasks' = tasks \ {r}
    BY <1>2 DEF LockTask
  <2>2. \A q \in Processes :
            cleanup'[q] = IF q = p THEN skipped ELSE cleanup[q]
    BY <2>1
  <2>3. /\ skipped \in Cleanup
        /\ skipped.step = "next"
        /\ skipped.current = cleanup[p].current
        /\ skipped.todo = cleanup[p].todo \ {r}
        /\ skipped.snapshot = cleanup[p].snapshot
        /\ skipped.failures = cleanup[p].failures
    BY <1>0 DEF Cleanup
  <2> HIDE DEF skipped
  <2>4. r \notin tasks /\ r \notin objects /\ tasks' = tasks
    BY <1>0, <1>2, <2>1 DEF Planned, NoImageForgotten
  <2>5. TypeOK'
    BY <1>0, <2>1, <2>3
  <2>6. Locking'
    BY <1>0, <2>2, <2>3, <2>4 DEF Locking
  <2>7. Planned'
    BY <1>0, <2>2, <2>3 DEF Planned
  <2>8. Handled'
    BY <1>0, <2>2, <2>3, <2>4 DEF Handled
  <2> QED BY <1>0, <2>4, <2>5, <2>6, <2>7, <2>8
          DEF NoImageForgotten, ReceiptHasImage, Uploading
<1> QED BY <1>1, <1>2

LEMMA DeleteObjectKeeps ==
  ASSUME IInv, NEW p \in Processes, NEW outcome \in Outcomes,
         DeleteObject(p, outcome)
  PROVE  IInv'
<1> USE DEF IInv, TypeOK, Cleanup, Becomes, DeleteObject, Failed
<1>1. TypeOK'
  <2>1. [cleanup[p] EXCEPT !.step = "commit"] \in Cleanup
    OBVIOUS
  <2>2. [cleanup[p] EXCEPT !.step = "next", !.current = {},
                           !.failures = TRUE] \in Cleanup
    OBVIOUS
  <2>3. cleanup' \in [Processes -> Cleanup]
    BY <2>1, <2>2
  <2> QED BY <2>3
<1>2. NoImageForgotten'
  BY DEF NoImageForgotten
<1>3. ReceiptHasImage'
  BY DEF ReceiptHasImage, Planned
<1>4. (receipts \intersect tasks = {})'
  OBVIOUS
<1>5. Uploading'
  BY DEF Uploading, Planned
<1>6. Locking'
  BY DEF Locking, Effective
<1>7. Planned'
  BY DEF Planned
<1>8. Handled'
  BY DEF Handled
<1> QED BY <1>1, <1>2, <1>3, <1>4, <1>5, <1>6, <1>7, <1>8

LEMMA CommitCleanupKeeps ==
  ASSUME IInv, NEW p \in Processes, NEW outcome \in Outcomes,
         CommitCleanup(p, outcome)
  PROVE  IInv'
<1> USE DEF IInv, TypeOK, Cleanup, Becomes, CommitCleanup, Failed
<1>1. TypeOK'
  <2>1. [cleanup[p] EXCEPT !.step = "next", !.current = {}] \in Cleanup
    OBVIOUS
  <2>2. [cleanup[p] EXCEPT !.step = "next", !.current = {},
                           !.failures = TRUE] \in Cleanup
    OBVIOUS
  <2>3. cleanup' \in [Processes -> Cleanup]
    BY <2>1, <2>2
  <2> QED BY <2>3
<1>2. NoImageForgotten'
  BY DEF NoImageForgotten, Locking, Planned, Effective
<1>3. ReceiptHasImage'
  BY DEF ReceiptHasImage
<1>4. (receipts \intersect tasks = {})'
  OBVIOUS
<1>5. Uploading'
  BY DEF Uploading, Planned, Locking, UploadSteps, Active
<1>6. Locking'
  BY DEF Locking
<1>7. Planned'
  BY DEF Planned
<1>8. Handled'
  BY DEF Handled, Planned, NoImageForgotten, Locking
<1> QED BY <1>1, <1>2, <1>3, <1>4, <1>5, <1>6, <1>7, <1>8

LEMMA LockFailsKeeps ==
  ASSUME IInv, NEW p \in Processes, NEW r \in Receipts,
         LockFails(p, r)
  PROVE  IInv'
<1> USE DEF IInv, TypeOK, Cleanup, Becomes, LockFails, Failed
<1>1. TypeOK'
  OBVIOUS
<1>2. NoImageForgotten'
  BY DEF NoImageForgotten
<1>3. ReceiptHasImage'
  BY DEF ReceiptHasImage
<1>4. (receipts \intersect tasks = {})'
  OBVIOUS
<1>5. Uploading'
  BY DEF Uploading
<1>6. Locking'
  BY DEF Locking
<1>7. Planned'
  BY DEF Planned
<1>8. Handled'
  BY DEF Handled
<1> QED BY <1>1, <1>2, <1>3, <1>4, <1>5, <1>6, <1>7, <1>8

LEMMA FinishKeeps ==
  ASSUME IInv, NEW p \in Processes,
         Finish(p)
  PROVE  IInv'
<1> USE DEF IInv, TypeOK, Cleanup, Becomes, Finish, Idle
<1>1. TypeOK'
  OBVIOUS
<1>2. NoImageForgotten'
  BY DEF NoImageForgotten
<1>3. ReceiptHasImage'
  BY DEF ReceiptHasImage
<1>4. (receipts \intersect tasks = {})'
  OBVIOUS
<1>5. Uploading'
  BY DEF Uploading
<1>6. Locking'
  BY DEF Locking
<1>7. Planned'
  BY DEF Planned
<1>8. Handled'
  BY DEF Handled
<1> QED BY <1>1, <1>2, <1>3, <1>4, <1>5, <1>6, <1>7, <1>8

LEMMA CleanupDiesKeeps ==
  ASSUME IInv, NEW p \in Processes,
         CleanupDies(p)
  PROVE  IInv'
<1> USE DEF IInv, TypeOK, Cleanup, Becomes, CleanupDies, Idle
<1>1. TypeOK'
  OBVIOUS
<1>2. NoImageForgotten'
  BY DEF NoImageForgotten
<1>3. ReceiptHasImage'
  BY DEF ReceiptHasImage
<1>4. (receipts \intersect tasks = {})'
  OBVIOUS
<1>5. Uploading'
  BY DEF Uploading
<1>6. Locking'
  BY DEF Locking
<1>7. Planned'
  BY DEF Planned
<1>8. Handled'
  BY DEF Handled
<1> QED BY <1>1, <1>2, <1>3, <1>4, <1>5, <1>6, <1>7, <1>8

-----------------------------------------------------------------------------
LEMMA StutterKeeps == ASSUME IInv, UNCHANGED vars PROVE IInv'
  BY DEF vars, IInv, TypeOK, NoImageForgotten, ReceiptHasImage, Uploading,
         Locking, Planned, Handled

LEMMA NextKeeps == ASSUME IInv, [Next]_vars PROVE IInv'
<1>1. CASE UNCHANGED vars
  BY <1>1, StutterKeeps
<1>2. ASSUME NEW r \in Receipts, Upload(r) PROVE IInv'
  BY <1>2, RegisterCleanupTaskKeeps, StoreObjectKeeps, CommitUploadKeeps,
     UploadDiesKeeps DEF Upload
<1>3. ASSUME NEW p \in Processes, Clean(p) PROVE IInv'
  BY <1>3, DeleteReceiptKeeps, StartCommandKeeps, LockTaskKeeps,
     DeleteObjectKeeps, CommitCleanupKeeps, LockFailsKeeps, FinishKeeps,
     CleanupDiesKeeps DEF Clean
<1> QED BY <1>1, <1>2, <1>3 DEF Next

\* The invariant holds of every interleaving of uploads and cleanups, whatever
\* dies in the middle.
THEOREM Inductive == Spec => []IInv
  BY InitIInv, NextKeeps, PTL DEF Spec

\* The state of uploads and cleanups stays what the code can hold.
THEOREM ObjectTypes == Spec => []TypeOK
<1>1. IInv => TypeOK
  BY DEF IInv
<1> QED BY <1>1, Inductive, PTL

\* Whatever fails between PostgreSQL and the object storage, no image is left
\* that neither a receipt nor a cleanup task refers to.
THEOREM NoImageIsForgotten == Spec => []NoImageForgotten
<1>1. IInv => NoImageForgotten
  BY DEF IInv
<1> QED BY <1>1, Inductive, PTL

\* No cleanup removes the image of a committed receipt, provided the command
\* reads the tasks while no upload is active.
THEOREM ReceiptsHaveImages == Spec => []ReceiptHasImage
<1>1. IInv => ReceiptHasImage
  BY DEF IInv
<1> QED BY <1>1, Inductive, PTL

\* A cleanup command that counts no failure has removed every image of the
\* tasks it found.
THEOREM CleanRunsRemoveAll == Spec => CleanRunRemovesAll
<1>1. ASSUME IInv, NEW p \in Processes,
             cleanup[p].step = "next", cleanup[p].todo = {},
             ~cleanup[p].failures
      PROVE  cleanup[p].snapshot \intersect objects = {}
  BY <1>1 DEF IInv, Locking, Handled
<1>2. IInv /\ [Next]_vars => [ \A p \in Processes :
          /\ cleanup[p].step = "next" /\ cleanup[p].todo = {}
          /\ ~cleanup[p].failures
          /\ cleanup'[p] = Idle
          => cleanup[p].snapshot \intersect objects = {} ]_vars
  BY <1>1
<1> QED BY <1>2, Inductive, PTL DEF Spec, CleanRunRemovesAll
=============================================================================
