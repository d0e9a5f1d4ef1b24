------------------------- MODULE ReceiptProcessing -------------------------
(***************************************************************************)
(* The life of one receipt after its upload has been committed: the API    *)
(* requests that enqueue jobs, the RQ queue, the work horses that run      *)
(* process_receipt, the failure callback with its retry policy, and the    *)
(* owner who edits, confirms, reprocesses or deletes the receipt at the    *)
(* same time.                                                              *)
(*                                                                         *)
(* A job is identified by the processing version it carries: an upload or  *)
(* a reprocess request enqueues exactly one.  RQ itself (the queue, the    *)
(* count of retries, the registry of executions) is modelled from the way  *)
(* workers/ uses it and from the recovery tests.                           *)
(***************************************************************************)
EXTENDS ReceiptRow

CONSTANTS
    Horses,       \* slots in which a worker runs a job, one execution each
    MaxVersion,   \* bound: versions a receipt can reach
    MaxRevision,  \* bound: the owner edits items below this revision
    MaxRetries,   \* len(receipt_retry_intervals_seconds)
    Faults        \* what may go wrong in this instance

FaultKinds == {"redis",     \* Redis does not confirm an enqueue
               "api",       \* an API process dies after its commit
               "database",  \* PostgreSQL fails a worker's or a mark's call
               "pipeline",  \* an image, OCR or parsing step raises
               "horse",     \* a work horse or its whole worker dies
               "orphan"}    \* a live execution is taken for an abandoned one

ASSUME ConstantsAssumption ==
    /\ MaxVersion \in Nat \ {0}
    /\ MaxRevision \in Nat
    /\ MaxRetries \in Nat
    /\ Faults \subseteq FaultKinds

Versions == 1 .. MaxVersion

Phases == {"idle", "claim", "preprocess", "ocr", "parse", "mark_failed",
           "policy", "dead"}
ErrorKinds == {"none", "temporary", "permanent"}   \* is_retryable_error

\* refused: the upload was answered 503, nothing is left to do; told apart
\* from "none" while its version is the current one.
Calls == {"none", "enqueue", "unconfirmed", "refused"}

Horse == [ phase : Phases,          \* the transaction the execution runs next
           version : 0 .. MaxVersion,
           retries : 0 .. MaxRetries,    \* job.retries_left of its own copy
           error : ErrorKinds,
           registered : BOOLEAN ]   \* in the registry of started jobs

IdleHorse == [ phase |-> "idle", version |-> 0, retries |-> 0,
               error |-> "none", registered |-> FALSE ]

VARIABLES
    row,          \* the receipt
    request,      \* per version, what its API request still has to do
    queue,        \* versions whose job is queued or scheduled for a retry
    retriesLeft,  \* per version, job.retries_left stored in Redis
    horse,        \* the executions
    agreed,       \* history: the items when the current version was prepared
    validated     \* history: the content confirm_receipt validated last

vars == <<row, request, queue, retriesLeft, horse, agreed, validated>>

history == <<agreed, validated>>
jobs == <<queue, retriesLeft>>

Content(r) == <<r.items, r.header>>
NotValidated == <<{}, "none">>

TypeOK ==
    /\ row \in Row
    /\ row.version \in 0 .. MaxVersion
    /\ request \in [Versions -> Calls]
    /\ queue \subseteq Versions
    /\ retriesLeft \in [Versions -> 0 .. MaxRetries]
    /\ horse \in [Horses -> Horse]
    /\ agreed \subseteq Item
    /\ validated \in (SUBSET Item) \X Headers

\* upload_receipt, between the commit of the upload and enqueue_receipt.
Init ==
    /\ row = Uploaded
    /\ request = [v \in Versions |-> IF v = 1 THEN "enqueue" ELSE "none"]
    /\ queue = {}
    /\ retriesLeft = [v \in Versions |-> 0]
    /\ horse = [w \in Horses |-> IdleHorse]
    /\ agreed = {}
    /\ validated = NotValidated

-----------------------------------------------------------------------------
(***************************************************************************)
(* The API: upload_receipt and reprocess_receipt.                          *)
(***************************************************************************)

\* A new version, or none: it no longer matters how the upload ended.
Forgotten ==
    [v \in Versions |-> IF request[v] = "refused" THEN "none" ELSE request[v]]

ReprocessReceipt(replace) ==
    /\ CanPrepare(row, replace)
    /\ row.version < MaxVersion
    /\ row' = PrepareProcess(row, replace)
    /\ request' = [Forgotten EXCEPT ![row.version + 1] = "enqueue"]
    /\ agreed' = row.items
    /\ UNCHANGED <<jobs, horse, validated>>

Enqueue(v) ==
    /\ request[v] = "enqueue"
    /\ request' = [request EXCEPT ![v] = "none"]
    /\ queue' = queue \union {v}
    /\ retriesLeft' = [retriesLeft EXCEPT ![v] = MaxRetries]
    /\ UNCHANGED <<row, horse, history>>

\* slip: reprocess_receipt answers 503 and leaves the row as upload does
AfterFailedEnqueueForgotten(v) == IF v = 1 THEN "refused" ELSE "none"

\* upload_receipt (version 1) only answers 503; reprocess_receipt goes on to
\* mark_enqueue_unconfirmed.
AfterFailedEnqueue(v) == IF v = 1 THEN "refused" ELSE "unconfirmed"

\* RedisError: the job may have been stored or not.
EnqueueUnconfirmed(v, stored) ==
    /\ "redis" \in Faults
    /\ request[v] = "enqueue"
    /\ request' = [request EXCEPT ![v] = AfterFailedEnqueue(v)]
    /\ IF stored
       THEN /\ queue' = queue \union {v}
            /\ retriesLeft' = [retriesLeft EXCEPT ![v] = MaxRetries]
       ELSE UNCHANGED jobs
    /\ UNCHANGED <<row, horse, history>>

\* The SQLAlchemyError of the mark is only logged.
RecordUnconfirmed(v, written) ==
    /\ request[v] = "unconfirmed"
    /\ written \/ "database" \in Faults
    /\ request' = [request EXCEPT ![v] = "none"]
    /\ row' = IF written THEN MarkEnqueueUnconfirmed(row, v) ELSE row
    /\ UNCHANGED <<jobs, horse, history>>

\* The API request of a version still has something to do.
Calling(v) == request[v] \in {"enqueue", "unconfirmed"}

ApiDies(v) ==
    /\ "api" \in Faults
    /\ Calling(v)
    /\ request' = [request EXCEPT ![v] = "none"]
    /\ UNCHANGED <<row, jobs, horse, history>>

-----------------------------------------------------------------------------
(***************************************************************************)
(* The owner.                                                              *)
(***************************************************************************)

EditItems ==
    /\ row.status # "DELETED"
    /\ row.itemsRevision < MaxRevision
    /\ \/ row' = CreateItem(row)
       \/ \E item \in row.items :
             row' \in {UpdateItem(row, item), DeleteItem(row, item)}
    /\ UNCHANGED <<request, jobs, horse, history>>

\* The owner types a value or clears the field.
EditHeader(value) ==
    /\ row.status # "DELETED"
    /\ row' = UpdateReceipt(row, value)
    /\ UNCHANGED <<request, jobs, horse, history>>

Confirm ==
    /\ CanConfirm(row)
    /\ row' = ConfirmReceipt(row)
    /\ validated' = Content(row)
    /\ UNCHANGED <<request, jobs, horse, agreed>>

Delete ==
    /\ row.status # "DELETED"
    /\ row' = NoReceipt
    /\ agreed' = {}
    /\ validated' = NotValidated
    /\ request' = Forgotten
    /\ UNCHANGED <<jobs, horse>>

-----------------------------------------------------------------------------
(***************************************************************************)
(* The work horse: process_receipt, one action per transaction.            *)
(***************************************************************************)

Working == {"preprocess", "ocr", "parse"}
Alive == Working \union {"claim", "mark_failed", "policy"}

Goto(w, phase) == [horse EXCEPT ![w].phase = phase]
Release(w) == [horse EXCEPT ![w] = IdleHorse]
Raise(w, phase, error) ==
    [horse EXCEPT ![w] = [@ EXCEPT !.phase = phase, !.error = error]]

Dequeue(w, v) ==
    /\ horse[w] = IdleHorse
    /\ v \in queue
    /\ queue' = queue \ {v}
    /\ horse' = [horse EXCEPT ![w] =
                   [phase |-> "claim", version |-> v,
                    retries |-> retriesLeft[v], error |-> "none",
                    registered |-> TRUE]]
    /\ UNCHANGED <<row, request, retriesLeft, history>>

Claim(w) ==
    LET v == horse[w].version IN
    /\ horse[w].phase = "claim"
    /\ row' = StartProcessing(row, v)
    /\ horse' = IF CanStart(row, v) THEN Goto(w, "preprocess") ELSE Release(w)
    /\ UNCHANGED <<request, jobs, history>>

Preprocess(w) ==
    LET v == horse[w].version IN
    /\ horse[w].phase = "preprocess"
    /\ row' = AdvanceStatus(row, v)
    /\ horse' = IF CanAdvance(row, v) THEN Goto(w, "ocr") ELSE Release(w)
    /\ UNCHANGED <<request, jobs, history>>

Recognize(w) ==
    LET v == horse[w].version IN
    /\ horse[w].phase = "ocr"
    /\ row' = SaveOcrResult(row, v)
    /\ horse' = IF CanSaveOcr(row, v) THEN Goto(w, "parse") ELSE Release(w)
    /\ UNCHANGED <<request, jobs, history>>

Save(w, result) ==
    LET v == horse[w].version IN
    /\ horse[w].phase = "parse"
    /\ row' = SaveResult(row, v, result)
    /\ horse' = IF Conflict(row, v)
                THEN Raise(w, "mark_failed", "permanent")
                ELSE Release(w)
    /\ UNCHANGED <<request, jobs, history>>

\* The image cannot be read, OCR fails, nothing can be parsed, a time limit.
PipelineError(w, error) ==
    /\ "pipeline" \in Faults
    /\ horse[w].phase \in Working
    /\ horse' = Raise(w, "mark_failed", error)
    /\ UNCHANGED <<row, request, jobs, history>>

RecordFailure(w) ==
    /\ horse[w].phase = "mark_failed"
    /\ row' = MarkFailed(row, horse[w].version)
    /\ horse' = Goto(w, "policy")
    /\ UNCHANGED <<request, jobs, history>>

RetryAllowed(w) ==
    /\ horse[w].retries > 0
    /\ horse[w].error = "temporary"
    /\ CanRetryProcessing(row, horse[w].version)

\* receipt_failure_callback, then RQ schedules the retry it left in the job.
\* A database error while checking the receipt disables the retry.
ApplyRetryPolicy(w, checked) ==
    LET v == horse[w].version IN
    /\ horse[w].phase = "policy"
    /\ checked \/ "database" \in Faults
    /\ IF checked /\ RetryAllowed(w)
       THEN /\ queue' = queue \union {v}
            /\ retriesLeft' = [retriesLeft EXCEPT ![v] = horse[w].retries - 1]
       ELSE /\ queue' = queue
            /\ retriesLeft' = [retriesLeft EXCEPT ![v] = 0]
    /\ horse' = Release(w)
    /\ UNCHANGED <<row, request, history>>

-----------------------------------------------------------------------------
(***************************************************************************)
(* Failures of a work horse and of the database under it.                  *)
(***************************************************************************)

\* The row the transaction of a phase commits.
Committed(phase, v, result) ==
    CASE phase = "claim"       -> StartProcessing(row, v)
      [] phase = "preprocess"  -> AdvanceStatus(row, v)
      [] phase = "ocr"         -> SaveOcrResult(row, v)
      [] phase = "parse"       -> SaveResult(row, v, result)
      [] phase = "mark_failed" -> MarkFailed(row, v)
      [] phase = "dead"        -> MarkInterrupted(row, v)

\* A transaction of a horse raises, having been rolled back or, when only
\* the answer to COMMIT was lost, committed.  The claim is made outside the
\* try of _process_receipt, so mark_failed does not follow its failure; an
\* error of mark_failed is swallowed and the first error raised again.  When
\* the mark of an interruption raises, the execution is found again.
DatabaseError(w, result, committed) ==
    LET h == horse[w] IN
    /\ "database" \in Faults
    /\ h.phase \in Working \union {"claim", "mark_failed", "dead"}
    /\ row' = IF committed THEN Committed(h.phase, h.version, result) ELSE row
    /\ horse' = CASE h.phase \in Working -> Raise(w, "mark_failed", "permanent")
                  [] h.phase = "claim" -> Raise(w, "policy", "permanent")
                  [] h.phase = "mark_failed" -> Goto(w, "policy")
                  [] h.phase = "dead" -> horse
    /\ UNCHANGED <<request, jobs, history>>

\* Killed, out of memory, or its container stops.  What is left is an entry
\* of the registry or a parent that notices; without either, nothing.
HorseDies(w) ==
    /\ "horse" \in Faults
    /\ horse[w].phase \in Alive
    /\ \/ horse' = Goto(w, "dead")
       \/ ~horse[w].registered /\ horse' = Release(w)
    /\ UNCHANGED <<row, request, jobs, history>>

\* receipt_failure_callback with an interruption error, called by the parent
\* or by the cleanup of the registry; the retry policy follows.
RestoreInterrupted(w) ==
    LET v == horse[w].version IN
    /\ horse[w].phase = "dead"
    /\ row' = MarkInterrupted(row, v)
    /\ horse' = [horse EXCEPT ![w] = [@ EXCEPT !.phase = "policy",
                                               !.error = "temporary",
                                               !.retries = retriesLeft[v]]]
    /\ UNCHANGED <<request, jobs, history>>

\* The heartbeat of a live execution expires: another worker's maintenance
\* (slot u) runs the callback for it while w goes on.
Abandon(w, u) ==
    LET v == horse[w].version IN
    /\ "orphan" \in Faults
    /\ horse[w].phase \in Alive /\ horse[w].registered
    /\ horse[u] = IdleHorse
    /\ row' = MarkInterrupted(row, v)
    /\ horse' = [horse EXCEPT
                   ![w].registered = FALSE,
                   ![u] = [phase |-> "policy", version |-> v,
                           retries |-> retriesLeft[v], error |-> "temporary",
                           registered |-> TRUE]]
    /\ UNCHANGED <<request, jobs, history>>

-----------------------------------------------------------------------------
Api ==
    \E v \in Versions :
        \/ Enqueue(v)
        \/ \E stored \in BOOLEAN : EnqueueUnconfirmed(v, stored)
        \/ \E written \in BOOLEAN : RecordUnconfirmed(v, written)
        \/ ApiDies(v)

Owner ==
    \/ \E replace \in BOOLEAN : ReprocessReceipt(replace)
    \/ EditItems
    \/ \E value \in {"user", "none"} : EditHeader(value)
    \/ Confirm
    \/ Delete

Advance(w) ==
    \/ Claim(w)
    \/ Preprocess(w)
    \/ Recognize(w)
    \/ \E result \in Results : Save(w, result)
    \/ RecordFailure(w)
    \/ \E checked \in BOOLEAN : ApplyRetryPolicy(w, checked)
    \/ RestoreInterrupted(w)

Trouble(w) ==
    \/ \E error \in {"temporary", "permanent"} : PipelineError(w, error)
    \/ \E result \in Results, committed \in BOOLEAN :
          DatabaseError(w, result, committed)
    \/ HorseDies(w)
    \/ \E u \in Horses : Abandon(w, u)

Work(w) ==
    \/ \E v \in Versions : Dequeue(w, v)
    \/ Advance(w)
    \/ Trouble(w)

Next == Api \/ Owner \/ \E w \in Horses : Work(w)

\* The worker container restarts unless stopped, RQ serves its queue and the
\* scheduler releases retries, and an API request that runs is answered.
\* Nothing makes the owner act, and nothing makes a fault happen.
Fairness ==
    /\ \A v \in Versions :
          WF_vars(Enqueue(v) \/ RecordUnconfirmed(v, TRUE))
    /\ \A w \in Horses : WF_vars(Advance(w))
    /\ \A v \in Versions : WF_vars(\E w \in Horses : Dequeue(w, v))

Spec == Init /\ [][Next]_vars
FairSpec == Spec /\ Fairness

-----------------------------------------------------------------------------
(***************************************************************************)
(* Safety.                                                                 *)
(***************************************************************************)

\* The marks every method trusts agree with the status, although different
\* transactions of different actors set them: a result is recorded exactly
\* when the receipt can be reviewed, confirmed_at exactly when it counts as
\* completed, and an error code exactly when it has failed.
MarksAgree ==
    /\ row.resultSaved <=> row.status \in {"NEED_REVIEW", "COMPLETED"}
    /\ row.confirmed <=> row.status = "COMPLETED"
    /\ row.error # NoError <=> row.status = "FAILED"

\* However many executions of however many versions overlap, all items
\* written by a worker come from one saved result.
OneResult ==
    \A i, j \in row.items : i.by = "worker" /\ j.by = "worker" => i = j

\* A completed receipt, which is what the analytics count, has the items and
\* the header that confirm_receipt validated: nothing changes them and keeps
\* the receipt completed.
CompletedAsValidated ==
    row.status = "COMPLETED" => Content(row) = validated

\* The OCR text and the orientation report shown with a receipt belong to its
\* current processing version.
EvidenceIsCurrent ==
    /\ row.ocr \in {0, row.version}
    /\ row.orientation \in {0, row.version}
    /\ row.status \in {"PARSING", "NEED_REVIEW", "COMPLETED"} => row.ocr # 0

\* The parser never puts its value where the owner typed or cleared one.
ManualHeaderKept == row.manual => row.header # "parsed"

HorseMoves == horse' # horse

\* Items leave a receipt by the owner's own edits or, when a worker saves,
\* only if they are exactly what the owner saw when agreeing to replace
\* them: an item added or changed after that is never lost.
OnlyAgreedItemsReplaced ==
    [][HorseMoves => row.items \ row'.items \subseteq agreed]_vars

\* A worker changes the receipt only while the receipt waits for the result
\* of the very version the worker was started for; a finished result, a
\* newer version and a deletion are all left alone.
OnlyAwaitedVersionWrites ==
    [][HorseMoves /\ row' # row =>
         /\ ~row.resultSaved
         /\ \A w \in Horses :
               horse'[w] # horse[w] /\ horse[w].phase # "idle"
                  => horse[w].version = row.version]_vars

\* Someone will still act on the current version of the receipt.
Attended ==
    \/ row.version \in queue
    \/ row.version \in Versions /\ Calling(row.version)
    \/ \E w \in Horses :
          horse[w].phase # "idle" /\ horse[w].version = row.version

\* "The receipt already awaits processing or is being processed", says
\* prepare_process when it refuses to prepare it again: a receipt in one of
\* these statuses is one somebody will still act on.
WaitingIsAttended == row.status \in Waiting => Attended

\* The upload of the current version was answered 503.
UploadRefused ==
    row.version \in Versions /\ request[row.version] = "refused"

\* When Redis may fail as well, a receipt is left waiting with nobody to act
\* on it only by an upload that was answered 503; a reprocess request always
\* leaves a way out.
OnlyUploadsStranded == row.status \in Waiting => Attended \/ UploadRefused

(***************************************************************************)
(* The promise of ReceiptLifecycle.                                        *)
(***************************************************************************)

PhaseOf(status) ==
    CASE status \in Waiting      -> "waiting"
      [] status = "FAILED"       -> "failed"
      [] status = "NEED_REVIEW"  -> "review"
      [] status = "COMPLETED"    -> "completed"
      [] status = "DELETED"      -> "deleted"

Lifecycle == INSTANCE ReceiptLifecycle
    WITH Items <- Item, Values <- Headers, Empty <- "none",
         phase <- PhaseOf(row.status), items <- row.items,
         header <- row.header, agreed <- agreed

\* Seen through its status, items and header, a receipt behaves as the
\* lifecycle says, whatever the queue and the executions do.
ImplementsLifecycle == Lifecycle!Spec

(***************************************************************************)
(* Liveness.                                                               *)
(***************************************************************************)

\* A receipt that waits is eventually reviewed, failed or deleted, even if
\* work horses die, steps fail and Redis does not confirm what it was asked,
\* as long as calls to PostgreSQL succeed and its upload was accepted.
WaitingSettles ==
    row.status \in Waiting ~> row.status \notin Waiting \/ UploadRefused
=============================================================================
