----------------------------- MODULE ReceiptRow -----------------------------
(***************************************************************************)
(* One row of the table receipts, together with its items, and the        *)
(* transactions the backend runs on it.  Every transaction locks the row   *)
(* (SELECT ... FOR UPDATE) before it reads anything, so it is an operator  *)
(* from the row to the row it commits; the modules that use this one       *)
(* choose when each transaction runs.                                      *)
(*                                                                         *)
(* Data is kept to what the properties tell apart.  An item is the actor   *)
(* that wrote it last and the items revision of that write, which also     *)
(* makes items distinct.  The three header fields the parser may fill      *)
(* (store_name, total_amount, purchase_datetime) are one field, and an OCR *)
(* text or an orientation report is the processing version that stored it. *)
(***************************************************************************)
EXTENDS Naturals, FiniteSets

InWork == {"PREPROCESSING", "OCR_PROCESSING", "PARSING"}
Waiting == InWork \union {"UPLOADED"}
Settled == {"NEED_REVIEW", "COMPLETED", "FAILED"}
Status == Waiting \union Settled \union {"DELETED"}

\* processing_failed stands for every code get_safe_processing_error chooses.
ErrorCodes == {"receipt_enqueue_unconfirmed", "processing_failed",
               "processing_interrupted"}
NoError == "none"

Item == [by : {"user", "worker"}, revision : Nat]
Headers == {"none", "parsed", "user"}

Row == [ status : Status,
         version : Nat,                \* processing_version
         itemsRevision : Nat,
         processedRevision : Nat,      \* processing_items_revision
         replaceItems : BOOLEAN,       \* processing_replace_items
         resultSaved : BOOLEAN,        \* processing_result_saved_at is set
         confirmed : BOOLEAN,          \* confirmed_at is set
         error : ErrorCodes \union {NoError},
         ocr : Nat,                    \* version that stored the text, or 0
         orientation : Nat,            \* version that stored the report, or 0
         items : SUBSET Item,
         header : Headers,
         manual : BOOLEAN ]            \* in manually_updated_fields

\* The row as upload inserts it, from the column defaults.
Uploaded ==
    [ status |-> "UPLOADED", version |-> 1,
      itemsRevision |-> 0, processedRevision |-> 0, replaceItems |-> FALSE,
      resultSaved |-> FALSE, confirmed |-> FALSE, error |-> NoError,
      ocr |-> 0, orientation |-> 0, items |-> {},
      header |-> "none", manual |-> FALSE ]

\* No row: get_for_update returns None.  No job has version 0.
NoReceipt == [Uploaded EXCEPT !.status = "DELETED", !.version = 0]

-----------------------------------------------------------------------------
(***************************************************************************)
(* The processing service.  v is the version the caller was given; the     *)
(* first checks of every method are the same.                              *)
(***************************************************************************)

\* slip: the version is not compared
CurrentIgnoringVersion(r, v) == ~r.resultSaved

Current(r, v) == r.version = v /\ ~r.resultSaved

Failed(r, code) == [r EXCEPT !.status = "FAILED", !.error = code]

CanPrepare(r, replace) ==
    /\ r.status \in Settled
    /\ r.items = {} \/ replace

\* slip: what the previous version stored is kept
PreparedKeepingOcr(r, replace) ==
    [ r EXCEPT !.version = @ + 1, !.processedRevision = r.itemsRevision,
               !.replaceItems = replace, !.resultSaved = FALSE,
               !.confirmed = FALSE, !.error = NoError, !.status = "UPLOADED" ]

PrepareProcess(r, replace) ==
    [ r EXCEPT !.version = @ + 1,
               !.processedRevision = r.itemsRevision,
               !.replaceItems = replace,
               !.resultSaved = FALSE, !.confirmed = FALSE, !.error = NoError,
               !.ocr = 0, !.orientation = 0, !.status = "UPLOADED" ]

MarkEnqueueUnconfirmed(r, v) ==
    IF Current(r, v) /\ r.status = "UPLOADED"
    THEN Failed(r, "receipt_enqueue_unconfirmed")
    ELSE r

CanStart(r, v) == Current(r, v) /\ r.status \in {"UPLOADED", "FAILED"}

\* slip: the error of the previous attempt is kept
StartedKeepingError(r, v) ==
    IF CanStart(r, v)
    THEN [r EXCEPT !.status = "PREPROCESSING", !.orientation = 0, !.ocr = 0]
    ELSE r

StartProcessing(r, v) ==
    IF CanStart(r, v)
    THEN [r EXCEPT !.status = "PREPROCESSING", !.error = NoError,
                   !.orientation = 0, !.ocr = 0]
    ELSE r

\* The worker calls advance_status for PREPROCESSING -> OCR_PROCESSING only.
CanAdvance(r, v) == Current(r, v) /\ r.status = "PREPROCESSING"

AdvanceStatus(r, v) ==
    IF CanAdvance(r, v)
    THEN [r EXCEPT !.status = "OCR_PROCESSING", !.orientation = v]
    ELSE r

CanSaveOcr(r, v) == Current(r, v) /\ r.status = "OCR_PROCESSING"

SaveOcrResult(r, v) ==
    IF CanSaveOcr(r, v)
    THEN [r EXCEPT !.status = "PARSING", !.ocr = v]
    ELSE r

\* slip: a failure of the parser or of the save is not recorded
MarkFailedBeforeParsing(r, v) ==
    IF Current(r, v) /\ r.status \in InWork \ {"PARSING"}
    THEN Failed(r, "processing_failed")
    ELSE r

MarkFailed(r, v) ==
    IF Current(r, v) /\ r.status \in InWork
    THEN Failed(r, "processing_failed")
    ELSE r

MarkInterrupted(r, v) ==
    IF Current(r, v) /\ r.status \in Waiting
    THEN Failed(r, "processing_interrupted")
    ELSE r

CanRetryProcessing(r, v) ==
    Current(r, v) /\ r.status \in {"UPLOADED", "FAILED"}

\* ReceiptProcessingConflictError: the items are not the ones the owner had
\* when this version was prepared.
Conflict(r, v) ==
    /\ Current(r, v)
    /\ \/ r.itemsRevision # r.processedRevision
       \/ r.items # {} /\ ~r.replaceItems

\* What the parser found: items or none, a header value or none.
Results == [items : BOOLEAN, header : BOOLEAN]

\* slip: a field the owner cleared is filled in again
HeaderIgnoringManual(r, result) ==
    IF result.header /\ r.header = "none" THEN "parsed" ELSE r.header

ParsedHeader(r, result) ==
    IF result.header /\ r.header = "none" /\ ~r.manual
    THEN "parsed"
    ELSE r.header

StoreResult(r, v, result) ==
    [ r EXCEPT !.items = (IF r.replaceItems THEN {} ELSE r.items)
                         \union (IF result.items
                                 THEN {[by |-> "worker",
                                        revision |-> r.itemsRevision + 1]}
                                 ELSE {}),
               !.ocr = IF @ = 0 THEN v ELSE @,
               !.header = ParsedHeader(r, result),
               !.resultSaved = TRUE, !.confirmed = FALSE,
               !.status = "NEED_REVIEW", !.error = NoError,
               !.replaceItems = FALSE, !.itemsRevision = @ + 1 ]

\* slip: the version is all that is checked
SavedOnVersionAlone(r, v, result) ==
    IF r.version = v THEN StoreResult(r, v, result) ELSE r

\* slip: the items revision is not compared
SavedOverEdits(r, v, result) ==
    IF Current(r, v) /\ (r.items = {} \/ r.replaceItems)
    THEN StoreResult(r, v, result)
    ELSE r

SaveResult(r, v, result) ==
    IF Current(r, v) /\ ~Conflict(r, v)
    THEN StoreResult(r, v, result)
    ELSE r

-----------------------------------------------------------------------------
(***************************************************************************)
(* The owner's edits, allowed in every status.                             *)
(***************************************************************************)

\* slip: a completed receipt stays completed
UnconfirmForgotten(r) == r

Unconfirmed(r) ==
    [ r EXCEPT !.confirmed = FALSE,
               !.status = IF @ = "COMPLETED" THEN "NEED_REVIEW" ELSE @ ]

\* slip: increment_items_revision is not called
WithItemsUnrevised(r, items) == Unconfirmed([r EXCEPT !.items = items])

WithItems(r, items) ==
    Unconfirmed([r EXCEPT !.items = items, !.itemsRevision = @ + 1])

UserItem(r) == [by |-> "user", revision |-> r.itemsRevision + 1]

CreateItem(r) == WithItems(r, r.items \union {UserItem(r)})
UpdateItem(r, item) == WithItems(r, (r.items \ {item}) \union {UserItem(r)})
DeleteItem(r, item) == WithItems(r, r.items \ {item})

UpdateReceipt(r, value) ==
    Unconfirmed([r EXCEPT !.header = value, !.manual = TRUE])

\* validate_receipt_arithmetic refuses a receipt without a total or items;
\* whether the sums agree is left open here.
CanConfirm(r) ==
    /\ r.status = "NEED_REVIEW" \/ (r.status = "COMPLETED" /\ ~r.confirmed)
    /\ r.header # "none"
    /\ r.items # {}

ConfirmReceipt(r) == [r EXCEPT !.status = "COMPLETED", !.confirmed = TRUE]
=============================================================================
