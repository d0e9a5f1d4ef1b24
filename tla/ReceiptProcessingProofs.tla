---------------------- MODULE ReceiptProcessingProofs ----------------------
(***************************************************************************)
(* Theorems about ReceiptProcessing, for every number of executions,       *)
(* versions, revisions and retries and for every combination of faults.    *)
(*                                                                         *)
(* The row is touched by many actions but in few ways.  Lemma RowSteps     *)
(* reduces a step to what it does to the row and the history variables; the *)
(* invariants of the row are then proved for those few ways.               *)
(***************************************************************************)
EXTENDS ReceiptProcessing, TLAPS

(***************************************************************************)
(* Every transaction of ReceiptRow maps rows to rows.                      *)
(***************************************************************************)

\* The statuses, spelled out once for the leaves below.
LEMMA ConstantsInRow ==
    /\ Status = {"UPLOADED", "PREPROCESSING", "OCR_PROCESSING", "PARSING",
                 "NEED_REVIEW", "COMPLETED", "FAILED", "DELETED"}
    /\ NoError \in ErrorCodes \union {NoError}
    /\ ErrorCodes \subseteq ErrorCodes \union {NoError}
BY DEF Status, Waiting, InWork, Settled

\* The row an upload inserts and the absent row are rows.
LEMMA UploadedType == Uploaded \in Row /\ NoReceipt \in Row
<1>1. Uploaded \in Row
  BY ConstantsInRow DEF Uploaded, Row, Headers
<1>2. NoReceipt \in Row
  BY <1>1, ConstantsInRow DEF NoReceipt, Row
<1> QED BY <1>1, <1>2

\* Recording an error code gives a row.
LEMMA FailedType ==
    ASSUME NEW r \in Row, NEW code \in ErrorCodes
    PROVE  Failed(r, code) \in Row
BY ConstantsInRow DEF Failed, Row

\* prepare_process commits a row.
LEMMA PrepareType ==
    ASSUME NEW r \in Row, NEW replace \in BOOLEAN
    PROVE  PrepareProcess(r, replace) \in Row
<1>1. r.version + 1 \in Nat /\ 0 \in Nat /\ r.itemsRevision \in Nat
  BY DEF Row
<1> QED BY <1>1, ConstantsInRow DEF PrepareProcess, Row

\* Every transaction that moves the status commits a row.
LEMMA StatusType ==
    ASSUME NEW r \in Row, NEW v \in Nat
    PROVE  /\ MarkEnqueueUnconfirmed(r, v) \in Row
           /\ StartProcessing(r, v) \in Row
           /\ AdvanceStatus(r, v) \in Row
           /\ SaveOcrResult(r, v) \in Row
           /\ MarkFailed(r, v) \in Row
           /\ MarkInterrupted(r, v) \in Row
<1>1. \A code \in ErrorCodes : Failed(r, code) \in Row
  BY FailedType
<1>2. MarkEnqueueUnconfirmed(r, v) \in Row
  BY <1>1 DEF MarkEnqueueUnconfirmed, ErrorCodes
<1>3. StartProcessing(r, v) \in Row
  BY ConstantsInRow DEF StartProcessing, Row
<1>4. AdvanceStatus(r, v) \in Row
  BY ConstantsInRow DEF AdvanceStatus, Row
<1>5. SaveOcrResult(r, v) \in Row
  BY ConstantsInRow DEF SaveOcrResult, Row
<1>6. MarkFailed(r, v) \in Row
  BY <1>1 DEF MarkFailed, ErrorCodes
<1>7. MarkInterrupted(r, v) \in Row
  BY <1>1 DEF MarkInterrupted, ErrorCodes
<1> QED BY <1>2, <1>3, <1>4, <1>5, <1>6, <1>7

\* save_result commits a row, whatever was parsed.
LEMMA SaveType ==
    ASSUME NEW r \in Row, NEW v \in Nat, NEW result \in Results
    PROVE  SaveResult(r, v, result) \in Row
<1> DEFINE items == (IF r.replaceItems THEN {} ELSE r.items)
                      \union (IF result.items
                              THEN {[by |-> "worker",
                                     revision |-> r.itemsRevision + 1]}
                              ELSE {})
           ocr == IF r.ocr = 0 THEN v ELSE r.ocr
           header == ParsedHeader(r, result)
<1>1. r.itemsRevision + 1 \in Nat /\ ocr \in Nat
  BY DEF Row
<1>2. header \in Headers
  BY DEF ParsedHeader, Row, Headers
<1>3. items \subseteq Item
  BY <1>1 DEF Row, Item
<1>4. StoreResult(r, v, result) =
        [ r EXCEPT !.items = items, !.ocr = ocr, !.header = header,
                   !.resultSaved = TRUE, !.confirmed = FALSE,
                   !.status = "NEED_REVIEW", !.error = NoError,
                   !.replaceItems = FALSE,
                   !.itemsRevision = r.itemsRevision + 1 ]
  BY Zenon DEF StoreResult
<1> HIDE DEF items, ocr, header
<1>5. StoreResult(r, v, result) \in Row
  BY <1>1, <1>2, <1>3, <1>4, ConstantsInRow DEF Row
<1> QED BY <1>5 DEF SaveResult

\* Reopening a completed receipt gives a row.
LEMMA UnconfirmedType ==
    ASSUME NEW r \in Row
    PROVE  Unconfirmed(r) \in Row
BY ConstantsInRow DEF Unconfirmed, Row

\* increment_items_revision after a change of the items commits a row.
LEMMA WithItemsType ==
    ASSUME NEW r \in Row, NEW items \in SUBSET Item
    PROVE  WithItems(r, items) \in Row
<1>1. r.itemsRevision + 1 \in Nat
  BY DEF Row
<1>2. [r EXCEPT !.items = items, !.itemsRevision = r.itemsRevision + 1] \in Row
  BY <1>1 DEF Row
<1> QED BY <1>2, UnconfirmedType DEF WithItems

\* Every edit of the owner and the confirmation commit a row.
LEMMA OwnerType ==
    ASSUME NEW r \in Row
    PROVE  /\ CreateItem(r) \in Row
           /\ \A item \in r.items : /\ UpdateItem(r, item) \in Row
                                    /\ DeleteItem(r, item) \in Row
           /\ \A value \in {"user", "none"} : UpdateReceipt(r, value) \in Row
           /\ ConfirmReceipt(r) \in Row
<1>1. UserItem(r) \in Item /\ r.items \in SUBSET Item
  BY DEF UserItem, Item, Row
<1>2. CreateItem(r) \in Row
  BY <1>1, WithItemsType DEF CreateItem
<1>3. ASSUME NEW item \in r.items
      PROVE  UpdateItem(r, item) \in Row /\ DeleteItem(r, item) \in Row
  BY <1>1, WithItemsType DEF UpdateItem, DeleteItem
<1>4. ASSUME NEW value \in {"user", "none"}
      PROVE  UpdateReceipt(r, value) \in Row
  <2>1. [r EXCEPT !.header = value, !.manual = TRUE] \in Row
    BY DEF Row, Headers
  <2> QED BY <2>1, UnconfirmedType DEF UpdateReceipt
<1>5. ConfirmReceipt(r) \in Row
  BY ConstantsInRow DEF ConfirmReceipt, Row
<1> QED BY <1>2, <1>3, <1>4, <1>5

-----------------------------------------------------------------------------

(***************************************************************************)
(* Type correctness.                                                       *)
(***************************************************************************)

\* An execution that is not idle runs a job, which carries a version.
Busy ==
    \A w \in Horses :
       horse[w].phase # "idle" => horse[w].version \in Versions

\* The ways a step of a job or of a request can change the row, for version v.
Processed(r, v) ==
    { MarkEnqueueUnconfirmed(r, v), StartProcessing(r, v), AdvanceStatus(r, v),
      SaveOcrResult(r, v), MarkFailed(r, v), MarkInterrupted(r, v) }
    \union {SaveResult(r, v, result) : result \in Results}

\* The ways the owner can edit the row.
Edited(r) ==
    {CreateItem(r)} \union {UpdateItem(r, item) : item \in r.items}
                    \union {DeleteItem(r, item) : item \in r.items}
                    \union {UpdateReceipt(r, value) : value \in {"user", "none"}}

JobStepOf(v) ==
    /\ v \in Versions
    /\ row' \in Processed(row, v)
    /\ UNCHANGED history

JobStep == \E v \in Versions : JobStepOf(v)

PrepareStep ==
    /\ \E replace \in BOOLEAN : /\ CanPrepare(row, replace)
                                /\ row' = PrepareProcess(row, replace)
    /\ row.version < MaxVersion
    /\ agreed' = row.items
    /\ UNCHANGED <<validated, horse>>

EditStep ==
    /\ row.status # "DELETED"
    /\ row' \in Edited(row)
    /\ UNCHANGED <<history, horse>>

ConfirmStep ==
    /\ CanConfirm(row)
    /\ row' = ConfirmReceipt(row)
    /\ validated' = Content(row)
    /\ UNCHANGED <<agreed, horse>>

DeleteStep ==
    /\ row.status # "DELETED"
    /\ row' = NoReceipt
    /\ agreed' = {}
    /\ validated' = NotValidated
    /\ UNCHANGED horse

RowStep ==
    \/ UNCHANGED <<row, history>>
    \/ JobStep
    \/ PrepareStep
    \/ EditStep
    \/ ConfirmStep
    \/ DeleteStep

\* A step of an execution changes the row as a job can, or not at all.
LEMMA HorseRowSteps ==
    ASSUME TypeOK, Busy, NEW w \in Horses, Work(w)
    PROVE  UNCHANGED <<row, history>> \/ JobStepOf(horse[w].version)
<1> DEFINE v == horse[w].version
<1>1. ASSUME NEW u \in Versions, Dequeue(w, u)
      PROVE  UNCHANGED <<row, history>>
  BY <1>1 DEF Dequeue
<1>2. horse[w].phase # "idle" => v \in Versions
  BY DEF Busy
<1>3. CASE Claim(w)
  BY <1>2, <1>3 DEF Claim, JobStepOf, Processed
<1>4. CASE Preprocess(w)
  BY <1>2, <1>4 DEF Preprocess, JobStepOf, Processed
<1>5. CASE Recognize(w)
  BY <1>2, <1>5 DEF Recognize, JobStepOf, Processed
<1>6. ASSUME NEW result \in Results, Save(w, result)
      PROVE  JobStepOf(v)
  BY <1>2, <1>6 DEF Save, JobStepOf, Processed
<1>7. CASE RecordFailure(w)
  BY <1>2, <1>7 DEF RecordFailure, JobStepOf, Processed
<1>8. ASSUME NEW checked \in BOOLEAN, ApplyRetryPolicy(w, checked)
      PROVE  UNCHANGED <<row, history>>
  BY <1>8 DEF ApplyRetryPolicy
<1>9. CASE RestoreInterrupted(w)
  BY <1>2, <1>9 DEF RestoreInterrupted, JobStepOf, Processed
<1>10. ASSUME NEW error \in {"temporary", "permanent"}, PipelineError(w, error)
       PROVE  UNCHANGED <<row, history>>
  BY <1>10 DEF PipelineError
<1>11. ASSUME NEW result \in Results, NEW committed \in BOOLEAN,
              DatabaseError(w, result, committed)
       PROVE  UNCHANGED <<row, history>> \/ JobStepOf(v)
  <2>1. UNCHANGED history /\ horse[w].phase # "idle" /\ v \in Versions
    BY <1>2, <1>11 DEF DatabaseError, Working
  <2>2. row' = row \/ row' = Committed(horse[w].phase, v, result)
    BY <1>11 DEF DatabaseError
  <2>3. horse[w].phase \in
          {"claim", "preprocess", "ocr", "parse", "mark_failed", "dead"}
    BY <1>11 DEF DatabaseError, Working
  <2>4. Committed(horse[w].phase, v, result) \in Processed(row, v)
    BY <2>3 DEF Committed, Processed
  <2> QED BY <2>1, <2>2, <2>4 DEF JobStepOf
<1>12. CASE HorseDies(w)
  BY <1>12 DEF HorseDies
<1>13. ASSUME NEW u \in Horses, Abandon(w, u)
       PROVE  JobStepOf(v)
  BY <1>2, <1>13 DEF Abandon, Alive, Working, JobStepOf, Processed
<1> QED
  BY <1>1, <1>3, <1>4, <1>5, <1>6, <1>7, <1>8, <1>9, <1>10, <1>11, <1>12,
     <1>13 DEF Work, Advance, Trouble

\* A step of the system is one of the steps of the row.
LEMMA RowSteps ==
    ASSUME TypeOK, Busy, [Next]_vars
    PROVE  RowStep
<1>1. CASE UNCHANGED vars
  BY <1>1 DEF vars, history, RowStep
<1>2. CASE Api
  <2> SUFFICES ASSUME NEW v \in Versions,
                      \/ Enqueue(v)
                      \/ \E stored \in BOOLEAN : EnqueueUnconfirmed(v, stored)
                      \/ \E written \in BOOLEAN : RecordUnconfirmed(v, written)
                      \/ ApiDies(v)
               PROVE  UNCHANGED <<row, history>> \/ JobStep
    BY <1>2 DEF Api, RowStep
  <2> QED BY DEF Enqueue, EnqueueUnconfirmed, RecordUnconfirmed, ApiDies,
                 JobStep, JobStepOf, Processed
<1>3. CASE Owner
  <2>1. ASSUME NEW replace \in BOOLEAN, ReprocessReceipt(replace)
        PROVE  PrepareStep
    BY <2>1 DEF ReprocessReceipt, PrepareStep
  <2>2. CASE EditItems
    BY <2>2 DEF EditItems, EditStep, RowStep, Edited
  <2>3. ASSUME NEW value \in {"user", "none"}, EditHeader(value)
        PROVE  EditStep
    BY <2>3 DEF EditHeader, EditStep, Edited
  <2>4. CASE Confirm
    BY <2>4 DEF Confirm, ConfirmStep, RowStep
  <2>5. CASE Delete
    BY <2>5 DEF Delete, DeleteStep, RowStep
  <2> QED BY <1>3, <2>1, <2>2, <2>3, <2>4, <2>5 DEF Owner, RowStep
<1>4. CASE \E w \in Horses : Work(w)
  BY <1>4, HorseRowSteps DEF RowStep, JobStep, JobStepOf
<1> QED BY <1>1, <1>2, <1>3, <1>4 DEF Next

\* Uploads have version 1.
LEMMA OneIsAVersion == 1 \in Versions
BY ConstantsAssumption DEF Versions

\* Everything a job or the owner commits is a row.
LEMMA ProcessedType ==
    ASSUME NEW r \in Row, NEW v \in Versions
    PROVE  Processed(r, v) \subseteq Row
<1>1. v \in Nat
  BY ConstantsAssumption DEF Versions
<1> QED BY <1>1, StatusType, SaveType DEF Processed

LEMMA EditedType ==
    ASSUME NEW r \in Row
    PROVE  Edited(r) \subseteq Row
BY OwnerType DEF Edited

\* Neither a job nor an edit changes the version of the receipt.
LEMMA VersionKept ==
    ASSUME NEW r \in Row, NEW v \in Versions,
           NEW s \in Processed(r, v) \union Edited(r) \union {ConfirmReceipt(r)}
    PROVE  s.version = r.version
<1>1. CASE s \in Processed(r, v)
  <2>1. \A code : Failed(r, code).version = r.version
    BY DEF Failed, Row
  <2>2. /\ StartProcessing(r, v).version = r.version
        /\ AdvanceStatus(r, v).version = r.version
        /\ SaveOcrResult(r, v).version = r.version
    BY DEF StartProcessing, AdvanceStatus, SaveOcrResult, Row
  <2>3. /\ MarkEnqueueUnconfirmed(r, v).version = r.version
        /\ MarkFailed(r, v).version = r.version
        /\ MarkInterrupted(r, v).version = r.version
    BY <2>1 DEF MarkEnqueueUnconfirmed, MarkFailed, MarkInterrupted
  <2>4. \A result : SaveResult(r, v, result).version = r.version
    BY DEF SaveResult, StoreResult, Row
  <2> QED BY <1>1, <2>2, <2>3, <2>4 DEF Processed
<1>2. CASE s \in Edited(r)
  <2>1. ASSUME NEW items
        PROVE  WithItems(r, items).version = r.version
    BY DEF WithItems, Unconfirmed, Row
  <2>2. ASSUME NEW value
        PROVE  UpdateReceipt(r, value).version = r.version
    BY DEF UpdateReceipt, Unconfirmed, Row
  <2>3. /\ CreateItem(r).version = r.version
        /\ \A item : /\ UpdateItem(r, item).version = r.version
                      /\ DeleteItem(r, item).version = r.version
    BY <2>1 DEF CreateItem, UpdateItem, DeleteItem
  <2> QED BY <1>2, <2>2, <2>3 DEF Edited
<1>3. CASE s = ConfirmReceipt(r)
  BY <1>3 DEF ConfirmReceipt, Row
<1> QED BY <1>1, <1>2, <1>3

\* The row and the history variables keep their types.
LEMMA RowTypeKept ==
    ASSUME TypeOK, RowStep
    PROVE  /\ row' \in Row
           /\ row'.version \in 0 .. MaxVersion
           /\ agreed' \subseteq Item
           /\ validated' \in (SUBSET Item) \X Headers
<1>1. /\ row \in Row /\ row.version \in 0 .. MaxVersion
      /\ row.items \subseteq Item /\ row.header \in Headers
      /\ agreed \subseteq Item /\ validated \in (SUBSET Item) \X Headers
  BY DEF TypeOK, Row
<1>2. CASE UNCHANGED <<row, history>>
  BY <1>1, <1>2 DEF history
<1>3. CASE JobStep
  <2> PICK v \in Versions : row' \in Processed(row, v)
    BY <1>3 DEF JobStep, JobStepOf
  <2>1. row' \in Row /\ row'.version = row.version
    BY <1>1, ProcessedType, VersionKept
  <2> QED BY <1>1, <1>3, <2>1 DEF JobStep, JobStepOf, history
<1>4. CASE PrepareStep
  <2> PICK replace \in BOOLEAN : row' = PrepareProcess(row, replace)
    BY <1>4 DEF PrepareStep
  <2>1. row'.version = row.version + 1
    BY <1>1 DEF PrepareProcess, Row
  <2>2. row.version < MaxVersion
    BY <1>4 DEF PrepareStep
  <2>3. row'.version \in 0 .. MaxVersion
    BY <1>1, <2>1, <2>2, ConstantsAssumption
  <2> QED BY <1>1, <1>4, <2>3, PrepareType DEF PrepareStep
<1>5. CASE EditStep
  <2>1. row' \in Row /\ row'.version = row.version
    BY <1>1, <1>5, EditedType, VersionKept, OneIsAVersion DEF EditStep
  <2> QED BY <1>1, <1>5, <2>1 DEF EditStep, history
<1>6. CASE ConfirmStep
  <2>1. row' \in Row /\ row'.version = row.version
    BY <1>1, <1>6, OwnerType, VersionKept, OneIsAVersion DEF ConfirmStep
  <2> QED BY <1>1, <1>6, <2>1 DEF ConfirmStep, Content
<1>7. CASE DeleteStep
  <2>1. NoReceipt.version = 0
    BY DEF NoReceipt, Uploaded
  <2> QED BY <1>7, <2>1, UploadedType, ConstantsAssumption
          DEF DeleteStep, NotValidated, Headers
<1> QED BY <1>2, <1>3, <1>4, <1>5, <1>6, <1>7 DEF RowStep

\* What an execution does to its own slot keeps the type of the slots.
LEMMA SlotTypes ==
    ASSUME horse \in [Horses -> Horse], NEW w \in Horses
    PROVE  /\ \A phase \in Phases : Goto(w, phase) \in [Horses -> Horse]
           /\ Release(w) \in [Horses -> Horse]
           /\ \A phase \in Phases, error \in ErrorKinds :
                 Raise(w, phase, error) \in [Horses -> Horse]
<1>1. IdleHorse \in Horse
  BY ConstantsAssumption DEF IdleHorse, Horse, Phases, ErrorKinds
<1>2. horse[w] \in Horse
  OBVIOUS
<1>3. ASSUME NEW phase \in Phases
      PROVE  Goto(w, phase) \in [Horses -> Horse]
  BY <1>2 DEF Goto, Horse
<1>4. Release(w) \in [Horses -> Horse]
  BY <1>1 DEF Release
<1>5. ASSUME NEW phase \in Phases, NEW error \in ErrorKinds
      PROVE  Raise(w, phase, error) \in [Horses -> Horse]
  BY <1>2 DEF Raise, Horse
<1> QED BY <1>3, <1>4, <1>5

\* Busy and the types of the slots are kept by the step of an execution.
LEMMA HorseTypeKept ==
    ASSUME TypeOK, Busy, NEW w \in Horses, Work(w)
    PROVE  /\ queue' \subseteq Versions
           /\ retriesLeft' \in [Versions -> 0 .. MaxRetries]
           /\ horse' \in [Horses -> Horse]
           /\ Busy'
           /\ request' = request
<1> DEFINE v == horse[w].version
           Kept == /\ queue' \subseteq Versions
                   /\ retriesLeft' \in [Versions -> 0 .. MaxRetries]
                   /\ horse' \in [Horses -> Horse]
                   /\ Busy'
                   /\ request' = request
<1>1. /\ queue \subseteq Versions
      /\ retriesLeft \in [Versions -> 0 .. MaxRetries]
      /\ horse \in [Horses -> Horse]
      /\ horse[w] \in Horse
  BY DEF TypeOK
<1>2. IdleHorse.phase = "idle"
  BY DEF IdleHorse
\* A busy slot that only changes phase, or is released, stays well formed.
<1>3. ASSUME UNCHANGED <<request, jobs>>, horse[w].phase # "idle",
             \/ \E phase \in Phases : horse' = Goto(w, phase)
             \/ horse' = Release(w)
             \/ \E phase \in Phases, error \in ErrorKinds :
                   horse' = Raise(w, phase, error)
      PROVE  Kept
  <2>1. horse' \in [Horses -> Horse]
    BY <1>1, <1>3, SlotTypes
  <2>2. \A u \in Horses : u # w => horse'[u] = horse[u]
    BY <1>1, <1>3 DEF Goto, Release, Raise
  <2>3. horse'[w].version = v \/ horse'[w] = IdleHorse
    BY <1>1, <1>3 DEF Goto, Release, Raise, Horse
  <2>4. Busy'
    BY <1>2, <1>3, <2>2, <2>3 DEF Busy
  <2> QED BY <1>1, <1>3, <2>1, <2>4 DEF jobs
<1>4. ASSUME NEW u \in Versions, Dequeue(w, u)
      PROVE  Kept
  <2> DEFINE new == [phase |-> "claim", version |-> u,
                     retries |-> retriesLeft[u], error |-> "none",
                     registered |-> TRUE]
  <2>1. new \in Horse
    BY <1>1, ConstantsAssumption DEF Horse, Phases, ErrorKinds, Versions
  <2>2. horse' = [horse EXCEPT ![w] = new] /\ UNCHANGED <<request, retriesLeft>>
    BY <1>4 DEF Dequeue
  <2>3. queue' \subseteq Versions
    BY <1>1, <1>4 DEF Dequeue
  <2>4. horse' \in [Horses -> Horse]
    BY <1>1, <2>1, <2>2
  <2>5. new.version \in Versions
    OBVIOUS
  <2> HIDE DEF new
  <2>6. Busy'
    BY <1>1, <2>2, <2>5 DEF Busy
  <2> QED BY <1>1, <2>2, <2>3, <2>4, <2>6
<1>5. CASE \/ Claim(w) \/ Preprocess(w) \/ Recognize(w) \/ RecordFailure(w)
           \/ \E result \in Results : Save(w, result)
           \/ \E error \in {"temporary", "permanent"} : PipelineError(w, error)
           \/ HorseDies(w)
  <2>1. UNCHANGED <<request, jobs>> /\ horse[w].phase # "idle"
    BY <1>5 DEF Claim, Preprocess, Recognize, RecordFailure, Save,
                PipelineError, HorseDies, Alive, Working
  <2>2. \/ \E phase \in Phases : horse' = Goto(w, phase)
        \/ horse' = Release(w)
        \/ \E phase \in Phases, error \in ErrorKinds :
              horse' = Raise(w, phase, error)
    BY <1>5 DEF Claim, Preprocess, Recognize, RecordFailure, Save,
                PipelineError, HorseDies, Phases, ErrorKinds
  <2> QED BY <1>3, <2>1, <2>2
<1>6. ASSUME NEW checked \in BOOLEAN, ApplyRetryPolicy(w, checked)
      PROVE  Kept
  <2>1. horse[w].phase # "idle" /\ horse' = Release(w)
    BY <1>6 DEF ApplyRetryPolicy
  <2>2. v \in Versions
    BY <2>1 DEF Busy
  <2>3. horse' \in [Horses -> Horse]
    BY <1>1, <2>1, SlotTypes
  <2>4. Busy'
    BY <1>1, <1>2, <2>1 DEF Busy, Release
  <2>5. queue' \subseteq Versions
    BY <1>1, <1>6, <2>2 DEF ApplyRetryPolicy
  <2>6. horse[w].retries \in 0 .. MaxRetries
    BY <1>1 DEF Horse
  <2>7. retriesLeft' \in [Versions -> 0 .. MaxRetries]
    <3>1. CASE checked /\ RetryAllowed(w)
      <4>1. horse[w].retries - 1 \in 0 .. MaxRetries
        BY <2>6, <3>1, ConstantsAssumption DEF RetryAllowed
      <4> QED BY <1>1, <1>6, <3>1, <4>1 DEF ApplyRetryPolicy
    <3>2. CASE ~(checked /\ RetryAllowed(w))
      <4>1. 0 \in 0 .. MaxRetries
        BY ConstantsAssumption
      <4> QED BY <1>1, <1>6, <3>2, <4>1 DEF ApplyRetryPolicy
    <3> QED BY <3>1, <3>2
  <2>8. request' = request
    BY <1>6 DEF ApplyRetryPolicy
  <2> QED BY <2>3, <2>4, <2>5, <2>7, <2>8
<1>7. CASE RestoreInterrupted(w)
  <2>1. /\ horse[w].phase # "idle" /\ UNCHANGED <<request, jobs>>
        /\ horse' = [horse EXCEPT ![w] = [@ EXCEPT !.phase = "policy",
                                                   !.error = "temporary",
                                                   !.retries = retriesLeft[v]]]
    BY <1>7 DEF RestoreInterrupted
  <2>2. retriesLeft[v] \in 0 .. MaxRetries
    BY <1>1, <2>1 DEF Busy
  <2>3. horse' \in [Horses -> Horse]
    BY <1>1, <2>1, <2>2 DEF Horse, Phases, ErrorKinds
  <2>4. Busy'
    BY <1>1, <2>1 DEF Busy, Horse
  <2> QED BY <1>1, <2>1, <2>3, <2>4 DEF jobs
<1>8. ASSUME NEW result \in Results, NEW committed \in BOOLEAN,
             DatabaseError(w, result, committed)
      PROVE  Kept
  <2>1. UNCHANGED <<request, jobs>> /\ horse[w].phase # "idle"
    BY <1>8 DEF DatabaseError, Working
  <2>2. \/ horse' = Raise(w, "mark_failed", "permanent")
        \/ horse' = Raise(w, "policy", "permanent")
        \/ horse' = Goto(w, "policy")
        \/ horse' = horse
    BY <1>8 DEF DatabaseError, Working
  <2>3. CASE horse' = horse
    BY <1>1, <2>1, <2>3 DEF Busy, jobs
  <2> QED BY <1>3, <2>1, <2>2, <2>3 DEF Phases, ErrorKinds
<1>9. ASSUME NEW u \in Horses, Abandon(w, u)
      PROVE  Kept
  <2> DEFINE new == [phase |-> "policy", version |-> v,
                     retries |-> retriesLeft[v], error |-> "temporary",
                     registered |-> TRUE]
  <2>1. /\ horse[w].phase # "idle" /\ UNCHANGED <<request, jobs>>
        /\ horse' = [horse EXCEPT ![w].registered = FALSE, ![u] = new]
    BY <1>9 DEF Abandon, Alive, Working
  <2>2. v \in Versions /\ retriesLeft[v] \in 0 .. MaxRetries
    BY <1>1, <2>1 DEF Busy
  <2>3. new \in Horse /\ new.version \in Versions
    BY <2>2 DEF Horse, Phases, ErrorKinds, Versions
  <2> HIDE DEF new
  <2>4. horse' \in [Horses -> Horse]
    BY <1>1, <2>1, <2>3 DEF Horse
  <2>5. Busy'
    BY <1>1, <2>1, <2>3 DEF Busy, Horse
  <2> QED BY <1>1, <2>1, <2>4, <2>5 DEF jobs
<1>10. CASE Advance(w)
  BY <1>5, <1>6, <1>7, <1>10 DEF Advance
<1>11. CASE Trouble(w)
  BY <1>5, <1>8, <1>9, <1>11 DEF Trouble
<1>12. CASE \E u \in Versions : Dequeue(w, u)
  BY <1>4, <1>12
<1>13. Kept
  BY <1>10, <1>11, <1>12 DEF Work
<1> QED BY <1>13 DEF Kept

\* TypeOK and Busy are inductive together.
LEMMA TypeKept ==
    ASSUME TypeOK, Busy, [Next]_vars
    PROVE  TypeOK' /\ Busy'
<1> DEFINE JobTypes ==
             /\ request' \in [Versions -> Calls]
             /\ queue' \subseteq Versions
             /\ retriesLeft' \in [Versions -> 0 .. MaxRetries]
             /\ horse' \in [Horses -> Horse]
             /\ Busy'
<1>1. /\ row' \in Row /\ row'.version \in 0 .. MaxVersion
      /\ agreed' \subseteq Item /\ validated' \in (SUBSET Item) \X Headers
  BY RowSteps, RowTypeKept
<1>2. /\ request \in [Versions -> Calls]
      /\ queue \subseteq Versions
      /\ retriesLeft \in [Versions -> 0 .. MaxRetries]
      /\ horse \in [Horses -> Horse]
      /\ row.version \in 0 .. MaxVersion
  BY DEF TypeOK
<1>3. ASSUME UNCHANGED vars PROVE JobTypes
  BY <1>2, <1>3 DEF vars, Busy
<1>4. ASSUME Api PROVE JobTypes
  <2>1. MaxRetries \in 0 .. MaxRetries
    BY ConstantsAssumption
  <2>2. horse' = horse
    BY <1>4 DEF Api, Enqueue, EnqueueUnconfirmed, RecordUnconfirmed, ApiDies
  <2>3. PICK v \in Versions :
            \/ Enqueue(v)
            \/ \E stored \in BOOLEAN : EnqueueUnconfirmed(v, stored)
            \/ \E written \in BOOLEAN : RecordUnconfirmed(v, written)
            \/ ApiDies(v)
    BY <1>4 DEF Api
  <2>4. /\ queue' \in {queue, queue \union {v}}
        /\ retriesLeft' \in {retriesLeft,
                             [retriesLeft EXCEPT ![v] = MaxRetries]}
    BY <2>3 DEF Enqueue, EnqueueUnconfirmed, RecordUnconfirmed, ApiDies, jobs
  <2>5. \E next \in {"none", "unconfirmed", "refused"} :
            request' = [request EXCEPT ![v] = next]
    BY <2>3 DEF Enqueue, EnqueueUnconfirmed, RecordUnconfirmed, ApiDies,
                AfterFailedEnqueue
  <2> QED BY <1>2, <2>1, <2>2, <2>4, <2>5 DEF Busy, Calls
<1>5. ASSUME Owner PROVE JobTypes
  <2>1. UNCHANGED <<jobs, horse>>
    BY <1>5 DEF Owner, ReprocessReceipt, EditItems, EditHeader, Confirm, Delete
  <2>2. \/ request' = request
        \/ request' = Forgotten
        \/ \E v \in Nat : request' = [Forgotten EXCEPT ![v] = "enqueue"]
    BY <1>2, <1>5 DEF Owner, ReprocessReceipt, EditItems, EditHeader, Confirm,
                      Delete
  <2>3. Forgotten \in [Versions -> Calls]
    BY <1>2 DEF Forgotten, Calls
  <2>4. request' \in [Versions -> Calls]
    BY <1>2, <2>2, <2>3 DEF Calls
  <2> QED BY <1>2, <2>1, <2>4 DEF Busy, jobs
<1>6. ASSUME \E w \in Horses : Work(w) PROVE JobTypes
  BY <1>2, <1>6, HorseTypeKept
<1>7. JobTypes
  BY <1>3, <1>4, <1>5, <1>6 DEF Next
<1> QED BY <1>1, <1>7 DEF TypeOK

\* The initial state has the types.
LEMMA InitType == Init => TypeOK /\ Busy
<1> SUFFICES ASSUME Init PROVE TypeOK /\ Busy
  OBVIOUS
<1>1. row \in Row /\ row.version \in 0 .. MaxVersion
  BY UploadedType, ConstantsAssumption DEF Init, Uploaded
<1>2. IdleHorse \in Horse /\ IdleHorse.phase = "idle"
  BY ConstantsAssumption DEF IdleHorse, Horse, Phases, ErrorKinds
<1>3. retriesLeft \in [Versions -> 0 .. MaxRetries]
  BY ConstantsAssumption DEF Init
<1>4. horse \in [Horses -> Horse] /\ Busy
  BY <1>2 DEF Init, Busy
<1> QED BY <1>1, <1>3, <1>4 DEF Init, TypeOK, NotValidated, Headers, Calls

\* Every variable keeps its type: in particular no job is ever left with a
\* negative or too large count of retries and no execution runs without a job.
THEOREM TypeCorrect == Spec => []TypeOK
<1>1. Init => TypeOK /\ Busy
  BY InitType
<1>2. TypeOK /\ Busy /\ [Next]_vars => TypeOK' /\ Busy'
  BY TypeKept
<1> QED BY <1>1, <1>2, PTL DEF Spec

-----------------------------------------------------------------------------
(***************************************************************************)
(* The invariants of the row.  MarksAgree makes them inductive: every      *)
(* method guards itself with processing_result_saved_at, or with a status, *)
(* and the two mean the same.                                              *)
(***************************************************************************)

\* Until the result of the current version is saved, equal revisions mean
\* untouched items: this is what lets save_result compare two numbers
\* instead of the items the owner agreed to replace.
RevisionsTell ==
    /\ row.processedRevision <= row.itemsRevision
    /\ ~row.resultSaved /\ row.itemsRevision = row.processedRevision
         => row.items = agreed

\* No job carries the version of a deleted receipt.
GoneHasNoVersion == row.status = "DELETED" => row.version = 0

RowInv ==
    /\ GoneHasNoVersion
    /\ MarksAgree
    /\ OneResult
    /\ CompletedAsValidated
    /\ EvidenceIsCurrent
    /\ ManualHeaderKept
    /\ RevisionsTell

\* What a job can do to a row, with the guard under which it does it.
LEMMA ProcessedCases ==
    ASSUME NEW r, NEW v, NEW s \in Processed(r, v)
    PROVE  \/ s = r
           \/ /\ Current(r, v) /\ r.status \in Waiting
              /\ \E code \in ErrorCodes : s = Failed(r, code)
           \/ /\ CanStart(r, v)
              /\ s = [r EXCEPT !.status = "PREPROCESSING", !.error = NoError,
                               !.orientation = 0, !.ocr = 0]
           \/ /\ CanAdvance(r, v)
              /\ s = [r EXCEPT !.status = "OCR_PROCESSING", !.orientation = v]
           \/ /\ CanSaveOcr(r, v)
              /\ s = [r EXCEPT !.status = "PARSING", !.ocr = v]
           \/ /\ Current(r, v) /\ ~Conflict(r, v)
              /\ \E result \in Results : s = StoreResult(r, v, result)
<1>1. CASE s = MarkEnqueueUnconfirmed(r, v)
  BY <1>1 DEF MarkEnqueueUnconfirmed, ErrorCodes, Waiting
<1>2. CASE s = StartProcessing(r, v)
  BY <1>2 DEF StartProcessing
<1>3. CASE s = AdvanceStatus(r, v)
  BY <1>3 DEF AdvanceStatus
<1>4. CASE s = SaveOcrResult(r, v)
  BY <1>4 DEF SaveOcrResult
<1>5. CASE s = MarkFailed(r, v)
  BY <1>5 DEF MarkFailed, ErrorCodes, Waiting
<1>6. CASE s = MarkInterrupted(r, v)
  BY <1>6 DEF MarkInterrupted, ErrorCodes
<1>7. ASSUME NEW result \in Results, s = SaveResult(r, v, result)
      PROVE  \/ s = r
             \/ /\ Current(r, v) /\ ~Conflict(r, v)
                /\ s = StoreResult(r, v, result)
  BY <1>7 DEF SaveResult
<1> QED BY <1>1, <1>2, <1>3, <1>4, <1>5, <1>6, <1>7 DEF Processed

\* A job keeps the invariants of the row.
LEMMA JobKeepsRowInv ==
    ASSUME TypeOK, RowInv, JobStep
    PROVE  RowInv'
<1> PICK v \in Versions : row' \in Processed(row, v)
  BY DEF JobStep, JobStepOf
<1>1. /\ row \in Row /\ v \in Nat /\ v # 0
      /\ agreed' = agreed /\ validated' = validated
  BY ConstantsAssumption DEF TypeOK, Versions, JobStep, JobStepOf, history
<1> USE DEF GoneHasNoVersion, MarksAgree, OneResult, CompletedAsValidated, EvidenceIsCurrent,
            ManualHeaderKept, RevisionsTell
<1>2. CASE row' = row
  BY <1>1, <1>2 DEF RowInv, Content
<1>3. ASSUME Current(row, v), row.status \in Waiting,
             NEW code \in ErrorCodes, row' = Failed(row, code)
      PROVE  RowInv'
  <2>1. /\ row'.status = "FAILED" /\ row'.error = code
        /\ row'.version = row.version /\ row'.ocr = row.ocr
        /\ row'.orientation = row.orientation /\ row'.items = row.items
        /\ row'.itemsRevision = row.itemsRevision
        /\ row'.processedRevision = row.processedRevision
        /\ row'.resultSaved = row.resultSaved
        /\ row'.confirmed = row.confirmed
        /\ row'.header = row.header /\ row'.manual = row.manual
    BY <1>1, <1>3 DEF Failed, Row
  <2>2. code # NoError
    BY DEF ErrorCodes, NoError
  <2> QED BY <1>1, <1>3, <2>1, <2>2 DEF RowInv, Waiting, InWork
<1>4. ASSUME CanStart(row, v),
             row' = [row EXCEPT !.status = "PREPROCESSING", !.error = NoError,
                                !.orientation = 0, !.ocr = 0]
      PROVE  RowInv'
  <2>1. /\ row'.status = "PREPROCESSING" /\ row'.error = NoError
        /\ row'.version = row.version /\ row'.ocr = 0
        /\ row'.orientation = 0 /\ row'.items = row.items
        /\ row'.itemsRevision = row.itemsRevision
        /\ row'.processedRevision = row.processedRevision
        /\ row'.resultSaved = row.resultSaved
        /\ row'.confirmed = row.confirmed
        /\ row'.header = row.header /\ row'.manual = row.manual
    BY <1>1, <1>4 DEF Row
  <2> QED BY <1>1, <1>4, <2>1 DEF RowInv, CanStart, Current
<1>5. ASSUME CanAdvance(row, v),
             row' = [row EXCEPT !.status = "OCR_PROCESSING", !.orientation = v]
      PROVE  RowInv'
  <2>1. /\ row'.status = "OCR_PROCESSING" /\ row'.error = row.error
        /\ row'.version = row.version /\ row'.ocr = row.ocr
        /\ row'.orientation = v /\ row'.items = row.items
        /\ row'.itemsRevision = row.itemsRevision
        /\ row'.processedRevision = row.processedRevision
        /\ row'.resultSaved = row.resultSaved
        /\ row'.confirmed = row.confirmed
        /\ row'.header = row.header /\ row'.manual = row.manual
    BY <1>1, <1>5 DEF Row
  <2> QED BY <1>1, <1>5, <2>1 DEF RowInv, CanAdvance, Current
<1>6. ASSUME CanSaveOcr(row, v),
             row' = [row EXCEPT !.status = "PARSING", !.ocr = v]
      PROVE  RowInv'
  <2>1. /\ row'.status = "PARSING" /\ row'.error = row.error
        /\ row'.version = row.version /\ row'.ocr = v
        /\ row'.orientation = row.orientation /\ row'.items = row.items
        /\ row'.itemsRevision = row.itemsRevision
        /\ row'.processedRevision = row.processedRevision
        /\ row'.resultSaved = row.resultSaved
        /\ row'.confirmed = row.confirmed
        /\ row'.header = row.header /\ row'.manual = row.manual
    BY <1>1, <1>6 DEF Row
  <2> QED BY <1>1, <1>6, <2>1 DEF RowInv, CanSaveOcr, Current
<1>7. ASSUME Current(row, v), ~Conflict(row, v),
             NEW result \in Results, row' = StoreResult(row, v, result)
      PROVE  RowInv'
  <2> DEFINE new == [by |-> "worker", revision |-> row.itemsRevision + 1]
  <2>1. /\ row'.status = "NEED_REVIEW" /\ row'.error = NoError
        /\ row'.version = row.version
        /\ row'.orientation = row.orientation
        /\ row'.itemsRevision = row.itemsRevision + 1
        /\ row'.processedRevision = row.processedRevision
        /\ row'.resultSaved = TRUE
        /\ row'.confirmed = FALSE
        /\ row'.manual = row.manual
    BY <1>1, <1>7 DEF StoreResult, Row
  <2>2. row'.ocr = IF row.ocr = 0 THEN v ELSE row.ocr
    BY <1>1, <1>7 DEF StoreResult, Row
  <2>3. row'.header = ParsedHeader(row, result)
    BY <1>1, <1>7 DEF StoreResult, Row
  <2>4. row'.items = (IF row.replaceItems THEN {} ELSE row.items)
                       \union (IF result.items THEN {new} ELSE {})
    BY <1>1, <1>7 DEF StoreResult, Row
  <2>5. row'.items \subseteq {new}
    BY <1>7, <2>4 DEF Conflict
  <2>6. OneResult'
    BY <2>5
  <2>7. EvidenceIsCurrent'
    BY <1>1, <1>7, <2>1, <2>2 DEF RowInv, Current
  <2>8. ManualHeaderKept'
    BY <2>1, <2>3 DEF RowInv, ParsedHeader
  <2>9. RevisionsTell'
    BY <1>1, <2>1 DEF RowInv, Row
  <2> QED BY <2>1, <2>6, <2>7, <2>8, <2>9 DEF RowInv
<1> QED BY <1>2, <1>3, <1>4, <1>5, <1>6, <1>7, ProcessedCases

\* Preparing a version again keeps the invariants of the row.
LEMMA PrepareKeepsRowInv ==
    ASSUME TypeOK, RowInv, PrepareStep
    PROVE  RowInv'
<1> PICK replace \in BOOLEAN : row' = PrepareProcess(row, replace)
  BY DEF PrepareStep
<1>1. row \in Row /\ agreed' = row.items /\ validated' = validated
  BY DEF TypeOK, PrepareStep
<1>2. /\ row'.status = "UPLOADED" /\ row'.error = NoError
      /\ row'.ocr = 0 /\ row'.orientation = 0 /\ row'.items = row.items
      /\ row'.itemsRevision = row.itemsRevision
      /\ row'.processedRevision = row.itemsRevision
      /\ row'.resultSaved = FALSE /\ row'.confirmed = FALSE
      /\ row'.header = row.header /\ row'.manual = row.manual
  BY <1>1 DEF PrepareProcess, Row
<1>3. row.itemsRevision \in Nat
  BY <1>1 DEF Row
<1> QED BY <1>1, <1>2, <1>3
        DEF RowInv, GoneHasNoVersion, MarksAgree, OneResult, CompletedAsValidated,
            EvidenceIsCurrent, ManualHeaderKept, RevisionsTell

\* An edit of the owner keeps the invariants of the row.
LEMMA EditKeepsRowInv ==
    ASSUME TypeOK, RowInv, EditStep
    PROVE  RowInv'
<1>1. /\ row \in Row /\ row.itemsRevision \in Nat /\ row.status \in Status
      /\ row.processedRevision \in Nat
      /\ agreed' = agreed /\ validated' = validated
  BY DEF TypeOK, EditStep, history, Row
<1>2. ASSUME NEW items, row' = WithItems(row, items),
             \A i \in items : i.by = "worker" => i \in row.items
      PROVE  RowInv'
  <2>1. /\ row'.status = IF row.status = "COMPLETED" THEN "NEED_REVIEW"
                                                     ELSE row.status
        /\ row'.error = row.error /\ row'.version = row.version
        /\ row'.ocr = row.ocr /\ row'.orientation = row.orientation
        /\ row'.items = items
        /\ row'.itemsRevision = row.itemsRevision + 1
        /\ row'.processedRevision = row.processedRevision
        /\ row'.resultSaved = row.resultSaved
        /\ row'.confirmed = FALSE
        /\ row'.header = row.header /\ row'.manual = row.manual
    BY <1>1, <1>2 DEF WithItems, Unconfirmed, Row
  <2>2. OneResult'
    BY <1>2, <2>1 DEF RowInv, OneResult
  <2>3. RevisionsTell'
    BY <1>1, <2>1 DEF RowInv, RevisionsTell
  <2> QED BY <2>1, <2>2, <2>3 DEF RowInv, GoneHasNoVersion, MarksAgree,
                                   CompletedAsValidated, EvidenceIsCurrent,
                                   ManualHeaderKept
<1>3. ASSUME NEW value \in {"user", "none"}, row' = UpdateReceipt(row, value)
      PROVE  RowInv'
  <2>1. /\ row'.status = IF row.status = "COMPLETED" THEN "NEED_REVIEW"
                                                     ELSE row.status
        /\ row'.error = row.error /\ row'.version = row.version
        /\ row'.ocr = row.ocr /\ row'.orientation = row.orientation
        /\ row'.items = row.items
        /\ row'.itemsRevision = row.itemsRevision
        /\ row'.processedRevision = row.processedRevision
        /\ row'.resultSaved = row.resultSaved
        /\ row'.confirmed = FALSE
        /\ row'.header = value /\ row'.manual = TRUE
    BY <1>1, <1>3 DEF UpdateReceipt, Unconfirmed, Row
  <2> QED BY <1>1, <2>1
          DEF RowInv, GoneHasNoVersion, MarksAgree, OneResult,
              CompletedAsValidated, EvidenceIsCurrent, ManualHeaderKept,
              RevisionsTell
<1>4. UserItem(row).by = "user"
  BY DEF UserItem
<1>5. CASE row' = CreateItem(row)
  BY <1>2, <1>4, <1>5 DEF CreateItem
<1>6. ASSUME NEW item \in row.items, row' = UpdateItem(row, item)
      PROVE  RowInv'
  BY <1>2, <1>4, <1>6 DEF UpdateItem
<1>7. ASSUME NEW item \in row.items, row' = DeleteItem(row, item)
      PROVE  RowInv'
  BY <1>2, <1>7 DEF DeleteItem
<1> QED BY <1>3, <1>5, <1>6, <1>7 DEF EditStep, Edited

\* Confirming keeps the invariants of the row.
LEMMA ConfirmKeepsRowInv ==
    ASSUME TypeOK, RowInv, ConfirmStep
    PROVE  RowInv'
<1>1. /\ row \in Row /\ agreed' = agreed
      /\ row.status \in {"NEED_REVIEW", "COMPLETED"}
      /\ row' = ConfirmReceipt(row)
      /\ validated' = Content(row)
  BY DEF TypeOK, ConfirmStep, CanConfirm
<1>2. /\ row'.status = "COMPLETED" /\ row'.error = row.error
      /\ row'.version = row.version /\ row'.ocr = row.ocr
      /\ row'.orientation = row.orientation /\ row'.items = row.items
      /\ row'.itemsRevision = row.itemsRevision
      /\ row'.processedRevision = row.processedRevision
      /\ row'.resultSaved = row.resultSaved /\ row'.confirmed = TRUE
      /\ row'.header = row.header /\ row'.manual = row.manual
  BY <1>1 DEF ConfirmReceipt, Row
<1>3. CompletedAsValidated'
  BY <1>1, <1>2 DEF CompletedAsValidated, Content
<1> QED BY <1>1, <1>2, <1>3
        DEF RowInv, GoneHasNoVersion, MarksAgree, OneResult, EvidenceIsCurrent,
            ManualHeaderKept, RevisionsTell

\* The uploaded row satisfies the invariants.
LEMMA UploadedRowInv ==
    ASSUME row = Uploaded, agreed = {}
    PROVE  RowInv
BY DEF Uploaded, NoError, RowInv, GoneHasNoVersion, MarksAgree, OneResult,
       CompletedAsValidated, EvidenceIsCurrent, ManualHeaderKept, RevisionsTell

\* Every step keeps the invariants of the row.
LEMMA RowInvKept ==
    ASSUME TypeOK, Busy, RowInv, [Next]_vars
    PROVE  RowInv'
<1>1. CASE UNCHANGED <<row, history>>
  BY <1>1 DEF history, RowInv, GoneHasNoVersion, MarksAgree, OneResult,
              CompletedAsValidated, EvidenceIsCurrent, ManualHeaderKept,
              RevisionsTell
<1>2. CASE DeleteStep
  <2>1. row' = NoReceipt /\ agreed' = {}
    BY <1>2 DEF DeleteStep
  <2> QED BY <2>1 DEF NoReceipt, Uploaded, NoError, RowInv, GoneHasNoVersion, MarksAgree,
                      OneResult, CompletedAsValidated, EvidenceIsCurrent,
                      ManualHeaderKept, RevisionsTell
<1> QED BY <1>1, <1>2, RowSteps, JobKeepsRowInv, PrepareKeepsRowInv,
           EditKeepsRowInv, ConfirmKeepsRowInv DEF RowStep

IInv == TypeOK /\ Busy /\ RowInv

\* The inductive invariant of the specification.
LEMMA Inductive == Spec => []IInv
<1>1. Init => IInv
  BY InitType, UploadedRowInv DEF Init, IInv
<1>2. IInv /\ [Next]_vars => IInv'
  BY TypeKept, RowInvKept DEF IInv
<1> QED BY <1>1, <1>2, PTL DEF Spec

-----------------------------------------------------------------------------
(***************************************************************************)
(* The properties.                                                         *)
(***************************************************************************)

\* A result, a confirmation and an error are recorded exactly in the statuses
\* that say so, however requests, executions and retries interleave.
THEOREM MarksAlwaysAgree == Spec => []MarksAgree
<1>1. IInv => MarksAgree
  BY DEF IInv, RowInv
<1> QED BY <1>1, Inductive, PTL

\* No number of overlapping executions saves a second set of items.
THEOREM OneResultOnly == Spec => []OneResult
<1>1. IInv => OneResult
  BY DEF IInv, RowInv
<1> QED BY <1>1, Inductive, PTL

\* A completed receipt has the content its confirmation validated.
THEOREM CompletedIsValidated == Spec => []CompletedAsValidated
<1>1. IInv => CompletedAsValidated
  BY DEF IInv, RowInv
<1> QED BY <1>1, Inductive, PTL

\* OCR text and orientation report never outlive their version.
THEOREM EvidenceOfCurrentVersion == Spec => []EvidenceIsCurrent
<1>1. IInv => EvidenceIsCurrent
  BY DEF IInv, RowInv
<1> QED BY <1>1, Inductive, PTL

\* The parser never writes a field the owner has set or cleared.
THEOREM ManualHeaderIsKept == Spec => []ManualHeaderKept
<1>1. IInv => ManualHeaderKept
  BY DEF IInv, RowInv
<1> QED BY <1>1, Inductive, PTL

\* A step of a horse that removes items removes agreed ones.
LEMMA ReplacementStep ==
    ASSUME IInv, [Next]_vars, HorseMoves
    PROVE  row.items \ row'.items \subseteq agreed
<1>1. \/ UNCHANGED <<row, history>>
      \/ JobStep
  BY RowSteps DEF IInv, RowStep, PrepareStep, EditStep, ConfirmStep, DeleteStep,
                  HorseMoves
<1>2. CASE UNCHANGED <<row, history>>
  BY <1>2
<1>3. CASE JobStep
  <2> PICK v \in Versions : row' \in Processed(row, v)
    BY <1>3 DEF JobStep, JobStepOf
  <2>1. row \in Row
    BY DEF IInv, TypeOK
  <2>2. ASSUME Current(row, v), ~Conflict(row, v)
        PROVE  row.items \ row'.items \subseteq agreed
    BY <2>2 DEF IInv, RowInv, RevisionsTell, Current, Conflict
  <2>3. row'.items = row.items \/ (Current(row, v) /\ ~Conflict(row, v))
    BY <2>1, ProcessedCases DEF Failed, Row
  <2> QED BY <2>2, <2>3
<1> QED BY <1>1, <1>2, <1>3

\* A worker removes items only if they are exactly what the owner saw when
\* agreeing to replace them.
THEOREM AgreedReplacement == Spec => OnlyAgreedItemsReplaced
<1>1. IInv /\ [Next]_vars
        => [HorseMoves => row.items \ row'.items \subseteq agreed]_vars
  BY ReplacementStep
<1> QED BY <1>1, Inductive, PTL DEF Spec, OnlyAgreedItemsReplaced

\* A step of w leaves every other busy execution alone.
LEMMA OwnSlotOnly ==
    ASSUME TypeOK, NEW w \in Horses, Work(w),
           NEW u \in Horses, horse[u].phase # "idle", horse'[u] # horse[u]
    PROVE  u = w
<1>1. horse \in [Horses -> Horse]
  BY DEF TypeOK
<1>2. CASE \E v \in Versions : Dequeue(w, v)
  BY <1>1, <1>2 DEF Dequeue
<1>3. CASE Advance(w)
  BY <1>1, <1>3 DEF Advance, Claim, Preprocess, Recognize, Save, RecordFailure,
                    ApplyRetryPolicy, RestoreInterrupted, Goto, Release, Raise
<1>4. CASE \E error \in {"temporary", "permanent"} : PipelineError(w, error)
  BY <1>1, <1>4 DEF PipelineError, Raise
<1>5. ASSUME NEW result \in Results, NEW committed \in BOOLEAN,
             DatabaseError(w, result, committed)
      PROVE  u = w
  <2>1. \/ horse' = Raise(w, "mark_failed", "permanent")
        \/ horse' = Raise(w, "policy", "permanent")
        \/ horse' = Goto(w, "policy")
        \/ horse' = horse
    BY <1>5 DEF DatabaseError, Working
  <2> QED BY <1>1, <2>1 DEF Raise, Goto
<1>6. CASE HorseDies(w)
  BY <1>1, <1>6 DEF HorseDies, Goto, Release
<1>7. ASSUME NEW x \in Horses, Abandon(w, x)
      PROVE  u = w
  <2>1. horse[x].phase = "idle"
    BY <1>7 DEF Abandon, IdleHorse
  <2>2. u # x
    BY <2>1
  <2> QED BY <1>1, <1>7, <2>2 DEF Abandon
<1> QED BY <1>2, <1>3, <1>4, <1>5, <1>6, <1>7 DEF Work, Trouble

\* The row changes under a step of w only if it awaits w's own version.
LEMMA AwaitedStep ==
    ASSUME IInv, [Next]_vars, HorseMoves, row' # row
    PROVE  /\ ~row.resultSaved
           /\ \A w \in Horses :
                 horse'[w] # horse[w] /\ horse[w].phase # "idle"
                    => horse[w].version = row.version
<1>1. PICK w \in Horses : Work(w)
  <2>1. ~(UNCHANGED vars)
    BY DEF vars, HorseMoves
  <2>2. ~Api
    BY DEF Api, Enqueue, EnqueueUnconfirmed, RecordUnconfirmed, ApiDies,
           HorseMoves
  <2>3. ~Owner
    BY DEF Owner, ReprocessReceipt, EditItems, EditHeader, Confirm, Delete,
           HorseMoves
  <2> QED BY <2>1, <2>2, <2>3 DEF Next
<1> DEFINE v == horse[w].version
<1>2. row' \in Processed(row, v)
  BY <1>1, HorseRowSteps DEF IInv, JobStepOf
<1>3. Current(row, v)
  BY <1>2, ProcessedCases DEF CanStart, CanAdvance, CanSaveOcr
<1>4. \A u \in Horses :
         horse'[u] # horse[u] /\ horse[u].phase # "idle" => u = w
  BY <1>1, OwnSlotOnly DEF IInv
<1> QED BY <1>3, <1>4 DEF Current

\* A worker changes the receipt only while the receipt waits for the result of
\* the version the worker was started for.
THEOREM AwaitedVersionWrites == Spec => OnlyAwaitedVersionWrites
<1>1. IInv /\ [Next]_vars
        => [HorseMoves /\ row' # row =>
              /\ ~row.resultSaved
              /\ \A w \in Horses :
                    horse'[w] # horse[w] /\ horse[w].phase # "idle"
                       => horse[w].version = row.version]_vars
  BY AwaitedStep
<1> QED BY <1>1, Inductive, PTL DEF Spec, OnlyAwaitedVersionWrites

-----------------------------------------------------------------------------
(***************************************************************************)
(* Nobody is left waiting.  Attended alone is not inductive: an execution  *)
(* in the wrong phase releases its slot without touching the receipt.  The *)
(* strengthening names, for every status, the phases whose next            *)
(* transaction moves the receipt on.                                       *)
(***************************************************************************)

\* Calls to PostgreSQL succeed and the API does not die between its commit
\* and the enqueue, and a death of a work horse is always noticed: no
\* execution has been taken out of the registry while it was running.
SurvivableFaults ==
    /\ Faults \intersect {"api", "database"} = {}
    /\ ~({"horse", "orphan"} \subseteq Faults)

\* The transaction after this phase changes a receipt in this status.
CarriesOn(phase, status) ==
    \/ phase = "claim" /\ status = "UPLOADED"
    \/ phase = "preprocess" /\ status = "PREPROCESSING"
    \/ phase = "ocr" /\ status = "OCR_PROCESSING"
    \/ phase = "parse" /\ status = "PARSING"
    \/ phase = "mark_failed" /\ status \in InWork
    \/ phase = "dead"

\* Execution w has the receipt in hand.
InHandOf(w) ==
    /\ horse[w].version = row.version
    /\ CarriesOn(horse[w].phase, row.status)

\* A job of the current version exists, will exist, or was refused.
Promised == row.version \in queue \/ Calling(row.version) \/ UploadRefused

WaitingIsInHand ==
    row.status \in Waiting =>
        /\ row.version \in Versions
        /\ \/ \E w \in Horses : InHandOf(w)
           \/ row.status = "UPLOADED" /\ Promised

\* Every running execution that may die is in the registry.
DeathsAreSeen ==
    "horse" \in Faults =>
        \A w \in Horses : horse[w].phase # "idle" => horse[w].registered

\* An execution that has the receipt in hand is not idle.
LEMMA InHandIsBusy ==
    ASSUME NEW w \in Horses, InHandOf(w)
    PROVE  horse[w].phase # "idle"
BY DEF InHandOf, CarriesOn

\* A step of w that leaves the row alone, takes nothing from the queue and
\* lets nothing slip out of w's own hand keeps the receipt in hand.
LEMMA HandKept ==
    ASSUME TypeOK, WaitingIsInHand, NEW w \in Horses, Work(w),
           row' = row, request' = request, queue \subseteq queue',
           InHandOf(w) => InHandOf(w)'
    PROVE  WaitingIsInHand'
<1>1. Promised => Promised'
  BY DEF Promised, Calling, UploadRefused
<1>2. ASSUME NEW u \in Horses, InHandOf(u)
      PROVE  InHandOf(u)'
  <2>1. CASE u = w
    BY <1>2, <2>1
  <2>2. CASE u # w
    <3>1. horse'[u] = horse[u]
      BY <1>2, <2>2, InHandIsBusy, OwnSlotOnly
    <3> QED BY <1>2, <3>1 DEF InHandOf
  <2> QED BY <2>1, <2>2
<1> QED BY <1>1, <1>2 DEF WaitingIsInHand

\* A transaction that takes the receipt out of the waiting statuses, or
\* leaves it in the hand of w.
LEMMA HandTaken ==
    ASSUME NEW w \in Horses, row'.version \in Versions,
           row'.status \notin Waiting \/ InHandOf(w)'
    PROVE  WaitingIsInHand'
BY DEF WaitingIsInHand

\* A receipt that waits for version v has no result yet.
LEMMA WaitingIsCurrent ==
    ASSUME RowInv, row.status \in Waiting
    PROVE  Current(row, row.version)
BY DEF RowInv, MarksAgree, Current, Waiting, InWork

\* Every step of an execution keeps the receipt in hand.
LEMMA WorkKeepsHand ==
    ASSUME SurvivableFaults, IInv, WaitingIsInHand, DeathsAreSeen,
           NEW w \in Horses, Work(w)
    PROVE  WaitingIsInHand'
<1> DEFINE v == horse[w].version
<1>1. TypeOK /\ row \in Row /\ horse \in [Horses -> Horse] /\ horse[w] \in Horse
  BY DEF IInv, TypeOK
<1>2. RowInv /\ (horse[w].phase # "idle" => v \in Versions)
  BY DEF IInv, Busy
<1>3. IdleHorse.phase = "idle"
  BY DEF IdleHorse
<1>4. ASSUME InHandOf(w), row.status \in Waiting PROVE Current(row, v)
  BY <1>2, <1>4, WaitingIsCurrent DEF InHandOf
<1>5. ASSUME NEW u \in Versions, Dequeue(w, u)
      PROVE  WaitingIsInHand'
  <2>1. /\ horse[w].phase = "idle" /\ row' = row /\ request' = request
        /\ queue' = queue \ {u}
        /\ horse'[w].phase = "claim" /\ horse'[w].version = u
    BY <1>1, <1>3, <1>5 DEF Dequeue
  <2>2. \A x \in Horses : InHandOf(x) => InHandOf(x)'
    BY <1>1, <1>5, <2>1 DEF InHandOf, CarriesOn, Dequeue
  <2>3. row.status = "UPLOADED" /\ u = row.version => InHandOf(w)'
    BY <2>1 DEF InHandOf, CarriesOn
  <2>4. u # row.version /\ Promised => Promised'
    BY <2>1 DEF Promised, Calling, UploadRefused
  <2> QED BY <2>1, <2>2, <2>3, <2>4 DEF WaitingIsInHand
<1>6. CASE Claim(w)
  <2>1. v \in Versions /\ request' = request /\ queue' = queue
    BY <1>2, <1>6 DEF Claim, jobs
  <2>2. CASE CanStart(row, v)
    <3>1. /\ row'.status = "PREPROCESSING" /\ row'.version = v
          /\ horse'[w].phase = "preprocess" /\ horse'[w].version = v
      BY <1>1, <1>6, <2>2
         DEF Claim, StartProcessing, CanStart, Current, Goto, Horse, Row
    <3> QED BY <2>1, <3>1, HandTaken DEF InHandOf, CarriesOn
  <2>3. CASE ~CanStart(row, v)
    <3>1. row' = row /\ horse[w].phase = "claim"
      BY <1>6, <2>3 DEF Claim, StartProcessing
    <3>2. ~InHandOf(w)
      BY <1>4, <2>3, <3>1 DEF InHandOf, CarriesOn, CanStart, Waiting
    <3> QED BY <1>1, <2>1, <3>1, <3>2, HandKept
  <2> QED BY <2>2, <2>3
<1>7. CASE Preprocess(w)
  <2>1. v \in Versions /\ request' = request /\ queue' = queue
    BY <1>2, <1>7 DEF Preprocess, jobs
  <2>2. CASE CanAdvance(row, v)
    <3>1. /\ row'.status = "OCR_PROCESSING" /\ row'.version = v
          /\ horse'[w].phase = "ocr" /\ horse'[w].version = v
      BY <1>1, <1>7, <2>2
         DEF Preprocess, AdvanceStatus, CanAdvance, Current, Goto, Horse, Row
    <3> QED BY <2>1, <3>1, HandTaken DEF InHandOf, CarriesOn
  <2>3. CASE ~CanAdvance(row, v)
    <3>1. row' = row /\ horse[w].phase = "preprocess"
      BY <1>7, <2>3 DEF Preprocess, AdvanceStatus
    <3>2. ~InHandOf(w)
      BY <1>4, <2>3, <3>1 DEF InHandOf, CarriesOn, CanAdvance, Waiting, InWork
    <3> QED BY <1>1, <2>1, <3>1, <3>2, HandKept
  <2> QED BY <2>2, <2>3
<1>8. CASE Recognize(w)
  <2>1. v \in Versions /\ request' = request /\ queue' = queue
    BY <1>2, <1>8 DEF Recognize, jobs
  <2>2. CASE CanSaveOcr(row, v)
    <3>1. /\ row'.status = "PARSING" /\ row'.version = v
          /\ horse'[w].phase = "parse" /\ horse'[w].version = v
      BY <1>1, <1>8, <2>2
         DEF Recognize, SaveOcrResult, CanSaveOcr, Current, Goto, Horse, Row
    <3> QED BY <2>1, <3>1, HandTaken DEF InHandOf, CarriesOn
  <2>3. CASE ~CanSaveOcr(row, v)
    <3>1. row' = row /\ horse[w].phase = "ocr"
      BY <1>8, <2>3 DEF Recognize, SaveOcrResult
    <3>2. ~InHandOf(w)
      BY <1>4, <2>3, <3>1 DEF InHandOf, CarriesOn, CanSaveOcr, Waiting, InWork
    <3> QED BY <1>1, <2>1, <3>1, <3>2, HandKept
  <2> QED BY <2>2, <2>3
<1>9. ASSUME NEW result \in Results, Save(w, result)
      PROVE  WaitingIsInHand'
  <2>1. v \in Versions /\ request' = request /\ queue' = queue
    BY <1>2, <1>9 DEF Save, jobs
  <2>2. horse[w].phase = "parse" /\ row' = SaveResult(row, v, result)
    BY <1>9 DEF Save
  <2>3. CASE Current(row, v) /\ ~Conflict(row, v)
    <3>1. row'.status = "NEED_REVIEW" /\ row'.version = v
      BY <1>1, <2>2, <2>3 DEF SaveResult, StoreResult, Current, Row
    <3> QED BY <2>1, <3>1, HandTaken DEF Waiting, InWork
  <2>4. CASE Conflict(row, v)
    <3>1. row' = row /\ horse' = Raise(w, "mark_failed", "permanent")
      BY <1>9, <2>2, <2>4 DEF Save, SaveResult
    <3>2. InHandOf(w) => InHandOf(w)'
      BY <1>1, <2>2, <3>1 DEF InHandOf, CarriesOn, Raise, Horse, InWork
    <3> QED BY <1>1, <2>1, <3>1, <3>2, HandKept
  <2>5. CASE ~Current(row, v)
    <3>1. row' = row
      BY <2>2, <2>5 DEF SaveResult
    <3>2. ~InHandOf(w)
      BY <1>4, <2>2, <2>5 DEF InHandOf, CarriesOn, Waiting, InWork
    <3> QED BY <1>1, <2>1, <3>1, <3>2, HandKept
  <2> QED BY <2>3, <2>4, <2>5
<1>10. CASE RecordFailure(w)
  <2>1. /\ v \in Versions /\ request' = request /\ queue' = queue
        /\ horse[w].phase = "mark_failed" /\ row' = MarkFailed(row, v)
    BY <1>2, <1>10 DEF RecordFailure, jobs
  <2>2. CASE Current(row, v) /\ row.status \in InWork
    <3>1. row'.status = "FAILED" /\ row'.version = v
      BY <1>1, <2>1, <2>2 DEF MarkFailed, Failed, Current, Row
    <3> QED BY <2>1, <3>1, HandTaken DEF Waiting, InWork
  <2>3. CASE ~(Current(row, v) /\ row.status \in InWork)
    <3>1. row' = row
      BY <2>1, <2>3 DEF MarkFailed
    <3>2. ~InHandOf(w)
      BY <1>4, <2>1, <2>3 DEF InHandOf, CarriesOn, Waiting
    <3> QED BY <1>1, <2>1, <3>1, <3>2, HandKept
  <2> QED BY <2>2, <2>3
<1>11. ASSUME NEW checked \in BOOLEAN, ApplyRetryPolicy(w, checked)
       PROVE  WaitingIsInHand'
  <2>1. /\ row' = row /\ request' = request /\ queue \subseteq queue'
        /\ horse[w].phase = "policy"
    BY <1>11 DEF ApplyRetryPolicy
  <2>2. ~InHandOf(w)
    BY <2>1 DEF InHandOf, CarriesOn
  <2> QED BY <1>1, <2>1, <2>2, HandKept
\* Both callbacks of an interruption mark the receipt of a job that waits.
<1>12. ASSUME request' = request, queue' = queue, v \in Versions,
              row' = MarkInterrupted(row, v),
              ~Current(row, v) => (InHandOf(w) => InHandOf(w)')
       PROVE  WaitingIsInHand'
  <2>1. CASE Current(row, v) /\ row.status \in Waiting
    <3>1. row'.status = "FAILED" /\ row'.version = v
      BY <1>1, <1>12, <2>1 DEF MarkInterrupted, Failed, Current, Row
    <3> QED BY <1>12, <3>1, HandTaken DEF Waiting, InWork
  <2>2. CASE row.status \notin Waiting
    BY <1>12, <2>2 DEF MarkInterrupted, WaitingIsInHand
  <2>3. CASE ~Current(row, v)
    <3>1. row' = row
      BY <1>12, <2>3 DEF MarkInterrupted
    <3> QED BY <1>1, <1>12, <2>3, <3>1, HandKept
  <2> QED BY <2>1, <2>2, <2>3
<1>13. CASE RestoreInterrupted(w)
  <2>1. /\ v \in Versions /\ request' = request /\ queue' = queue
        /\ row' = MarkInterrupted(row, v)
    BY <1>2, <1>13 DEF RestoreInterrupted, jobs
  <2>2. CASE row.status \in Waiting
    BY <1>4, <1>12, <2>1, <2>2
  <2>3. CASE row.status \notin Waiting
    BY <2>1, <2>3 DEF MarkInterrupted, WaitingIsInHand
  <2> QED BY <2>2, <2>3
<1>14. ASSUME NEW error \in {"temporary", "permanent"}, PipelineError(w, error)
       PROVE  WaitingIsInHand'
  <2>1. /\ row' = row /\ request' = request /\ queue' = queue
        /\ horse[w].phase \in Working
        /\ horse' = Raise(w, "mark_failed", error)
    BY <1>14 DEF PipelineError, jobs
  <2>2. InHandOf(w) => InHandOf(w)'
    BY <1>1, <2>1 DEF InHandOf, CarriesOn, Raise, Horse, InWork, Working
  <2> QED BY <1>1, <2>1, <2>2, HandKept
<1>15. CASE HorseDies(w)
  <2>1. /\ row' = row /\ request' = request /\ queue' = queue
        /\ horse[w].phase # "idle" /\ "horse" \in Faults
    BY <1>15 DEF HorseDies, jobs, Alive, Working
  <2>2. horse' = Goto(w, "dead")
    BY <1>15, <2>1 DEF HorseDies, DeathsAreSeen
  <2>3. InHandOf(w) => InHandOf(w)'
    BY <1>1, <2>1, <2>2 DEF InHandOf, CarriesOn, Goto, Horse
  <2> QED BY <1>1, <2>1, <2>3, HandKept
<1>16. ASSUME NEW u \in Horses, Abandon(w, u)
       PROVE  WaitingIsInHand'
  <2>1. /\ request' = request /\ queue' = queue
        /\ horse[w].phase # "idle" /\ row' = MarkInterrupted(row, v)
        /\ horse[u].phase = "idle"
    BY <1>3, <1>16 DEF Abandon, jobs, Alive, Working
  <2>2. horse'[w].version = v /\ horse'[w].phase = horse[w].phase
    BY <1>1, <1>16, <2>1 DEF Abandon, Horse
  <2>3. ~Current(row, v) => (InHandOf(w) => InHandOf(w)')
    <3>1. CASE row' = row
      BY <2>2, <3>1 DEF InHandOf
    <3>2. CASE row' # row
      BY <2>1, <3>2 DEF MarkInterrupted
    <3> QED BY <3>1, <3>2
  <2> QED BY <1>2, <1>12, <2>1, <2>3
<1>17. ASSUME NEW result \in Results, NEW committed \in BOOLEAN,
              DatabaseError(w, result, committed)
       PROVE  FALSE
  BY <1>17 DEF DatabaseError, SurvivableFaults
<1> QED
  BY <1>5, <1>6, <1>7, <1>8, <1>9, <1>10, <1>11, <1>13, <1>14, <1>15, <1>16,
     <1>17 DEF Work, Advance, Trouble

\* A request keeps the receipt in hand: the job it enqueues is in the queue,
\* or the answer is recorded, or the upload was answered 503.
LEMMA ApiKeepsHand ==
    ASSUME SurvivableFaults, IInv, WaitingIsInHand, Api
    PROVE  WaitingIsInHand'
<1>1. row \in Row /\ request \in [Versions -> Calls] /\ horse' = horse
  BY DEF IInv, TypeOK, Api, Enqueue, EnqueueUnconfirmed, RecordUnconfirmed,
         ApiDies
<1>2. ASSUME row' = row, Promised => Promised'
      PROVE  WaitingIsInHand'
  BY <1>1, <1>2 DEF WaitingIsInHand, InHandOf
<1>3. ASSUME NEW v \in Versions, Enqueue(v)
      PROVE  WaitingIsInHand'
  <2>1. row' = row /\ (Promised => Promised')
    BY <1>1, <1>3 DEF Enqueue, Promised, Calling, UploadRefused
  <2> QED BY <1>2, <2>1
<1>4. ASSUME NEW v \in Versions, NEW stored \in BOOLEAN,
             EnqueueUnconfirmed(v, stored)
      PROVE  WaitingIsInHand'
  <2>1. /\ row' = row /\ queue \subseteq queue'
        /\ request' = [request EXCEPT ![v] = AfterFailedEnqueue(v)]
    BY <1>4 DEF EnqueueUnconfirmed, jobs
  <2>2. Promised => Promised'
    BY <1>1, <2>1 DEF Promised, Calling, UploadRefused, AfterFailedEnqueue
  <2> QED BY <1>2, <2>1, <2>2
<1>5. ASSUME NEW v \in Versions, NEW written \in BOOLEAN,
             RecordUnconfirmed(v, written)
      PROVE  WaitingIsInHand'
  <2>1. /\ row' = MarkEnqueueUnconfirmed(row, v) /\ queue' = queue
        /\ request' = [request EXCEPT ![v] = "none"]
        /\ request[v] = "unconfirmed"
    BY <1>5 DEF RecordUnconfirmed, SurvivableFaults, jobs
  <2>2. CASE row.status = "UPLOADED" /\ row.version = v
    <3>1. row'.status = "FAILED"
      BY <1>1, <2>1, <2>2, WaitingIsCurrent
         DEF IInv, MarkEnqueueUnconfirmed, Failed, Row, Waiting
    <3> QED BY <3>1 DEF WaitingIsInHand, Waiting, InWork
  <2>3. CASE ~(row.status = "UPLOADED" /\ row.version = v)
    <3>1. row' = row
      BY <2>1, <2>3 DEF MarkEnqueueUnconfirmed, Current
    <3>2. row.status = "UPLOADED" => (Promised => Promised')
      BY <1>1, <2>1, <2>3, <3>1 DEF Promised, Calling, UploadRefused
    <3> QED BY <1>1, <3>1, <3>2 DEF WaitingIsInHand, InHandOf
  <2> QED BY <2>2, <2>3
<1>6. ASSUME NEW v \in Versions, ApiDies(v) PROVE FALSE
  BY <1>6 DEF ApiDies, SurvivableFaults
<1> QED BY <1>3, <1>4, <1>5, <1>6 DEF Api

\* The owner makes a receipt wait only by asking for a new version, whose
\* request then runs; the other steps of the owner leave a receipt that
\* waits waiting, and its executions and its job alone.
LEMMA OwnerKeepsHand ==
    ASSUME IInv, WaitingIsInHand, Owner
    PROVE  WaitingIsInHand'
<1>1. /\ row \in Row /\ request \in [Versions -> Calls]
      /\ row.version \in 0 .. MaxVersion
      /\ horse' = horse /\ queue' = queue
  BY DEF IInv, TypeOK, Owner, ReprocessReceipt, EditItems, EditHeader, Confirm,
         Delete, jobs
<1>2. ASSUME NEW replace \in BOOLEAN, ReprocessReceipt(replace)
      PROVE  WaitingIsInHand'
  <2>1. row.version + 1 \in Versions
    BY <1>1, <1>2, ConstantsAssumption DEF ReprocessReceipt, Versions
  <2>2. row'.version = row.version + 1 /\ row'.status = "UPLOADED"
    BY <1>1, <1>2 DEF ReprocessReceipt, PrepareProcess, Row
  <2>3. request'[row'.version] = "enqueue"
    BY <1>2, <2>1, <2>2 DEF ReprocessReceipt, Forgotten
  <2> QED BY <2>1, <2>2, <2>3 DEF WaitingIsInHand, Promised, Calling
<1>3. ASSUME row'.version = row.version, request' = request,
             row'.status \in Waiting => row'.status = row.status
      PROVE  WaitingIsInHand'
  BY <1>1, <1>3 DEF WaitingIsInHand, InHandOf, Promised, Calling, UploadRefused
<1>4. ASSUME request' = request, row' \in Edited(row) PROVE WaitingIsInHand'
  <2>1. \A items :
           /\ WithItems(row, items).version = row.version
           /\ WithItems(row, items).status =
                IF row.status = "COMPLETED" THEN "NEED_REVIEW" ELSE row.status
    BY <1>1 DEF WithItems, Unconfirmed, Row
  <2>2. \A value :
           /\ UpdateReceipt(row, value).version = row.version
           /\ UpdateReceipt(row, value).status =
                IF row.status = "COMPLETED" THEN "NEED_REVIEW" ELSE row.status
    BY <1>1 DEF UpdateReceipt, Unconfirmed, Row
  <2>3. /\ row'.version = row.version
        /\ row'.status =
             IF row.status = "COMPLETED" THEN "NEED_REVIEW" ELSE row.status
    BY <1>4, <2>1, <2>2 DEF Edited, CreateItem, UpdateItem, DeleteItem
  <2>4. "NEED_REVIEW" \notin Waiting
    BY DEF Waiting, InWork
  <2> QED BY <1>3, <1>4, <2>3, <2>4
<1>5. CASE EditItems
  BY <1>4, <1>5 DEF EditItems, Edited
<1>6. ASSUME NEW value \in {"user", "none"}, EditHeader(value)
      PROVE  WaitingIsInHand'
  BY <1>4, <1>6 DEF EditHeader, Edited
<1>7. CASE Confirm
  <2>1. row'.status = "COMPLETED"
    BY <1>1, <1>7 DEF Confirm, ConfirmReceipt, Row
  <2> QED BY <2>1 DEF WaitingIsInHand, Waiting, InWork
<1>8. CASE Delete
  <2>1. row'.status = "DELETED"
    BY <1>8 DEF Delete, NoReceipt, Uploaded
  <2> QED BY <2>1 DEF WaitingIsInHand, Waiting, InWork
<1> QED BY <1>2, <1>5, <1>6, <1>7, <1>8 DEF Owner

\* Unless live executions are abandoned, all of them stay in the registry.
LEMMA DeathsStaySeen ==
    ASSUME SurvivableFaults, TypeOK, DeathsAreSeen, [Next]_vars
    PROVE  DeathsAreSeen'
<1> SUFFICES ASSUME "horse" \in Faults, NEW u \in Horses,
                    horse'[u].phase # "idle"
             PROVE  horse'[u].registered
  BY DEF DeathsAreSeen
<1>1. horse \in [Horses -> Horse] /\ "orphan" \notin Faults
  BY DEF TypeOK, SurvivableFaults
<1>2. horse[u].phase # "idle" => horse[u].registered
  BY DEF DeathsAreSeen
<1>3. CASE horse'[u] = horse[u]
  BY <1>2, <1>3
<1>4. ASSUME NEW w \in Horses, Work(w), horse'[u] # horse[u]
      PROVE  horse'[u].registered
  <2>1. ASSUME NEW v \in Versions, Dequeue(w, v)
        PROVE  horse'[u].registered
    BY <1>1, <1>4, <2>1 DEF Dequeue
  <2>2. CASE horse[w].phase # "idle"
    <3>1. horse[w].registered
      BY <2>2 DEF DeathsAreSeen
    <3>2. \A x \in Horses : ~Abandon(w, x)
      BY <1>1 DEF Abandon
    <3>3. \/ \E phase : horse' = Goto(w, phase)
          \/ horse' = Release(w)
          \/ \E phase, error : horse' = Raise(w, phase, error)
          \/ RestoreInterrupted(w)
          \/ horse' = horse
          \/ \E v \in Versions : Dequeue(w, v)
      BY <1>4, <3>2
         DEF Work, Advance, Trouble, Claim, Preprocess, Recognize, Save,
             RecordFailure, ApplyRetryPolicy, PipelineError, DatabaseError,
             HorseDies
    <3>4. CASE \E phase : horse' = Goto(w, phase)
      BY <1>1, <1>4, <3>1, <3>4 DEF Goto, Horse
    <3>5. CASE horse' = Release(w)
      BY <1>1, <1>4, <3>1, <3>5 DEF Release, IdleHorse
    <3>6. CASE \E phase, error : horse' = Raise(w, phase, error)
      BY <1>1, <1>4, <3>1, <3>6 DEF Raise, Horse
    <3>7. CASE RestoreInterrupted(w)
      BY <1>1, <1>4, <3>1, <3>7 DEF RestoreInterrupted, Horse
    <3> QED BY <1>4, <2>1, <3>3, <3>4, <3>5, <3>6, <3>7
  <2>3. CASE horse[w].phase = "idle"
    BY <1>4, <2>1, <2>3
       DEF Work, Advance, Trouble, Claim, Preprocess, Recognize, Save,
           RecordFailure, ApplyRetryPolicy, RestoreInterrupted, PipelineError,
           DatabaseError, HorseDies, Abandon, Alive, Working
  <2> QED BY <2>2, <2>3
<1>5. CASE Api \/ Owner \/ UNCHANGED vars
  BY <1>3, <1>5 DEF Api, Owner, vars, Enqueue, EnqueueUnconfirmed,
                    RecordUnconfirmed, ApiDies, ReprocessReceipt, EditItems,
                    EditHeader, Confirm, Delete
<1> QED BY <1>3, <1>4, <1>5 DEF Next

\* The strengthening is inductive.
LEMMA HandInductive ==
    ASSUME SurvivableFaults
    PROVE  Spec => [](IInv /\ WaitingIsInHand)
<1>1. Init => WaitingIsInHand /\ DeathsAreSeen
  <2>1. ASSUME Init PROVE WaitingIsInHand
    BY <2>1, OneIsAVersion
       DEF Init, WaitingIsInHand, Promised, Calling, Uploaded
  <2>2. ASSUME Init PROVE DeathsAreSeen
    BY <2>2 DEF Init, DeathsAreSeen, IdleHorse
  <2> QED BY <2>1, <2>2
<1>2. IInv /\ WaitingIsInHand /\ DeathsAreSeen /\ [Next]_vars
        => WaitingIsInHand' /\ DeathsAreSeen'
  <2> SUFFICES ASSUME IInv, WaitingIsInHand, DeathsAreSeen, [Next]_vars
               PROVE  WaitingIsInHand' /\ DeathsAreSeen'
    OBVIOUS
  <2>1. DeathsAreSeen'
    BY DeathsStaySeen DEF IInv
  <2>2. CASE UNCHANGED vars
    <3>1. row' = row /\ request' = request /\ queue' = queue /\ horse' = horse
      BY <2>2 DEF vars
    <3>2. Promised => Promised'
      BY <3>1 DEF Promised, Calling, UploadRefused
    <3> QED BY <2>1, <3>1, <3>2 DEF WaitingIsInHand, InHandOf
  <2> QED BY <2>1, <2>2, WorkKeepsHand, ApiKeepsHand, OwnerKeepsHand DEF Next
<1> QED BY <1>1, <1>2, Inductive, PTL DEF Spec

\* As long as PostgreSQL and the API answer and every death is noticed, only
\* an upload that was answered 503 leaves a receipt waiting with nobody left
\* to act on it: a reprocess request always leaves a way out.
THEOREM StrandedOnlyByUploads ==
    ASSUME SurvivableFaults
    PROVE  Spec => []OnlyUploadsStranded
<1>1. IInv /\ WaitingIsInHand => OnlyUploadsStranded
  <2> SUFFICES ASSUME WaitingIsInHand, row.status \in Waiting
               PROVE  Attended \/ UploadRefused
    BY DEF OnlyUploadsStranded
  <2>1. CASE \E w \in Horses : InHandOf(w)
    BY <2>1, InHandIsBusy DEF InHandOf, Attended
  <2>2. CASE Promised
    BY <2>2 DEF WaitingIsInHand, Promised, Attended
  <2> QED BY <2>1, <2>2 DEF WaitingIsInHand
<1> QED BY <1>1, HandInductive, PTL

\* When Redis does not fail either, the claim of prepare_process is true: a
\* receipt that "already awaits processing" is one somebody will act on.
THEOREM AttendedWithoutRedisFaults ==
    ASSUME SurvivableFaults, "redis" \notin Faults
    PROVE  Spec => []WaitingIsAttended
<1> DEFINE NoRefusal == \A v \in Versions : request[v] # "refused"
<1>1. Init => NoRefusal
  BY DEF Init
<1>2. TypeOK /\ NoRefusal /\ [Next]_vars => NoRefusal'
  <2> SUFFICES ASSUME TypeOK, NoRefusal, [Next]_vars
               PROVE  NoRefusal'
    OBVIOUS
  <2>1. request \in [Versions -> Calls]
    BY DEF TypeOK
  <2>2. CASE UNCHANGED vars
    BY <2>2 DEF vars
  <2>3. CASE Api
    BY <2>1, <2>3 DEF Api, Enqueue, EnqueueUnconfirmed, RecordUnconfirmed,
                      ApiDies
  <2>4. CASE Owner
    BY <2>1, <2>4 DEF Owner, ReprocessReceipt, EditItems, EditHeader, Confirm,
                      Delete, Forgotten
  <2>5. CASE \E w \in Horses : Work(w)
    <3>1. request' = request
      BY <2>5 DEF Work, Dequeue, Advance, Trouble, Claim, Preprocess, Recognize,
                  Save, RecordFailure, ApplyRetryPolicy, RestoreInterrupted,
                  PipelineError, DatabaseError, HorseDies, Abandon
    <3> QED BY <3>1
  <2> QED BY <2>2, <2>3, <2>4, <2>5 DEF Next
<1>3. NoRefusal /\ OnlyUploadsStranded => WaitingIsAttended
  BY DEF OnlyUploadsStranded, WaitingIsAttended, UploadRefused
<1> QED BY <1>1, <1>2, <1>3, TypeCorrect, StrandedOnlyByUploads, PTL DEF Spec

-----------------------------------------------------------------------------
(***************************************************************************)
(* Refinement.                                                             *)
(***************************************************************************)

\* The phase of every status.
LEMMA PhaseOfStatus ==
    ASSUME NEW status \in Status
    PROVE  /\ status \in Waiting <=> PhaseOf(status) = "waiting"
           /\ status = "FAILED" <=> PhaseOf(status) = "failed"
           /\ status = "NEED_REVIEW" <=> PhaseOf(status) = "review"
           /\ status = "COMPLETED" <=> PhaseOf(status) = "completed"
           /\ status = "DELETED" <=> PhaseOf(status) = "deleted"
BY DEF PhaseOf, Status, Waiting, InWork, Settled

\* A step of the row is a step of the lifecycle or leaves it unchanged.
LEMMA LifecycleStep ==
    ASSUME IInv, [Next]_vars
    PROVE  [Lifecycle!Next]_(Lifecycle!vars)
<1>1. /\ row \in Row /\ row' \in Row
      /\ row.status \in Status /\ row'.status \in Status
      /\ row.items \in SUBSET Item /\ row.header \in Headers
      /\ row'.items \in SUBSET Item /\ row'.header \in Headers
  BY TypeKept DEF IInv, TypeOK, Row
<1>2. /\ row.status \in Waiting <=> PhaseOf(row.status) = "waiting"
      /\ row.status = "FAILED" <=> PhaseOf(row.status) = "failed"
      /\ row.status = "NEED_REVIEW" <=> PhaseOf(row.status) = "review"
      /\ row.status = "COMPLETED" <=> PhaseOf(row.status) = "completed"
      /\ row.status = "DELETED" <=> PhaseOf(row.status) = "deleted"
  BY <1>1, PhaseOfStatus
<1>3. /\ row'.status \in Waiting <=> PhaseOf(row'.status) = "waiting"
      /\ row'.status = "FAILED" <=> PhaseOf(row'.status) = "failed"
      /\ row'.status = "NEED_REVIEW" <=> PhaseOf(row'.status) = "review"
      /\ row'.status = "COMPLETED" <=> PhaseOf(row'.status) = "completed"
      /\ row'.status = "DELETED" <=> PhaseOf(row'.status) = "deleted"
  BY <1>1, PhaseOfStatus
<1>4. CASE UNCHANGED <<row, history>>
  BY <1>4 DEF Lifecycle!vars, history
<1>5. CASE JobStep
  <2> PICK v \in Versions : row' \in Processed(row, v)
    BY <1>5 DEF JobStep, JobStepOf
  <2>1. agreed' = agreed /\ v # 0
    BY <1>5, ConstantsAssumption DEF JobStep, JobStepOf, history, Versions
  <2>2. CASE row' = row
    BY <2>1, <2>2 DEF Lifecycle!vars
  <2>3. ASSUME row.status \in Waiting, NEW code \in ErrorCodes,
               row' = Failed(row, code)
        PROVE  Lifecycle!Fail
    <3>1. /\ row'.status = "FAILED" /\ row'.items = row.items
          /\ row'.header = row.header
      BY <1>1, <2>3 DEF Failed, Row
    <3> QED BY <1>2, <1>3, <2>1, <2>3, <3>1 DEF Lifecycle!Fail
  <2>4. ASSUME CanStart(row, v),
               row' = [row EXCEPT !.status = "PREPROCESSING",
                                  !.error = NoError,
                                  !.orientation = 0, !.ocr = 0]
        PROVE  Lifecycle!Resume \/ UNCHANGED Lifecycle!vars
    <3>1. /\ row'.status = "PREPROCESSING" /\ row'.items = row.items
          /\ row'.header = row.header
      BY <1>1, <2>4 DEF Row
    <3>2. PhaseOf(row'.status) = "waiting"
      BY <1>3, <3>1 DEF Waiting, InWork
    <3>3. PhaseOf(row.status) \in {"waiting", "failed"}
      BY <1>2, <2>4 DEF CanStart, Waiting
    <3> QED BY <2>1, <3>1, <3>2, <3>3 DEF Lifecycle!Resume, Lifecycle!vars
  <2>5. ASSUME \/ /\ CanAdvance(row, v)
                  /\ row' = [row EXCEPT !.status = "OCR_PROCESSING",
                                        !.orientation = v]
               \/ /\ CanSaveOcr(row, v)
                  /\ row' = [row EXCEPT !.status = "PARSING", !.ocr = v]
        PROVE  UNCHANGED Lifecycle!vars
    <3>1. /\ row'.status \in {"OCR_PROCESSING", "PARSING"}
          /\ row'.items = row.items /\ row'.header = row.header
      BY <1>1, <2>5 DEF Row
    <3>2. PhaseOf(row'.status) = "waiting"
      BY <1>3, <3>1 DEF Waiting, InWork
    <3>3. PhaseOf(row.status) = "waiting"
      BY <1>2, <2>5 DEF CanAdvance, CanSaveOcr, Waiting, InWork
    <3> QED BY <2>1, <3>1, <3>2, <3>3 DEF Lifecycle!vars
  <2>6. ASSUME Current(row, v), ~Conflict(row, v),
               NEW result \in Results, row' = StoreResult(row, v, result)
        PROVE  Lifecycle!Publish
    <3>1. /\ row'.status = "NEED_REVIEW"
          /\ row'.header = ParsedHeader(row, result)
      BY <1>1, <2>6 DEF StoreResult, Row
    <3>2. row.items = agreed
      BY <2>6 DEF IInv, RowInv, RevisionsTell, Current, Conflict
    <3>3. row.status \in Waiting \union {"FAILED"}
      BY <1>1, <2>1, <2>6
         DEF IInv, RowInv, MarksAgree, GoneHasNoVersion, Current, Status,
             Settled
    <3>4. row'.header # row.header => row.header = "none"
      BY <3>1 DEF ParsedHeader
    <3> QED BY <1>1, <1>2, <1>3, <2>1, <3>1, <3>2, <3>3, <3>4
            DEF Lifecycle!Publish
  <2> QED BY <2>2, <2>3, <2>4, <2>5, <2>6, ProcessedCases DEF Lifecycle!Next
<1>6. CASE PrepareStep
  <2> PICK replace \in BOOLEAN : /\ CanPrepare(row, replace)
                                 /\ row' = PrepareProcess(row, replace)
    BY <1>6 DEF PrepareStep
  <2>1. /\ row'.status = "UPLOADED" /\ row'.items = row.items
        /\ row'.header = row.header
    BY <1>1 DEF PrepareProcess, Row
  <2>2. PhaseOf(row'.status) = "waiting"
    BY <1>3, <2>1 DEF Waiting
  <2>3. PhaseOf(row.status) \in {"failed", "review", "completed"}
    BY <1>2 DEF CanPrepare, Settled
  <2>4. Lifecycle!Submit
    BY <1>6, <2>1, <2>2, <2>3 DEF Lifecycle!Submit, PrepareStep
  <2> QED BY <2>4 DEF Lifecycle!Next
<1>7. CASE EditStep
  <2>1. row'.status = IF row.status = "COMPLETED" THEN "NEED_REVIEW"
                                                  ELSE row.status
    <3>1. \A items : WithItems(row, items).status =
               IF row.status = "COMPLETED" THEN "NEED_REVIEW" ELSE row.status
      BY <1>1 DEF WithItems, Unconfirmed, Row
    <3>2. \A value : UpdateReceipt(row, value).status =
               IF row.status = "COMPLETED" THEN "NEED_REVIEW" ELSE row.status
      BY <1>1 DEF UpdateReceipt, Unconfirmed, Row
    <3> QED BY <1>7, <3>1, <3>2 DEF EditStep, Edited, CreateItem, UpdateItem,
                                    DeleteItem
  <2>2. row.status # "DELETED" /\ agreed' = agreed
    BY <1>7 DEF EditStep, history
  <2>3. PhaseOf(row'.status) = IF PhaseOf(row.status) = "completed"
                               THEN "review" ELSE PhaseOf(row.status)
    BY <1>2, <1>3, <2>1
  <2>4. Lifecycle!Edit
    BY <1>1, <1>2, <2>2, <2>3 DEF Lifecycle!Edit
  <2> QED BY <2>4 DEF Lifecycle!Next
<1>8. CASE ConfirmStep
  <2>1. /\ row'.status = "COMPLETED" /\ row'.items = row.items
        /\ row'.header = row.header /\ agreed' = agreed
    BY <1>1, <1>8 DEF ConfirmStep, ConfirmReceipt, Row
  <2>2. row.status = "NEED_REVIEW" /\ row.items # {} /\ row.header # "none"
    BY <1>8 DEF ConfirmStep, CanConfirm, IInv, RowInv, MarksAgree
  <2>3. Lifecycle!Confirm
    BY <1>2, <1>3, <2>1, <2>2 DEF Lifecycle!Confirm
  <2> QED BY <2>3 DEF Lifecycle!Next
<1>9. CASE DeleteStep
  <2>1. /\ row'.status = "DELETED" /\ row'.items = {}
        /\ row'.header = "none" /\ agreed' = {} /\ row.status # "DELETED"
    BY <1>9 DEF DeleteStep, NoReceipt, Uploaded
  <2>2. Lifecycle!Delete
    BY <1>2, <1>3, <2>1 DEF Lifecycle!Delete
  <2> QED BY <2>2 DEF Lifecycle!Next
<1> QED BY <1>4, <1>5, <1>6, <1>7, <1>8, <1>9, RowSteps DEF IInv, RowStep

\* The processing of receipts implements the promise of ReceiptLifecycle.
THEOREM Implementation == Spec => ImplementsLifecycle
<1>1. Init => Lifecycle!Init
  BY DEF Init, Lifecycle!Init, Uploaded, PhaseOf, Waiting
<1>2. IInv /\ [Next]_vars => [Lifecycle!Next]_(Lifecycle!vars)
  BY LifecycleStep
<1> QED BY <1>1, <1>2, Inductive, PTL
        DEF Spec, ImplementsLifecycle, Lifecycle!Spec
=============================================================================
