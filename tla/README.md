# Verification of the AI shopping analyzer

TLA+ models of the backend that turns photographs of receipts into reviewed
purchases, the TLC runs that check them on small instances, and the TLAPS proofs
that hold for every instance. Paths below are relative to `src/backend/app/`
unless they start with `src/`.

## 1. The system

| component | state | operations | talks to |
|---|---|---|---|
| receipts API (`api/receipts.py`) | none; one process per request, may die between two calls | upload, reprocess, edit, confirm, delete | PostgreSQL, object storage, Redis |
| processing service and repository (`services/receipt_processing_service.py`, `repositories/receipt_processing_repository.py`) | the row of a receipt: status, versions and revisions, marks, evidence, items, header | prepare_process, mark_enqueue_unconfirmed, start_processing, advance_status, save_ocr_result, save_result, mark_failed, mark_interrupted, can_retry_processing | PostgreSQL; every method is one transaction under the row's lock |
| queue and worker (`workers/`) | RQ's queue, scheduled retries, registry of started jobs, one process per execution | enqueue, process_receipt, receipt_failure_callback, killed-horse handler | Redis, the processing service |
| owner's operations (`services/receipt_service.py`, `repositories/receipt_repository.py`) | the same row | edits of items and header, confirm, delete | PostgreSQL, object storage |
| image storage (`services/receipt_upload_service.py`, `services/object_cleanup_service.py`, `cleanup_receipt_objects.py`) | rows of `receipts` and `object_cleanup_tasks`, objects in S3 | upload, deletion with cleanup_one, the cleanup command | PostgreSQL and S3, which share no transaction |
| receipt arithmetic (`services/receipt_arithmetic.py`) | none | validate_receipt_arithmetic | called by confirm |
| categorization (`categorization/`, `services/receipt_categorization_service.py`) | the rules; per item the category, its suggestion and their origin | suggest_items | called by save_result and item edits |
| parsing (`parsing/`) | none; the loop over the lines keeps the row it collects | OCR text to items, header, confidence | called by the pipeline |
| OCR (`ocr/`) | a loaded network | image to fragments of text, a confidence for every line | called by the pipeline |
| orientation (`image_processing/`) | a loaded network | decode, classify five squares, turn | called by the pipeline |
| processing metrics (`services/processing_metrics_service.py`) | counters in Redis | measure, record, snapshot | wraps every stage of a job |
| monthly reports (`services/llm_report_service.py`, `llm/`) | rows of `llm_reports` | create, list, read | PostgreSQL, Ollama over HTTP with retries |
| analytics (`services/analytics_*`, `repositories/analytics_repository.py`) | none | periods, comparison of months, sums, rankings, trends | PostgreSQL |
| accounts (`services/auth_service.py`, `session_service.py`, `login_rate_limit_service.py`) | users; sessions, their index and failure counters in Redis | register, log in, change password, log out | PostgreSQL, Redis, which share no transaction |
| web client (`src/frontend/src/`) | who is signed in, cached answers, unsaved edits | signing in and out, polling, editing, confirming | the API |

**What is hard here.** A receipt is changed by four kinds of actors that know
nothing of each other: API requests, executions of jobs, the failure callback
(run by a work horse's parent or by another worker's maintenance), and the owner.
All coordination goes through one row. Jobs are duplicated (retries, executions
wrongly taken for abandoned), lost (an enqueue Redis did not confirm), delayed
past a reprocess or a deletion, and killed between any two transactions; a COMMIT
may succeed and still raise. For images, and for a password and the sessions it
opened, two stores must agree without a common transaction. Counters in Redis are
read and raised by concurrent requests and expire between two calls. In the
browser answers about a session that was left arrive after those of the next one.
And there is arithmetic that is hard to test at its ends: rounding and tolerances
that three parts of the program must share, months of different lengths, clocks
that are turned, cursors over text, a row of a receipt collected over several
lines. PROJECT.json lists these hazards at their lines.

**What makes each part correct.**

- *Processing*: a version publishes at most once; nothing older than the current
  version writes; the marks of the row agree with its status; evidence belongs to
  the current version; a waiting receipt is one somebody will still act on, and it
  settles.
- *Owner's operations*: what the owner typed or cleared is not overridden, edited
  items are not lost to a late result, a completed receipt has the content that
  was validated.
- *Images*: none is forgotten, none is removed while a receipt has it, a clean
  run of the command has removed all it found.
- *Categories*: a rule never overrides what the owner chose or what is older than
  the rules; the marks of a category tell its origin; a suggestion belongs to the
  name the item has.
- *Reports*: what is stored was computed from one consistent reading; what a client
  was told is stored is; data goes only to a model checked in the same attempt; a
  request ends.
- *Sessions*: a change of the password ends every session opened with the old one,
  because every session that lives is in the index; a registration never takes an
  account over; no request waits for ever for another's lock.
- *Login limit*: few more failures than the limit pass however logins interleave;
  the window begins with the first failure; who waits as told is let in.
- *Metrics*: an execution is counted once, by itself or by the callback, unless the
  callback is called again for it; the counters of the stages fit each other up to
  the records that were lost.
- *Analytics*: a period selects the instants of its local days and no others; the
  months are compared up to the same moment; rankings, trends, summaries and the
  comparison, which are different queries, agree.
- *Parsing and OCR lines*: no line is in two items; an item joins no lines across a
  break; its confidence is that of the lines it was read from; figures are not
  given up silently.
- *Arithmetic*: page and confirmation decide alike at the boundary, and so does the
  stored report while it names the figures of the receipt; what is confirmed is close
  to what was bought.
- *Orientation*: a picture is turned by a consensus only.
- *Client*: nobody's data is shown beside another name; a late answer does not end
  the session that followed.

## 2. Modules

| module | models |
|---|---|
| `ReceiptRow` | the row of one receipt; each transaction of the processing service and of the owner as an operator from row to row |
| `ReceiptProcessing` | EXTENDS `ReceiptRow`: API requests, queue, executions, failure callback, owner and faults interleaved around that row |
| `ReceiptLifecycle` | abstract specification: phase, items and header of a receipt with no queue, job or revision |
| `ReceiptProcessingProofs` | TLAPS proofs about the two modules, and that `ReceiptProcessing` implements `ReceiptLifecycle` |
| `MCReceiptProcessing` | instances for TLC, symmetry of the executions |
| `ObjectLifecycle` | the images: PostgreSQL, object storage, upload and deletion requests, the cleanup command |
| `ObjectLifecycleProofs` | its TLAPS proofs |
| `MCObjectLifecycle` | instances for TLC |
| `MonthlyReport` | requests for a monthly report of one owner: reading, the model's calls with retries, storing; the list of reports |
| `SavedReports` | abstract specification: what a request has seen, the reports saved, what the client was told, with no query, retry or model |
| `MonthlyReportProofs` | TLAPS proofs about `MonthlyReport`, and that it implements `SavedReports` |
| `MCMonthlyReport` | symmetry of the requests |
| `ItemCategories` | the category of every item of a receipt and where it comes from |
| `Sessions` | accounts in PostgreSQL, sessions and their index in Redis; registration, login, change of password, logout |
| `LoginAttempts` | the counter of failed logins and its time to live |
| `ProcessingMetrics` | EXTENDS `ReceiptRow`: what is counted of the executions of a job |
| `ProcessingMetricsProofs` | its TLAPS proofs |
| `LocalTime` | instants, wall clocks with a transition, a calendar of months; no behaviour |
| `AnalyticsPeriods` | EXTENDS `LocalTime`: choices of days resolved to instants, months to compare, times read from a receipt |
| `AnalyticsTotals` | EXTENDS `AnalyticsPeriods`: the queries, over confirmed receipts that come and go |
| `AnalyticsProofs` | TLAPS proofs about the clocks, the calendar, the periods and what is counted in them |
| `ReceiptArithmetic` | the sums of a receipt as the parser, the page and the confirmation compute them |
| `ItemParser` | the pass over the lines of a text that collects items |
| `OcrLines` | the pass over the lines of a text that finds their confidence |
| `ImageOrientation` | decoding, squares, votes, decision |
| `ClientSession` | one tab of the browser: who is signed in, cache, requests in flight |
| `MCAccounts` | EXTENDS `Sessions`: an instance of it beside one of `LoginAttempts` and one of `ClientSession` |
| `AccountsProofs` | TLAPS proofs about the three, and that a run of `MCAccounts` is a run of each |
| `MCReading` | EXTENDS `ItemCategories`: an instance of it beside one of `ImageOrientation`, `OcrLines`, `ItemParser` and `ReceiptArithmetic` |
| `ReadingProofs` | TLAPS proofs about these, and that a run of `MCReading` is a run of each |
| `FoldLemmas` | lemmas about induction over numbers, finite sets and sequences, about sums over a set and folds over a sequence, for the proofs |
| `MCAnalyticsTotals`, `MCProcessingMetrics` | instances for TLC and symmetry |

`MCAccounts` and `MCReading` put modules together that share no variable, with a
variable `part` that says which of them runs: to each module the steps of the others
are stuttering, so that letting two of them run at a time would only multiply the
states. Their properties are those of the modules, under the same names.

### ReceiptRow and ReceiptProcessing

Each method of `ReceiptProcessingService` locks the row with `SELECT ... FOR
UPDATE`, reads, writes and commits, so it is one atomic operator of `ReceiptRow`
and one action of `ReceiptProcessing`. Between two of them everything interleaves.
`horse[w].phase` names the transaction an execution runs next:

| code | action |
|---|---|
| `prepare_process` in `reprocess_receipt` | `ReprocessReceipt` |
| `enqueue_receipt` confirmed / RedisError, with the job stored or not | `Enqueue` / `EnqueueUnconfirmed` |
| `mark_enqueue_unconfirmed` after it (reprocess only; an upload just answers 503, which leaves `request` at `"refused"`) | `RecordUnconfirmed` |
| `start_processing`, `advance_status`, `save_ocr_result`, `save_result` in `process_receipt` | `Claim`, `Preprocess`, `Recognize`, `Save` |
| an exception of the pipeline; `mark_failed` in the handler | `PipelineError`; `RecordFailure` |
| `_apply_retry_policy` and the retry RQ schedules | `ApplyRetryPolicy` |
| `receipt_failure_callback` for an interruption | `RestoreInterrupted`, then `ApplyRetryPolicy` |
| a transaction raises, rolled back or committed all the same | `DatabaseError` |
| a horse or its worker dies; a live execution is taken for abandoned | `HorseDies`; `Abandon` |
| item edits; PATCH of the header; confirm; delete | `EditItems`; `EditHeader`; `Confirm`; `Delete` |

Data is abstracted to what the properties tell apart: an item is who wrote it at
which items revision, the three header fields are one, an OCR text is the version
that stored it, the codes of `get_safe_processing_error` are one code, and an
error of the pipeline is temporary or permanent as `is_retryable_error` decides.
`agreed` and `validated` are history variables: the items when the current version
was prepared, and the content `confirm_receipt` last validated. `Faults` selects
what may go wrong in an instance, so that a run can say under which faults a
property holds.

RQ is external. It is modelled from its use in `workers/queue.py`,
`workers/retry_policy.py`, `workers/worker.py` and from
`src/backend/tests/integration/test_receipt_recovery.py`: a job is queued or held
by one execution; `retries_left` is read into the execution's own copy of the job
and written back by the callback; an execution that dies leaves an entry in the
registry, which the parent or the next maintenance finds.

### ReceiptLifecycle

Submissions publish at most one result, only into a receipt whose items are still
those of the submission, and fill only an empty header; a completed receipt is
changed only by being reopened. `ImplementsLifecycle` maps statuses to phases
(`PhaseOf`) and items, header and `agreed` to themselves.

### ObjectLifecycle

An upload registers a cleanup task in a transaction of its own, stores the object
while the transaction that inserts the row is open, and commits the row together
with the removal of the task. A deletion removes the row and adds a task in one
transaction; `cleanup_one`, run behind it or by the command, locks the task, looks
for a receipt, deletes the object and then the task. `Outcomes` lets every call
succeed, raise without effect, or raise after its effect; `UploadDies` and
`CleanupDies` end a process anywhere. The uncommitted row of an upload is seen by
nobody, which is why the command needs `--uploads-stopped`: `StartCommand` has it
as its guard, at the moment the tasks are read. Uploads may begin again while the
command works: its ids are those it read. An object written by an upload that
fails or dies is there when the upload ends, or never.

### MonthlyReport

| code | action |
|---|---|
| `get_current_user_id` | `Start` |
| one query of `monthly_aggregates`; the transaction raises | `Read`; `ReadFails` |
| validation of `MonthlyReportData`, `purchase_count == 0` | `Prepare` |
| one pass of the loop in `OllamaLlmProvider.generate`: `_ensure_local_model`, `_post` of `/api/chat`, `time.sleep` | `Show`, `Chat`, `Resume` |
| the storing transaction, with `lock_owner` finding the account or not | `Store`, `StoreWithoutOwner` |
| the API process dies | `RequestDies` |
| `list_reports`: count, then rows, then the page count | `Count`, `List`, `TotalPages` |

The content of the database is the number of its last commit: `Read` appends the
commit a query saw, so that `input` tells whether all parts of a report were read
from one state. `View` is PostgreSQL's REPEATABLE READ, where the first query
fixes what the others see. `EmptyAt` and `InvalidAt` name the commits at which the
month has no confirmed purchase, or data the schema rejects (21 rules). A commit
that raises may have happened (`"raised"` in `Store`). Ollama is external: under
the configured name it serves a local model, a remote one or none, and somebody
may replace it at any time (`ReplaceModel`). `replaced` is a history variable: the
model changed since the check of the current attempt. `exposed` records the
requests whose post of aggregates reached a remote model, which is what
`_ensure_local_model` is there to refuse. Deleting an account is not an operation
of the API; the schema provides for it (`ON DELETE CASCADE`) and `lock_owner`
guards against it. The snapshot of a listing ends with its transaction.

### SavedReports

A request looks at the content of the account once and saves at most one report, all
parts of which say what was seen then, while the account exists; "created" is answered
only for a report that was saved. `KeepsPromise` maps the commits seen by the queries
of a request to what it has seen, and steps and answers to `open`, `created` and
`ended` (`OutcomeOf`). Retries, pauses and the model are not in it.

### ItemCategories

Each request holds the receipt's lock from its first read to its commit, so
`Create`, `Update` and `Delete` are one action each, as is `SaveResult`; whether
`save_result` may publish is `ReceiptRow`'s concern and left open here. `Rule`
maps a name to the category of the first matching entry of `KEYWORD_RULES`, a
constant: the module is about one version of the rules. `input` stands for
`category_input` and, being NULL together with it, for `category_rule_version`.
`category_confirmed_at` is the number of the choice that set it. `Init` ranges
over everything migration `c72f10356eb4` may have left: items without a rule
version, marked `legacy` if they have a category. Removing a category is external;
its foreign keys are `ON DELETE SET NULL`.

### Sessions

A session is named by the login that opened it, an account by its mail; `version`
counts the changes of a password. One step is one call to Redis or to PostgreSQL.

| code | action |
|---|---|
| `register_user`: look-up, INSERT at the flush, COMMIT | `StartRegister`, `LookUp`, `Insert`, `CommitRegister` |
| `login_user`; `create_session` (one MULTI) | `StartLogin`, `Verify`; `CreateSession` |
| `change_password`: the session, the row, the UPDATE, SMEMBERS, the two deletions (one MULTI), COMMIT | `StartChange`, `VerifyCurrent`, `Flush`, `ReadMembers`, `Revoke`, `CommitChange` |
| `delete_session`: GET, then one MULTI | `StartLogout`, `Drop` |
| a call fails or the process dies; `get_db` closes the transaction | `RequestFails` |
| keys expire | `Tick` |

`writer` is the request whose uncommitted write holds a row or an entry of the
unique index: `Insert` and `Flush` wait for it. Calls may take effect and not be
answered (`"error"` after the effect). `crossed` is a history variable: the logins
that verified a password or were about to open their session while a change of it
was between SMEMBERS and COMMIT. The code has no lock against these, so the
properties except them: they say that this is the only way a session gets past a
change of the password. An INSERT that meets a committed row ends in `"clash"`:
the `IntegrityError`, which nothing catches, is answered 500 where the look-up
answers 409.

### LoginAttempts

`get_retry_after` is the two calls `Check` (GET) and `Limited` (TTL),
`record_failure` one MULTI (`RecordFailure`), and after a failure that reached the
limit the two calls are made again (`CheckAgain`, `LimitedAgain`). Time is counted
down in quarters of a second, because what TTL tells is rounded to seconds: a key
with less than half a second to live is told as 0 and lets a login in while it is
still there. `wait` and `of` say what a client that obeys `Retry-After` knows: how
long it still waits and whether the counter it was told about is still that one.
`opened` runs down from the first failure, whatever later failures do.

### ProcessingMetrics

The executions of one job over `ReceiptRow`, one step per body of a stage (`Run`,
`RunFails`), per `finally` (`RecordStage`, `RecordPipeline`), per `except`
(`Mark`), and the callback (`Restore`, `Abandon`, `ApplyRetryPolicy`). `measure`
records what the body left in the observation; `Record` may lose a record, which
the code logs and goes on. A stage is its place in the order of the code;
`Following` is the next one that is looked at (`StageNumbers`); `Leave` forgets it
when the execution is past its stages. A pipeline that ends in `SystemExit` is not
recorded by itself: the callback of its parent does, if it found a receipt to mark.

A process may die wherever it works (`Alive`), in the callback it runs itself after
an error too. If it is watched, the handler of killed horses or the maintenance calls
the callback once more, and where the claim or `mark_failed` had failed the row still
waits: the execution, counted as an error, is counted as interrupted as well. `repeats`
counts such further calls, and those for an execution that is only taken for dead
(`CalledAgain`); the second count of an execution is right or wrong only against it.
`lost`, `pipelines`, `repeats` and `interruptions` are history variables. Durations,
the split by days and the expiry of the days are left out: a counter is the sum of its
days. The snapshot only reads.

### LocalTime, AnalyticsPeriods and AnalyticsTotals

`LocalTime` has the clocks: a zone is one transition from an offset to another, a
wall clock may be shown once, twice or never, and `Instant` and `Fold` do what
`zoneinfo` does with them. `AnalyticsPeriods` resolves presets, chosen days and the
months to compare (`GetPreset`, `GetCustom`, `GetComparison`) and the time printed
on a receipt (`ReadDatetime`). It assumes that no zone turns its clocks over a
midnight; at one exactly it may, and it may skip a whole day. `AnalyticsTotals` adds
the rows the queries read and has each query of `AnalyticsRepository` as an
operator: `Summary`, `Categories`, `Products`, `TopStores`, `Trends`,
`MonthComparison`. What an ORDER BY leaves open is a set of answers. The percentages
of a comparison and the normalization of names are left out.

### ReceiptArithmetic

Amounts in hundredths and quantities in thousandths, as columns and forms hold them.
`CheckTotals` is the parser's report, `Validated` the confirmation, `Mismatch` what
the page shows, `LineTotal` its BigInt product. `Init` is what `store_result` leaves:
the parser's items and the report about them, beside a total that may be another than
the parsed one, since one that was there, or was cleared by the owner, is kept. Items
and total are edited in between and no edit touches the report, which therefore may be
overtaken, as `test_confirmation_uses_live_values_and_ignores_stale_parsing_report` in
`src/backend/tests/integration/test_receipt_confirmation.py` has it; `ReportIsLive`
says that its sum and its total are those of the receipt. A reprocessing, which clears
the report and saves another, is a new initial state. The page compares with five
hundredths whatever is configured, so the module assumes that setting (`Tolerance =
PageTolerance`). A missing value is neither a number nor an answer of the parser's
report, which `None` states.

### ItemParser and OcrLines

`ItemParser` is the loop of `ReceiptItemParser.parse`, one action per branch. The
regular expressions are left out: a line is of a kind, and what it reads as together
with the figures collected before is chosen among what its kind can be. So the model
has more behaviours than the code, and what holds of it is due to the bookkeeping of
the loop (what is collected, cleared, given up) and not to what the expressions
accept. The text comes into being while it is read; `ahead` keeps what the two looks
ahead found, so that the lines that follow agree with it. An item carries the lines
of its text and, apart from these, the lines its confidence is taken from.

`OcrLines` is `recognize`'s join of fragments and `ocr_line_confidences` over
characters that are ink, a space or a break.

### ImageOrientation

`Decode`, `Predict` per square, `Decide`, `Normalize`. `RegionBoxes` computes the
squares with Python's rounding to even and drops those that are equal. The classifier
is any angle with any confidence. The policy of a single prediction, which the worker
does not configure, is left out.

### ClientSession

One tab: `SendMe`, `SendLogin`, `SendLogout`, `SendData` send the cookie of the
moment; `ServeLogin`, `ServeLogout`, `ServeOwner` answer; `Arrive` is the browser
taking the cookie of an answer, `Handle` the page handling its body, with the epoch
`apiRequest` remembered. `Show` is `setUser`, the new `QueryClient` and
`resetApiSession`. `mine` is a history variable: the session the shown user is
signed in with. Sessions expire at any time, requests and answers are lost, the tab
is reloaded. A login form that is busy is not left. The late answer to a logout may
delete the cookie of a newer login; this signs out and shows nothing wrong, so it is
no violation of the two properties. Several tabs, polling and drafts are not
modelled.

## 3. Runs

| run | instance | states | question |
|---|---|---|---|
| `executions` | all faults, 2 executions, 2 versions, 1 retry, no item edits | 1.3 M | do the marks agree, does one result remain, is the evidence current, does only the awaited version write |
| `edits` | dying and wrongly abandoned executions, item edits up to revision 2 | 1.0 M | is a completed receipt what was validated, is the owner's header kept, are edited items kept, does the receipt behave as the lifecycle says |
| `attended` | `FairSpec`; unconfirmed enqueues, pipeline errors, dying horses | 47 k | is every waiting receipt attended unless its upload was refused, does it settle |
| `images` | 3 receipts, 2 cleanup processes | 13 k | is no image forgotten, removed early, or left behind by a clean run |
| `reports` | `FairSpec`; 2 requests, 1 retry, an empty month, an edit and invalid data | 665 k | is what is stored one reading, does a request report what it saw at one moment, once or not at all and as answered, is what is sent out sent to a checked model, do pages exist, does a request end however the calls fail |
| `accounts` | sessions: 3 requests, 1 mail, 2 passwords, keys that live 2 ticks; logins: 2 threads, limit 2, window 2 s; client: 2 requests in flight, 2 users, 2 sessions | 262 k | does signing in and out mean what it says in Redis, in PostgreSQL and in the browser |
| `reading` | pictures up to 6 x 6, votes of 2 angles; 3 fragments; texts of 6 lines; 2 items with 2 names under different rules, 2 choices of a category; amounts of 1, 6 and 12, with symmetry of the items | 958 k | is what becomes of a photograph what is on it, or is it reported; is the owner's category never overridden |
| `analytics` | months of 3, 2 and 3 days of 4 ticks, every zone that moves its clocks by up to half a day or a whole one; 2 receipts around local midnights | 255 k | are the instants those of the days, do the queries agree |
| `metrics` | 2 executions, 1 edit, 1 lost record, 1 further call of the callback per execution, the stages with a transaction and preprocessing | 3.9 M | is every execution counted once but for further calls of the callback, do the counters of the stages fit each other |
| `upload_enqueue_lost` | unconfirmed enqueues | | violation: see findings |
| `claim_failed` | database errors | | violation: see findings |

Bounds. Two executions are enough for an overlap of two attempts, or of an old
and a new version; two versions for a stale job; one retry for a retry beside the
attempt it replaces. `MaxRevision` lets the owner edit before and after a
preparation, a save or a confirmation. `MaxVersion`, `MaxRevision` and `MaxRetries`
bound counters that are unbounded (or configured) in the code; the proofs below are
for every value. Three receipts and two processes let a cleanup command and a
deletion meet at one task while an upload of another receipt is active.

For reports, two requests and two commits besides the empty month let one request
read before and another after an edit, and a listing count while a report is
stored; one retry has every pair of errors of the check, the call and the pause.
Two items suffice for a reprocessing that replaces one by another; two choices for
a choice overridden by a later one.

Three requests of `Sessions` are a login, a change of the password and whatever
crosses either (a second change, a logout, another login); keys that live two ticks on
a clock of three expire before, between and after them. Of logins, two in progress
with a limit of two let one pass the check before the other has counted. Two sessions
of two users are enough for an answer about the former to meet the latter. `MaxLines`
is the look ahead and two lines; three fragments of up to three lines let the cursor
skip, share and repeat. `LeftOut` drops stages of a job that have no transaction, as
preprocessing has none: they differ in name only. `MaxRepeats` of one lets each
execution meet one callback more, after a death in its callback or while it lives. Of
the amounts of `reading`, 1 and 6 differ by the tolerance and 6 and 12 by one more;
the quantities make products that end in half a hundredth, in nearly a whole one and
in none. Months of three and two days have a day the other lacks, which is all the
lengths of months matter for; four ticks let a zone move its clocks by less than a
day, by half of one, and not at all. `QueryZones` lets receipts be counted in one
zone, whose clocks turn within the days looked at.

Deadlock is checked for `analytics`, which can always be asked again. Elsewhere it
is not: once a receipt is deleted, a text is read or the bounds are reached, nothing
has to happen any more.

Fairness. `attended` assumes weak fairness of the API request that is still to
enqueue, of every execution's next step and of the delivery of every queued job.
The code's deployment justifies it: the worker container restarts unless stopped
(`src/docker-compose.yaml`, `services.worker`), `worker.work(with_scheduler=True)`
serves the queue and releases scheduled retries, and maintenance runs every 30 s.
No fairness is assumed of the owner, of faults, or of any particular outcome: an
enqueue may always be refused. Faults stop by themselves only where the code bounds
them (retries).

`reports` assumes weak fairness of the next step of a request: the HTTP client
has timeouts for connecting and reading, the sleeps are finite, and a query or
commit returns or raises. Nothing is assumed of its outcome. `accounts` assumes the
same of the requests of `Sessions`, whose waits are for locks that a fair holder
gives back, by commit, rollback or the end of its connection; and for
`LoginAttempts` that time passes, and of no thread that it goes on.

The mutants of PROJECT.json replace one definition by its `slip` form, defined
just before it, and show that each property notices a plausible bug in the code it
is about. A property that is a conjunction of several has a mutant for every
conjunct that a single bug can break.

## 4. What is proved

From `ConstantsAssumption` alone (at least one version, natural bounds, known
faults), for any set of executions and any bounds, `ReceiptProcessingProofs`
proves that `Spec` implies

- `TypeOK`, `MarksAgree`, `OneResult`, `CompletedAsValidated`,
  `EvidenceIsCurrent`, `ManualHeaderKept` at every state,
- the action properties `OnlyAgreedItemsReplaced` and `OnlyAwaitedVersionWrites`,
- `ImplementsLifecycle`, the refinement of `ReceiptLifecycle`.

The argument has two layers. Every action changes the row by one of few kinds of
step (a job's step for its version, a preparation, an edit, a confirmation, a
deletion, the mark of an unconfirmed enqueue): `RowSteps` reduces `Next` to them.
The inductive invariant `IInv` is then proved per kind: `TypeOK`, `Busy` (a slot
that is not idle carries a real version) and `RowInv`, the conjunction of the
properties above with what makes them inductive: `RevisionsTell` (as long as the
items revision is the one noted at preparation, the items are the agreed ones) and
`GoneHasNoVersion` (no job carries the version of a deleted receipt). Without
`RevisionsTell` nothing would tie the comparison of two integers in `save_result`
to the items the owner agreed to replace.

`ObjectLifecycleProofs` proves, for any sets of receipts and processes, that
`TypeOK`, `NoImageForgotten` and `ReceiptHasImage` always hold and that
`CleanRunRemovesAll` does. Its invariant adds `Uploading` (an upload in progress
has a task, no row, and once stored an object), `Locking` (one holder of a task,
the task stays while it is held), `Planned` (what a cleanup has read belongs to
ended uploads without a row; this is where `--uploads-stopped` enters) and
`Handled` (what a command without failures has dealt with is gone).

`MonthlyReportProofs` proves, for any number of requests, retries, commits and any
page size, that `TypeOK`, `InputIsOneReading` and `PagesExist` always hold and
`OnlyRacesExpose` does, and that a client told of a report finds it
(`CreatedIsStored`). Its invariant adds `OneView` (what a
request has read so far is one commit), `Prepared` (a request past validation has
read a complete, non-empty, valid commit), `Created` (who was answered "created"
has ended), `Checked` (who is about to post has just seen a local model, unless it
was replaced since) and `Counted` (the total is that of the rows to be listed).
`PagesExist` also rests on an arithmetic lemma about rounding up a division,
`PageCount`.

`ReportsKeepPromise` is the refinement `KeepsPromise` of `SavedReports`. The set of all
commits the queries of a request have seen is mapped to what it has seen, so that the
first query is the look and the other four must show nothing new (`ReadLooks`, from
REPEATABLE READ); the commit of the storing transaction is the save (`StoreSaves`,
from `Prepared`); every other step of a request is none, or its end (`MovesOrEnds`).

`StrandedOnlyByUploads` proves `OnlyUploadsStranded` for any sets and bounds under
`SurvivableFaults`: calls to PostgreSQL succeed, the API does not die between its
commit and the enqueue, and no execution dies after it was taken out of the registry,
where its death would go unnoticed. `claim_failed` shows why the first is needed. Its
strengthening names, for every status of the row, the phases of an execution of the
current version whose next transaction moves the receipt on (`InHandOf`), since an
execution in another phase gives up without touching it; or else a job, a request or
the refused upload (`Promised`). Every step leaves the receipt in the hand of one of
these (`WaitingIsInHand`). `AttendedWithoutRedisFaults` adds that without faults of
Redis there are no such uploads, so that `WaitingIsAttended`, the claim that
`upload_enqueue_lost` refutes, holds.

`AccountsProofs`:

- `OldPasswordsSignedOut` for any requests, mails, passwords and time to live. The
  invariant says where the sessions that are not excepted (`Valid`: live and not
  crossed) are between the calls of a change: in an index that lives at least as long
  (`Indexed`), hence among the keys a change has read when it revokes, and nowhere
  when it commits (`Revocations`). Logins in progress have verified the present
  password or are crossed (`LoggingIn`), and the lock on the row makes the change the
  only writer of the version these are compared with (`Placed`).
- `LimitHolds` and `WaitingIsEnough` for any number of logins, any limit, window and
  tick. `LimitHolds` is inductive with the types; the proof is about cardinalities of
  the logins that passed the check. `WaitingIsEnough` needs `Waiting`: with half a
  second added, a counter lives less than a second longer than anybody waits who was
  told about it (`Rounding` is the lemma about what `TTL` answers).
- `ShownDataIsOwn` and `OnlyOwnAnswersEndSession` for any requests in flight. While a
  user is shown the cookie is that of the session shown or gone (`Signed`), as only a
  page that shows nobody logs in (`SigningIn`) and only a fresh one asks who is signed
  in (`Asking`); so a request of the present epoch was sent with that cookie
  (`Current`), and an answer is about its cookie's owner (`Told`).
- `PartsRunAlone`: a run of `MCAccounts` is a run of each of the three, so
  `AccountsAreSafe` has all five properties of the very specification TLC checks.

They assume the conditions on the constants that `AccountConstants` of `MCAccounts`
states and TLC evaluates; what `ReadingProofs` assumes is in `ReadingConstants` and
`CategoryConstants`, what `ProcessingMetricsProofs` does in `MetricsConstants`.

`ProcessingMetricsProofs` proves `CountedOnce` and `StagesAreNested` for any
executions, any number of edits, lost records and further calls of the callback, and
any stages left out. An execution that is still to be counted was counted by further
calls only (`Uncounted`), and an outcome is one its stage can have (`Told`).
`StagesAreNested` compares counters and is not inductive by itself: `Fitting` adds to
each counter the executions that are on their way from one to the next (`InStage`,
`Ending`), so that an execution that moves on takes from one side what it gives to the
other; a record that is lost is made up for by `lost`.

`AnalyticsProofs` proves `TypeOK`, `PeriodIsItsDays`, `ComparisonIsFair` and
`PrintedTimeIsUnique` for any calendar of months, any zones that keep to
`PeriodConstants`, and any choice. The invariant says of each answer how it was
computed; the weight is in lemmas about the clocks. `MidnightIsBoundary`: in a zone
whose clocks are not turned over a midnight, exactly the instants from the start of a
day on are on that day or later, also where a midnight does not exist or is shown
twice. `MonthBounds` and `MonthBefore` place the first days of a month and of the one
before; `PreviousPart` shows that the end of the earlier part is the same moment of
the earlier month or, where that month is too short, its end. `CountingAsksForPeriods`
says that the runs of `AnalyticsTotals` are runs of `AnalyticsPeriods`, so that the
theorems hold of what the run `analytics` checks.

`QueriesAgree` it proves for any finite table of rows, any items, amounts and names,
and any steps of the owner between requests. Of the table the invariant only says that
it is one (`RowsAreRows`); the theorem has five lemmas, one per promise:

- `CategoriesAgree`: the groups add up to the lines (`GroupsAddUp`) and the lines to
  the items of the receipts (`ReceiptsAddUp`), both by `SumOfGroups`.
- `TopsAgree`: the `ORDER BY` of each list is a strict order of all rows
  (`CategoriesInOrder`, `ProductsInOrder`), missing names included, so that there is
  exactly one answer (`OneOrder`).
- `TrendsAgree`: `date_trunc` keeps the order of days (`BucketsKeepOrder`), so every
  selected receipt is in a bucket of the series (`TrendAddsUp`).
- `PartsAgree`: a period selects by the local date of a purchase (`SelectedDays`),
  also where a part is refused because the zone skipped it (`PartIsResolved`).
- `ComparisonAgrees`: each part of the comparison lies between two ranges of days
  (`CurrentFollows`, `PreviousFollows`), and more receipts tell no less (`BoughtMore`).

`ReadingProofs`:

- `UnreviewedIsUpright` and `BoxesSpanPicture` for any side lengths, confidences and
  angles. What a report says follows from the votes (`Decided`); that the sure votes
  for the decided angle are a majority is a fact about cardinalities (`SureVotes`).
  `BoxesOfSize` follows Python's rounding to even through the three squares.
- `LinesHaveTheirFragment` for any number of fragments with any texts and breaks. The
  joined text, its lines and the fragments the lines belong to are three folds, whose
  steps are restated as functions (`LineStep`, `JoinStep`, `OwnStep`). By induction
  over the number of fragments joined, every line stands inside the span of its
  fragment and the spans do not overlap (`LinesStand`, `SpansAreApart`). The invariant
  of the loop (`AtLine`) says that the offset is where the next line begins and the
  cursor not past its fragment, so the loop finds that fragment and no other.
- `ItemsAreOfTheirLines` and `UnreadIsReported` for texts of any length with any
  figures, and whatever the regular expressions accept. `ParserInv`: the lines of the row
  being collected are those of its name and figures, and come after the last line that
  gave a row up (`Collected`); the items made so far have lines that are before it and
  apart from each other (`Apart`); in an ambiguous table no figures are kept
  (`Ambiguous`); a warning is about a line that was read (`Warned`), so the one that
  reports a row given up is new.
- `MarksTellOrigin` with its three parts and `OnlyOwnerRelabels`, for any items, names,
  categories, rules and number of choices. Every action rewrites some rows, each to a
  row that is right by itself (`Right`, which bounds `category_confirmed_at` by the
  choices made so far), so one lemma per kind of row (suggested, chosen, renamed) and
  one about replacing rows are enough.
- `WarningsForetellRefusal` and `ConfirmedTotalIsNear` for any finite set of items and
  any amounts, after any edits. The stored report is the parser's check of some sum
  and total (`ReportRight`), so that when these are the receipt's its verdict is the
  confirmation's. A row the button calculated holds what the button makes of its values
  (`RowRight`); `ButtonRounds` shows that the BigInt rounding of the page is the
  ROUND_HALF_UP of the server. That the total of a confirmed receipt is close to the
  sum of its products adds up one bound per row, over a set of any size.
- `ReadingRunsItsParts` and `ReadingIsSafe`: a run of `MCReading` is a run of each of
  its five parts.

`FoldLemmas` is what these sums and folds rest on. The library's induction rules
cannot be instantiated by the provers, as they take an operator, but induction for
one given set can be proved from the least counterexample: `NumberInduction` and
`SubsetInduction` speak of the set of numbers, or of subsets, for which something
holds. From them follow that the fold of the community modules exists, does not
depend on the order (`FoldsAgree`, `AnyLast`), and adds up as a sum does
(`SumOfNone`, `SumOfOneMore`), over two sets (`SumOfUnion`), by groups
(`SumOfGroups`) and under other names (`SumOfRenamed`); and that a fold over a
sequence takes its step at each element (`GatheredOfNone`, `GatheredOfOneMore`), for
a step that is a function between given sets.

The state changes of one process write the record of that process as a whole
(`[f EXCEPT ![p] = [@ EXCEPT ...]]`), which the provers handle; several updates of
fields at the same index in one EXCEPT do not go well with them.

Model-checked only:

- the liveness properties `WaitingSettles`, `RequestsEnd` and `CountersEnd`: the
  prover does not do liveness under fairness.

Every other property of a passing run is a theorem of the same name's definition, for
all values of the constants. `TypeOK` of these modules is proved where the proofs use
it and is therefore not a property of a run.

## 5. Findings

- `upload_enqueue_lost`: when Redis does not confirm the enqueue of an upload, the
  receipt stays `uploaded` although no job may exist. It can be neither confirmed
  nor reprocessed: `prepare_process` answers that the receipt already awaits
  processing. `reprocess_receipt` handles the same failure with
  `mark_enqueue_unconfirmed`; `attended` shows that this is enough there: of all
  receipts that wait, only such uploads are left alone.
- `claim_failed`: `start_processing` is called outside the `try` of
  `_process_receipt` and database errors are not retryable, so an error in the
  claim ends the job with the receipt still `uploaded`.

## 6. Not modelled, and what is left

Left for later: several tabs of the client over one cookie.

Not modelled:

- *Regular expressions and dictionaries* (what a line, a total, a store or a
  category rule looks like): whether they fit Russian receipts is a question about
  texts, not about states. `ItemParser` and `ItemCategories` hold for any answer
  they may give.
- *The networks* for OCR and orientation: external, any answer.
- *Reading without changing*: lists of receipts and their pages, one report, the
  snapshot of the metrics, one receipt with its suggestions. Where such a read could
  contradict another one (`list_reports`, the analytics) it is modelled.
- *Polling and drafts of the client*: the server accepts or refuses every edit by the
  state of the row, which `ReceiptProcessing` covers for any timing of requests; what
  a draft shows meanwhile is layout.
- *Configuration, HTTP validation, error answers, logging*: no state of their own;
  what a validation admits is the input of the models, what an error ends is a failing
  step.
- *Migrations*: run once while the system is stopped. What `c72f10356eb4` may leave
  behind is the initial state of `ItemCategories`.
- *Hashing of passwords, random ids, presigned URLs*: taken as what they promise.
