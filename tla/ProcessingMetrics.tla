------------------------- MODULE ProcessingMetrics -------------------------
(***************************************************************************)
(* What the processing metrics count of the executions of one job: every   *)
(* stage of process_receipt is measured, the whole of it as well, and an   *)
(* execution that died is counted by the failure callback instead.  The    *)
(* executions follow each other as retries, and overlap when one is taken  *)
(* for dead while it works.  The callback itself may die, and is called    *)
(* once more.  Counting is best-effort: Redis may be out at any call, and  *)
(* a process may die before it.                                            *)
(*                                                                         *)
(* The row is ReceiptRow's, its version stays 1.  The days, the durations  *)
(* and the expiry of the counters are left out: a counter is the sum of    *)
(* its days.                                                               *)
(***************************************************************************)
EXTENDS ReceiptRow, Sequences, FiniteSets

CONSTANTS
    Attempts,     \* the executions of the job
    MaxRevision,  \* bound: the owner edits items below this revision
    MaxLost,      \* bound: records that do not reach Redis
    MaxRepeats,   \* bound: further calls of the callback for an attempt
    LeftOut       \* bound: stages without a transaction that are not looked at

ASSUME MetricsConstants ==
    /\ IsFiniteSet(Attempts)
    /\ MaxRevision \in Nat /\ MaxLost \in Nat /\ MaxRepeats \in Nat
    /\ LeftOut \subseteq {"setup", "preprocessing", "ocr", "parsing"}

\* ProcessingStage, without the pipeline itself, in the order of the code.
ProcessingStage == <<"claim", "setup", "preprocessing", "persist_preprocessing",
                     "ocr", "persist_ocr", "parsing", "saving">>
StageNumbers ==
    {i \in 1 .. Len(ProcessingStage) : ProcessingStage[i] \notin LeftOut}
LastStage == Len(ProcessingStage)
Stages == {ProcessingStage[i] : i \in StageNumbers}
Measured == Stages \union {"pipeline"}
Outcomes == {"success", "error", "interrupted", "skipped", "stopped"}

Phases == {"idle",      \* not started
           "run",       \* in the body of its stage
           "record",    \* in the finally of its stage
           "mark",      \* in the except of _process_receipt
           "pipeline",  \* in the finally of the whole
           "policy",    \* the callback, before the retry policy is applied
           "dead",      \* killed; the callback was not called yet
           "done"}

Attempt == [ phase : Phases,
             stage : StageNumbers,
             outcome : Outcomes,
             registered : BOOLEAN ]   \* in the registry of started jobs

VARIABLES
    row,
    queued,         \* whether the job is queued or scheduled
    attempt,
    metric,         \* the counters in Redis
    lost,           \* history: records that did not reach Redis
    pipelines,      \* history: records of the pipeline made for an attempt
    repeats,        \* history: calls of the callback for an attempt that
                    \* lived, or that had come to its callback before
    interruptions   \* history: how often mark_interrupted changed the row

vars ==
    <<row, queued, attempt, metric, lost, pipelines, repeats, interruptions>>

counters == <<metric, lost, pipelines>>

TypeOK ==
    /\ row \in Row
    /\ queued \in BOOLEAN
    /\ attempt \in [Attempts -> Attempt]
    /\ metric \in [Measured -> [Outcomes -> Nat]]
    /\ lost \in 0 .. MaxLost
    /\ pipelines \in [Attempts -> Nat]
    /\ repeats \in [Attempts -> 0 .. MaxRepeats]
    /\ interruptions \in Nat

Idle == [phase |-> "idle", stage |-> 1, outcome |-> "success",
         registered |-> FALSE]

Init ==
    /\ row = Uploaded
    /\ queued = TRUE
    /\ attempt = [a \in Attempts |-> Idle]
    /\ metric = [s \in Measured |-> [o \in Outcomes |-> 0]]
    /\ lost = 0
    /\ pipelines = [a \in Attempts |-> 0]
    /\ repeats = [a \in Attempts |-> 0]
    /\ interruptions = 0

-----------------------------------------------------------------------------
In(a, phase) == attempt[a].phase = phase
StageOf(a) == ProcessingStage[attempt[a].stage]

\* The stage whose turn is after that of a number.
Following(i) ==
    CHOOSE j \in StageNumbers :
        i < j /\ \A k \in StageNumbers : i < k => j <= k

Becomes(a, record) == attempt' = [attempt EXCEPT ![a] = record]
Goto(a, phase) == Becomes(a, [attempt[a] EXCEPT !.phase = phase])

\* Out of the stages: their numbers and outcomes are forgotten.
Leave(a, phase) ==
    Becomes(a, [Idle EXCEPT !.phase = phase,
                            !.registered = attempt[a].registered
                                           /\ phase # "done"])
Ended(a, phase, outcome) ==
    Becomes(a, [attempt[a] EXCEPT !.phase = phase, !.outcome = outcome])

Counted(stage, outcome) ==
    [metric EXCEPT ![stage][outcome] = @ + 1]

\* record: Redis counts, or the failure is only logged.
Record(stage, outcome) ==
    \/ metric' = Counted(stage, outcome) /\ UNCHANGED lost
    \/ lost < MaxLost /\ lost' = lost + 1 /\ UNCHANGED metric

CountPipeline(a, outcome) ==
    /\ Record("pipeline", outcome)
    /\ pipelines' = [pipelines EXCEPT ![a] = @ + 1]

\* RQ hands the job to a free work horse.
Start(a) ==
    /\ In(a, "idle") /\ queued
    /\ queued' = FALSE
    /\ Becomes(a, [Idle EXCEPT !.phase = "run", !.registered = TRUE])
    /\ UNCHANGED <<row, counters, repeats, interruptions>>

\* Whether the body of a stage raises what except catches.
Raises(stage) == stage = "saving" /\ Conflict(row, 1)

\* What the observation of a stage says if its body ends.
OutcomeOf(stage) ==
    CASE stage = "claim" -> IF CanStart(row, 1) THEN "success" ELSE "skipped"
      [] stage = "persist_preprocessing" ->
             IF CanAdvance(row, 1) THEN "success" ELSE "stopped"
      [] stage = "persist_ocr" ->
             IF CanSaveOcr(row, 1) THEN "success" ELSE "stopped"
      [] stage = "saving" -> IF row.version # 1 THEN "stopped"
                             ELSE IF row.resultSaved THEN "skipped"
                             ELSE "success"
      [] OTHER -> "success"

\* What was parsed makes no difference to the counters.
Found == [items |-> TRUE, header |-> TRUE]

\* The rows the transaction of a stage may commit.
Committed(stage) ==
    CASE stage = "claim" -> {StartProcessing(row, 1)}
      [] stage = "persist_preprocessing" -> {AdvanceStatus(row, 1)}
      [] stage = "persist_ocr" -> {SaveOcrResult(row, 1)}
      [] stage = "saving" -> {SaveResult(row, 1, Found)}
      [] OTHER -> {row}

Run(a) ==
    /\ In(a, "run")
    /\ ~Raises(StageOf(a))
    /\ row' \in Committed(StageOf(a))
    /\ Ended(a, "record", OutcomeOf(StageOf(a)))
    /\ UNCHANGED <<queued, counters, repeats, interruptions>>

\* An exception of the stage, also after its transaction was committed; or
\* SystemExit, which is not an Exception, when the worker is told to stop.
RunFails(a) ==
    /\ In(a, "run")
    /\ row' \in Committed(StageOf(a)) \union {row}
    /\ \E outcome \in {"error", "interrupted"} : Ended(a, "record", outcome)
    /\ UNCHANGED <<queued, counters, repeats, interruptions>>

\* Where an exception of the stage is caught: the claim is outside the try.
AfterError(a) == IF StageOf(a) = "claim" THEN "pipeline" ELSE "mark"

\* The finally of the stage.
RecordStage(a) ==
    LET outcome == attempt[a].outcome IN
    /\ In(a, "record")
    /\ Record(StageOf(a), outcome)
    /\ CASE outcome = "success" /\ attempt[a].stage < LastStage ->
              Becomes(a, [attempt[a] EXCEPT !.phase = "run",
                                            !.stage = Following(@)])
         [] outcome = "error" -> Goto(a, AfterError(a))
         [] OTHER -> Goto(a, "pipeline")
    /\ UNCHANGED <<row, queued, pipelines, repeats, interruptions>>

\* mark_failed; its own error is only logged.
Mark(a) ==
    /\ In(a, "mark")
    /\ row' \in {row, MarkFailed(row, 1)}
    /\ Goto(a, "pipeline")
    /\ UNCHANGED <<queued, counters, repeats, interruptions>>

\* slip: the whole is measured like a stage
NothingLeft(outcome) == FALSE

\* measure leaves an interrupted pipeline to the callback of the parent.
LeftToCallback(outcome) == outcome = "interrupted"

\* slip: process_receipt does not pass on what _process_receipt returned
PipelineDefault(outcome) ==
    IF outcome \in {"error", "interrupted"} THEN outcome ELSE "success"

PipelineOutcome(outcome) == outcome

\* A horse that nobody watches any more just ends.
Gone(a) == IF attempt[a].registered THEN "dead" ELSE "done"

\* The finally of the whole; then the callback, for what was raised.
RecordPipeline(a) ==
    LET outcome == attempt[a].outcome IN
    /\ In(a, "pipeline")
    /\ IF LeftToCallback(outcome)
       THEN UNCHANGED counters
       ELSE CountPipeline(a, PipelineOutcome(outcome))
    /\ Leave(a, CASE outcome = "error" -> "policy"
                  [] outcome = "interrupted" -> Gone(a)
                  [] OTHER -> "done")
    /\ UNCHANGED <<row, queued, repeats, interruptions>>

\* Where a process can die: the callback too, which a horse runs itself after
\* an error, before the status of the job is written.
Alive == {"run", "record", "mark", "pipeline", "policy"}

CalledAgain(a) ==
    /\ repeats[a] < MaxRepeats
    /\ repeats' = [repeats EXCEPT ![a] = @ + 1]

\* The process is killed anywhere.  If it ran the callback, the parent or the
\* maintenance calls that once more, if they watch the execution.
Dies(a) ==
    /\ attempt[a].phase \in Alive
    /\ Leave(a, Gone(a))
    /\ IF In(a, "policy") /\ attempt[a].registered
       THEN CalledAgain(a)
       ELSE UNCHANGED repeats
    /\ UNCHANGED <<row, queued, counters, interruptions>>

\* slip: every callback counts, whether or not it found a receipt to mark
CountsAll(changed) == TRUE

Counts(changed) == changed

Interrupted ==
    /\ row' = MarkInterrupted(row, 1)
    /\ interruptions' = interruptions + IF row' # row THEN 1 ELSE 0

\* The callback with an interruption error.
Restored(a) ==
    /\ Interrupted
    /\ IF Counts(row' # row)
       THEN CountPipeline(a, "interrupted")
       ELSE UNCHANGED counters

Restore(a) ==
    /\ In(a, "dead")
    /\ Restored(a)
    /\ Leave(a, "policy")
    /\ UNCHANGED <<queued, repeats>>

\* The transaction raises, committed or not; the execution is found again.
RestoreFails(a) ==
    /\ In(a, "dead")
    /\ Interrupted
    /\ UNCHANGED <<queued, attempt, counters, repeats>>

\* A heartbeat expires while the execution works on: the maintenance of
\* another worker restores the receipt and applies the policy.
Abandon(a) ==
    /\ attempt[a].phase \in Alive /\ attempt[a].registered
    /\ Restored(a)
    /\ CalledAgain(a)
    /\ \E retry \in BOOLEAN :
          queued' = (queued \/ (retry /\ CanRetryProcessing(row', 1)))
    /\ Becomes(a, [attempt[a] EXCEPT !.registered = FALSE])

\* _apply_retry_policy, with the errors and the retries left open.
ApplyRetryPolicy(a) ==
    /\ In(a, "policy")
    /\ \E retry \in BOOLEAN :
          queued' = (queued \/ (retry /\ CanRetryProcessing(row, 1)))
    /\ Leave(a, "done")
    /\ UNCHANGED <<row, counters, repeats, interruptions>>

\* The owner; see ReceiptRow.
Owner ==
    /\ row.status # "DELETED"
    /\ \/ row' = NoReceipt
       \/ row.itemsRevision < MaxRevision /\ row' = CreateItem(row)
    /\ UNCHANGED <<queued, attempt, counters, repeats, interruptions>>

Next ==
    \/ \E a \in Attempts :
          \/ Start(a) \/ Run(a) \/ RunFails(a) \/ RecordStage(a)
          \/ Mark(a) \/ RecordPipeline(a) \/ Dies(a)
          \/ Restore(a) \/ RestoreFails(a) \/ Abandon(a)
          \/ ApplyRetryPolicy(a)
    \/ Owner

Spec == Init /\ [][Next]_vars

-----------------------------------------------------------------------------
\* "Completed attempts ...; retries counted separately": an execution is
\* counted once in the pipeline, by itself or by the callback.  Every further
\* count goes with a further call of the callback: for an execution that was
\* taken for dead while it lived, or because a process died in the callback
\* after the execution was counted.  And nothing is counted as interrupted
\* that did not turn a waiting receipt into an interrupted one, however many
\* callbacks meet at it.
CountedOnce ==
    /\ \A a \in Attempts : pipelines[a] <= 1 + repeats[a]
    /\ metric["pipeline"]["interrupted"] <= interruptions

Attempted(stage) ==
    metric[stage]["success"] + metric[stage]["error"]
    + metric[stage]["interrupted"] + metric[stage]["skipped"]
    + metric[stage]["stopped"]

\* The counters fit each other, up to the records that were lost: no stage
\* was attempted more often than the one before succeeded, and the outcomes of
\* the whole are backed by those of its stages.
StagesAreNested ==
    /\ \A i \in StageNumbers \ {LastStage} :
          Attempted(ProcessingStage[Following(i)]) <=
              metric[ProcessingStage[i]]["success"] + lost
    /\ metric["pipeline"]["success"] <= metric["saving"]["success"] + lost
    /\ metric["pipeline"]["skipped"] <=
          metric["claim"]["skipped"] + metric["saving"]["skipped"] + lost
    /\ metric["pipeline"]["stopped"] <=
          metric["persist_preprocessing"]["stopped"]
          + metric["persist_ocr"]["stopped"] + metric["saving"]["stopped"]
          + lost
=============================================================================
