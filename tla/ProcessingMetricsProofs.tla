----------------------- MODULE ProcessingMetricsProofs -----------------------
(***************************************************************************)
(* Proofs about ProcessingMetrics, for any finite number of executions,    *)
(* any bounds and any choice of stages.                                    *)
(*                                                                         *)
(* That an execution is counted once rests on who still counts it: an      *)
(* execution that works, or whose callback is still to come, was counted   *)
(* by further calls of the callback only (Uncounted).  That the counters   *)
(* fit each other rests on the executions between two records: what a      *)
(* stage was entered with is in the counters of the stage before, and the  *)
(* outcome a pipeline ends with in those of its stages, once for every     *)
(* execution on its way (Nested, Backed).                                  *)
(***************************************************************************)
EXTENDS ProcessingMetrics, FiniteSetTheorems, TLAPS

-----------------------------------------------------------------------------
(***************************************************************************)
(* Stages.                                                                 *)
(***************************************************************************)

\* The stages have names of their own, and those with a transaction are
\* always there.
LEMMA StageNames ==
  /\ LastStage = 8 /\ StageNumbers \subseteq 1 .. 8
  /\ 1 \in StageNumbers /\ 8 \in StageNumbers
  /\ ProcessingStage[1] = "claim" /\ ProcessingStage[8] = "saving"
  /\ \A i \in StageNumbers :
        /\ ProcessingStage[i] # "pipeline"
        /\ ProcessingStage[i] = "claim" <=> i = 1
        /\ ProcessingStage[i] = "saving" <=> i = 8
  /\ \A i, j \in StageNumbers :
        ProcessingStage[i] = ProcessingStage[j] => i = j
  /\ {"claim", "persist_preprocessing", "persist_ocr", "saving"} \subseteq Stages
<1>1. /\ Len(ProcessingStage) = 8
      /\ ProcessingStage[1] = "claim"
      /\ ProcessingStage[2] = "setup"
      /\ ProcessingStage[3] = "preprocessing"
      /\ ProcessingStage[4] = "persist_preprocessing"
      /\ ProcessingStage[5] = "ocr"
      /\ ProcessingStage[6] = "persist_ocr"
      /\ ProcessingStage[7] = "parsing"
      /\ ProcessingStage[8] = "saving"
  BY DEF ProcessingStage
<1>2. /\ "claim" \notin LeftOut /\ "persist_preprocessing" \notin LeftOut
      /\ "persist_ocr" \notin LeftOut /\ "saving" \notin LeftOut
  BY MetricsConstants
<1>3. \A i \in 1 .. 8 : i \in {1, 2, 3, 4, 5, 6, 7, 8}
  OBVIOUS
<1>4. /\ StageNumbers \subseteq 1 .. 8
      /\ {1, 4, 6, 8} \subseteq StageNumbers
  BY <1>1, <1>2 DEF StageNumbers
<1>5. \A i \in 1 .. 8 :
        /\ ProcessingStage[i] # "pipeline"
        /\ ProcessingStage[i] = "claim" <=> i = 1
        /\ ProcessingStage[i] = "saving" <=> i = 8
  BY <1>1, <1>3
<1>6. \A i, j \in 1 .. 8 : ProcessingStage[i] = ProcessingStage[j] => i = j
  BY <1>1, <1>3
<1>7. {"claim", "persist_preprocessing", "persist_ocr", "saving"} \subseteq Stages
  BY <1>1, <1>4 DEF Stages
<1> QED BY <1>1, <1>4, <1>5, <1>6, <1>7 DEF LastStage

\* After every stage but the last there is one that no other comes before.
LEMMA NextStage ==
  ASSUME NEW i \in StageNumbers, i # LastStage
  PROVE  /\ Following(i) \in StageNumbers /\ i < Following(i)
         /\ \A k \in StageNumbers : i < k => Following(i) <= k
<1>1. i \in 1 .. 7 /\ StageNumbers \subseteq 1 .. 8 /\ 8 \in StageNumbers
  BY StageNames
<1>2. \E j \in StageNumbers :
        i < j /\ \A k \in StageNumbers : i < k => j <= k
  <2> DEFINE Least(j) == j \in StageNumbers /\ i < j
                         /\ \A k \in StageNumbers : i < k => j <= k
  <2>1. \A k \in StageNumbers :
          k \in Int /\ (i < k => k = i + 1 \/ k = i + 2 \/ k = i + 3 \/ k = i + 4
                                 \/ k = i + 5 \/ k = i + 6 \/ k = i + 7)
    BY <1>1
  <2>2. \E n \in {1, 2, 3, 4, 5, 6, 7} : i + n = 8
    BY <1>1
  <2>3. Least(i + 1) \/ Least(i + 2) \/ Least(i + 3) \/ Least(i + 4)
        \/ Least(i + 5) \/ Least(i + 6) \/ Least(i + 7)
    BY <1>1, <2>1, <2>2
  <2> QED BY <2>3
<1> QED BY <1>2 DEF Following

\* Two stages have two stages after them.
LEMMA NextStageIsOwn ==
  ASSUME NEW i \in StageNumbers, NEW j \in StageNumbers,
         i # LastStage, j # LastStage, Following(i) = Following(j)
  PROVE  i = j
<1>1. StageNumbers \subseteq Int
  BY StageNames
<1>2. /\ Following(i) \in Int /\ i < Following(i) /\ j < Following(j)
      /\ i < j => Following(i) <= j
      /\ j < i => Following(j) <= i
  <2>1. /\ Following(i) \in StageNumbers /\ i < Following(i)
        /\ i < j => Following(i) <= j
    BY NextStage
  <2>2. j < Following(j) /\ (j < i => Following(j) <= i)
    BY NextStage
  <2> QED BY <1>1, <2>1, <2>2
<1> QED BY <1>1, <1>2

-----------------------------------------------------------------------------
(***************************************************************************)
(* The invariants.                                                         *)
(***************************************************************************)
Counters == [Measured -> [Outcomes -> Nat]]

Types ==
    /\ attempt \in [Attempts -> Attempt]
    /\ metric \in Counters
    /\ lost \in Nat
    /\ pipelines \in [Attempts -> Nat]
    /\ repeats \in [Attempts -> Nat]
    /\ interruptions \in Nat

Working(a) == attempt[a].phase \in {"run", "record", "mark", "pipeline"}

\* Where an execution is that will still count itself, or be counted by a
\* callback that it is the turn of.
ToCount == {"idle", "run", "record", "mark", "pipeline", "dead"}

\* Until then only further calls of the callback counted it.
Uncounted ==
    \A a \in Attempts : attempt[a].phase \in ToCount => pipelines[a] <= repeats[a]

\* An outcome a stage can have had.
Told ==
    \A a \in Attempts :
        LET outcome == attempt[a].outcome IN
        /\ In(a, "mark") => outcome = "error"
        /\ In(a, "record") =>
              /\ outcome = "skipped" => StageOf(a) \in {"claim", "saving"}
              /\ outcome = "stopped" =>
                    StageOf(a) \in {"persist_preprocessing", "persist_ocr",
                                    "saving"}

\* Executions that are in the stage of a number, and that end the whole.
InStage(i) ==
    {a \in Attempts : /\ attempt[a].phase \in {"run", "record"}
                      /\ attempt[a].stage = i}
Ending(outcome) ==
    {a \in Attempts : In(a, "pipeline") /\ attempt[a].outcome = outcome}

Nested(i) ==
    Attempted(ProcessingStage[Following(i)]) + Cardinality(InStage(Following(i)))
    <= metric[ProcessingStage[i]]["success"] + lost

Backing(outcome) ==
    CASE outcome = "success" -> metric["saving"]["success"]
      [] outcome = "skipped" ->
            metric["claim"]["skipped"] + metric["saving"]["skipped"]
      [] outcome = "stopped" ->
            metric["persist_preprocessing"]["stopped"]
            + metric["persist_ocr"]["stopped"] + metric["saving"]["stopped"]

Backed(outcome) ==
    metric["pipeline"][outcome] + Cardinality(Ending(outcome))
    <= Backing(outcome) + lost

Fitting ==
    /\ \A i \in StageNumbers \ {LastStage} : Nested(i)
    /\ \A outcome \in {"success", "skipped", "stopped"} : Backed(outcome)

IInv == Types /\ Uncounted /\ Told /\ CountedOnce /\ Fitting

-----------------------------------------------------------------------------
(***************************************************************************)
(* Counters.                                                               *)
(***************************************************************************)

\* What is counted is a number.
LEMMA CounterTypes ==
  ASSUME Types
  PROVE  /\ \A s \in Measured, o \in Outcomes : metric[s][o] \in Nat
         /\ \A s \in Measured : Attempted(s) \in Nat
         /\ \A i \in StageNumbers : ProcessingStage[i] \in Measured
         /\ "pipeline" \in Measured
         /\ {"claim", "persist_preprocessing", "persist_ocr", "saving"}
            \subseteq Measured
<1>1. \A s \in Measured, o \in Outcomes : metric[s][o] \in Nat
  BY DEF Types, Counters
<1>2. \A s \in Measured : Attempted(s) \in Nat
  BY <1>1 DEF Attempted, Outcomes
<1> QED BY <1>1, <1>2, StageNames DEF Measured, Stages

\* A record is counted where it belongs, or it is lost.
LEMMA RecordCounts ==
  ASSUME Types, NEW stage \in Measured, NEW outcome \in Outcomes,
         Record(stage, outcome)
  PROVE  /\ metric' \in Counters /\ lost' \in Nat
         /\ \A s \in Measured : s # stage => metric'[s] = metric[s]
         /\ \A o \in Outcomes : o # outcome =>
               metric'[stage][o] = metric[stage][o]
         /\ \/ /\ metric'[stage][outcome] = metric[stage][outcome] + 1
               /\ Attempted(stage)' = Attempted(stage) + 1
               /\ lost' = lost
            \/ /\ metric' = metric
               /\ Attempted(stage)' = Attempted(stage)
               /\ lost' = lost + 1
<1>1. CASE metric' = Counted(stage, outcome) /\ UNCHANGED lost
  <2> DEFINE counts == [metric[stage] EXCEPT ![outcome] = @ + 1]
  <2>1. metric[stage] \in [Outcomes -> Nat]
    BY DEF Types, Counters
  <2>2. /\ counts \in [Outcomes -> Nat]
        /\ counts[outcome] = metric[stage][outcome] + 1
        /\ \A o \in Outcomes : o # outcome => counts[o] = metric[stage][o]
    BY <2>1
  <2>3. metric' = [metric EXCEPT ![stage] = counts]
    BY <1>1 DEF Counted
  <2> HIDE DEF counts
  <2>4. /\ metric' \in Counters /\ metric'[stage] = counts
        /\ \A s \in Measured : s # stage => metric'[s] = metric[s]
    BY <2>2, <2>3 DEF Types, Counters
  <2>5. Attempted(stage)' = Attempted(stage) + 1
    <3>1. \A o \in Outcomes : metric[stage][o] \in Nat
      BY <2>1
    <3> QED BY <2>2, <2>4, <3>1 DEF Attempted, Outcomes
  <2> QED BY <1>1, <2>2, <2>4, <2>5 DEF Types
<1>2. CASE lost' = lost + 1 /\ UNCHANGED metric
  BY <1>2 DEF Types, Attempted
<1> QED BY <1>1, <1>2 DEF Record

\* A set that grows or shrinks by one execution.
LEMMA Sizes ==
  ASSUME NEW S \in SUBSET Attempts, NEW T \in SUBSET Attempts
  PROVE  /\ Cardinality(S) \in Nat /\ Cardinality(T) \in Nat
         /\ T \subseteq S => Cardinality(T) <= Cardinality(S)
         /\ \A a : T \subseteq S \union {a} =>
               Cardinality(T) <= Cardinality(S) + 1
         /\ \A a \in S : T \subseteq S \ {a} =>
               Cardinality(T) + 1 <= Cardinality(S)
<1>1. IsFiniteSet(S) /\ IsFiniteSet(T)
  BY MetricsConstants, FS_Subset
<1>2. Cardinality(S) \in Nat /\ Cardinality(T) \in Nat
  BY <1>1, FS_CardinalityType
<1>3. T \subseteq S => Cardinality(T) <= Cardinality(S)
  BY <1>1, FS_Subset
<1>4. ASSUME NEW a, T \subseteq S \union {a}
      PROVE  Cardinality(T) <= Cardinality(S) + 1
  <2>1. /\ IsFiniteSet(S \union {a})
        /\ Cardinality(S \union {a}) \in {Cardinality(S), Cardinality(S) + 1}
    BY <1>1, FS_AddElement
  <2>2. Cardinality(T) <= Cardinality(S \union {a})
    BY <1>4, <2>1, FS_Subset
  <2> QED BY <1>2, <2>1, <2>2
<1>5. ASSUME NEW a \in S, T \subseteq S \ {a}
      PROVE  Cardinality(T) + 1 <= Cardinality(S)
  <2>1. /\ IsFiniteSet(S \ {a})
        /\ Cardinality(S \ {a}) = Cardinality(S) - 1
    BY <1>1, FS_RemoveElement
  <2>2. Cardinality(T) <= Cardinality(S \ {a})
    BY <1>5, <2>1, FS_Subset
  <2> QED BY <1>2, <2>1, <2>2
<1> QED BY <1>2, <1>3, <1>4, <1>5

\* The sizes the invariant speaks of.
LEMMA SetsOnTheWay ==
  /\ \A i : InStage(i) \in SUBSET Attempts /\ InStage(i)' \in SUBSET Attempts
  /\ \A o : Ending(o) \in SUBSET Attempts /\ Ending(o)' \in SUBSET Attempts
BY DEF InStage, Ending

-----------------------------------------------------------------------------
(***************************************************************************)
(* How the counters go on fitting each other.                              *)
(***************************************************************************)

\* Nobody comes nearer to a record.
LEMMA FittingStays ==
  ASSUME Types, Fitting, UNCHANGED <<metric, lost>>,
         \A i \in StageNumbers \ {1} : InStage(i)' \subseteq InStage(i),
         \A o \in {"success", "skipped", "stopped"} :
            Ending(o)' \subseteq Ending(o)
  PROVE  Fitting'
<1>1. ASSUME NEW i \in StageNumbers \ {LastStage}
      PROVE  Nested(i)'
  <2> DEFINE j == Following(i)
  <2>1. j \in StageNumbers \ {1} /\ j \in StageNumbers /\ i \in StageNumbers
    BY NextStage, StageNames
  <2> HIDE DEF j
  <2>2. /\ Cardinality(InStage(j)) \in Nat /\ Cardinality(InStage(j)') \in Nat
        /\ Cardinality(InStage(j)') <= Cardinality(InStage(j))
    BY <2>1, Sizes, SetsOnTheWay
  <2>3. /\ Attempted(ProcessingStage[j]) \in Nat /\ lost \in Nat
        /\ metric[ProcessingStage[i]]["success"] \in Nat
    BY <2>1, CounterTypes DEF Types, Outcomes
  <2>4. /\ Attempted(ProcessingStage[j])' = Attempted(ProcessingStage[j])
        /\ metric'[ProcessingStage[i]]["success"]
           = metric[ProcessingStage[i]]["success"]
    BY DEF Attempted
  <2>5. Attempted(ProcessingStage[j]) + Cardinality(InStage(j))
        <= metric[ProcessingStage[i]]["success"] + lost
    BY DEF Fitting, Nested, j
  <2>6. Attempted(ProcessingStage[j])' + Cardinality(InStage(j)')
        <= metric'[ProcessingStage[i]]["success"] + lost'
    BY <2>2, <2>3, <2>4, <2>5
  <2> QED BY <2>6 DEF Nested, j
<1>2. ASSUME NEW o \in {"success", "skipped", "stopped"}
      PROVE  Backed(o)'
  <2>1. /\ Cardinality(Ending(o)) \in Nat /\ Cardinality(Ending(o)') \in Nat
        /\ Cardinality(Ending(o)') <= Cardinality(Ending(o))
    BY Sizes, SetsOnTheWay
  <2>2. metric["pipeline"][o] \in Nat /\ Backing(o) \in Nat /\ lost \in Nat
    BY CounterTypes DEF Types, Outcomes, Backing
  <2>3. Backing(o)' = Backing(o)
    BY DEF Backing
  <2>4. metric["pipeline"][o] + Cardinality(Ending(o)) <= Backing(o) + lost
    BY DEF Fitting, Backed
  <2>5. metric'["pipeline"][o] + Cardinality(Ending(o)') <= Backing(o)' + lost'
    BY <2>1, <2>2, <2>3, <2>4
  <2> QED BY <2>5 DEF Backed
<1> QED BY <1>1, <1>2 DEF Fitting

\* The whole is recorded for an execution that came to its end, or as an
\* outcome that needs no backing.
LEMMA PipelineFits ==
  ASSUME Types, Fitting,
         NEW outcome \in Outcomes, Record("pipeline", outcome),
         \A i \in StageNumbers \ {1} : InStage(i)' \subseteq InStage(i),
         \A o \in {"success", "skipped", "stopped"} :
            Ending(o)' \subseteq Ending(o),
         outcome \in {"success", "skipped", "stopped"} =>
            \E a \in Ending(outcome) : a \notin Ending(outcome)'
  PROVE  Fitting'
<1>1. /\ lost \in Nat /\ lost' \in Nat /\ lost <= lost'
      /\ \A s \in Measured : s # "pipeline" => metric'[s] = metric[s]
      /\ \A o \in Outcomes : o # outcome =>
            metric'["pipeline"][o] = metric["pipeline"][o]
      /\ \/ /\ metric'["pipeline"][outcome] = metric["pipeline"][outcome] + 1
            /\ lost' = lost
         \/ metric' = metric /\ lost' = lost + 1
  BY CounterTypes, RecordCounts DEF Types
<1>2. ASSUME NEW i \in StageNumbers \ {LastStage}
      PROVE  Nested(i)'
  <2> DEFINE j == Following(i)
  <2>1. j \in StageNumbers \ {1} /\ j \in StageNumbers /\ i \in StageNumbers
    BY NextStage, StageNames
  <2> HIDE DEF j
  <2>2. /\ Cardinality(InStage(j)) \in Nat /\ Cardinality(InStage(j)') \in Nat
        /\ Cardinality(InStage(j)') <= Cardinality(InStage(j))
    BY <2>1, Sizes, SetsOnTheWay
  <2>3. /\ Attempted(ProcessingStage[j]) \in Nat
        /\ metric[ProcessingStage[i]]["success"] \in Nat
    BY <2>1, CounterTypes DEF Types, Outcomes
  <2>4. /\ metric'[ProcessingStage[j]] = metric[ProcessingStage[j]]
        /\ metric'[ProcessingStage[i]] = metric[ProcessingStage[i]]
    BY <1>1, <2>1, CounterTypes, StageNames
  <2>5. Attempted(ProcessingStage[j])' = Attempted(ProcessingStage[j])
    BY <2>4 DEF Attempted
  <2>6. Attempted(ProcessingStage[j]) + Cardinality(InStage(j))
        <= metric[ProcessingStage[i]]["success"] + lost
    BY DEF Fitting, Nested, j
  <2>7. Attempted(ProcessingStage[j])' + Cardinality(InStage(j)')
        <= metric'[ProcessingStage[i]]["success"] + lost'
    BY <1>1, <2>2, <2>3, <2>4, <2>5, <2>6
  <2> QED BY <2>7 DEF Nested, j
<1>3. ASSUME NEW o \in {"success", "skipped", "stopped"}
      PROVE  Backed(o)'
  <2>1. /\ Cardinality(Ending(o)) \in Nat /\ Cardinality(Ending(o)') \in Nat
        /\ Cardinality(Ending(o)') <= Cardinality(Ending(o))
    BY Sizes, SetsOnTheWay
  <2>2. o = outcome => Cardinality(Ending(o)') + 1 <= Cardinality(Ending(o))
    <3>1. SUFFICES ASSUME NEW a \in Ending(o), a \notin Ending(o)'
                   PROVE  Cardinality(Ending(o)') + 1 <= Cardinality(Ending(o))
      OBVIOUS
    <3>2. Ending(o)' \subseteq Ending(o) \ {a}
      BY <3>1
    <3> QED BY <3>2, Sizes, SetsOnTheWay
  <2>3. /\ metric["pipeline"][o] \in Nat /\ metric'["pipeline"][o] \in Nat
        /\ Backing(o) \in Nat /\ Backing(o)' = Backing(o)
        /\ o # outcome => metric'["pipeline"][o] = metric["pipeline"][o]
    <3>1. o \in Outcomes
      BY DEF Outcomes
    <3>2. metric["pipeline"][o] \in Nat /\ Backing(o) \in Nat
      BY <3>1, CounterTypes DEF Backing, Outcomes
    <3>3. Backing(o)' = Backing(o)
      BY <1>1, CounterTypes DEF Backing
    <3> QED BY <1>1, <3>1, <3>2, <3>3
  <2>4. metric["pipeline"][o] + Cardinality(Ending(o)) <= Backing(o) + lost
    BY DEF Fitting, Backed
  <2>5. metric'["pipeline"][o] + Cardinality(Ending(o)') <= Backing(o)' + lost'
    BY <1>1, <2>1, <2>2, <2>3, <2>4
  <2> QED BY <2>5 DEF Backed
<1> QED BY <1>2, <1>3 DEF Fitting

\* A stage is recorded for an execution that leaves it: for the next one if it
\* succeeded, and else for the end.
LEMMA StageFits ==
  ASSUME Types, Fitting, NEW a \in Attempts,
         NEW n \in StageNumbers, a \in InStage(n),
         NEW outcome \in Outcomes, Record(ProcessingStage[n], outcome),
         \A i \in StageNumbers \ {1} :
            \/ InStage(i)' \subseteq InStage(i) \ {a}
            \/ /\ outcome = "success" /\ n # LastStage /\ i = Following(n)
               /\ InStage(i)' \subseteq InStage(i) \union {a},
         \A o \in {"success", "skipped", "stopped"} :
            \/ Ending(o)' \subseteq Ending(o)
            \/ /\ Ending(o)' \subseteq Ending(o) \union {a}
               /\ o = outcome
               /\ o = "success" => n = LastStage
               /\ o = "skipped" => ProcessingStage[n] \in {"claim", "saving"}
               /\ o = "stopped" => ProcessingStage[n] \in
                     {"persist_preprocessing", "persist_ocr", "saving"}
  PROVE  Fitting'
<1> DEFINE stage == ProcessingStage[n]
<1>1. /\ lost \in Nat /\ lost' \in Nat /\ lost <= lost'
      /\ stage \in Measured /\ stage # "pipeline"
      /\ metric' \in Counters
      /\ \A s \in Measured : s # stage => metric'[s] = metric[s]
      /\ \A o \in Outcomes : o # outcome => metric'[stage][o] = metric[stage][o]
      /\ \/ /\ metric'[stage][outcome] = metric[stage][outcome] + 1
            /\ Attempted(stage)' = Attempted(stage) + 1
            /\ lost' = lost
         \/ /\ metric' = metric
            /\ Attempted(stage)' = Attempted(stage)
            /\ lost' = lost + 1
  BY CounterTypes, StageNames, RecordCounts DEF Types
<1>2. ASSUME NEW i \in StageNumbers \ {LastStage}
      PROVE  Nested(i)'
  <2> DEFINE j == Following(i)
  <2>1. /\ j \in StageNumbers \ {1} /\ j \in StageNumbers /\ i \in StageNumbers
        /\ i # j /\ (n # LastStage /\ j = Following(n) => i = n)
    <3>1. j \in StageNumbers /\ i < j
      BY NextStage
    <3>2. n # LastStage /\ j = Following(n) => i = n
      BY NextStageIsOwn
    <3> QED BY <3>1, <3>2, StageNames
  <2>2. Attempted(ProcessingStage[j]) + Cardinality(InStage(j))
        <= metric[ProcessingStage[i]]["success"] + lost
    BY DEF Fitting, Nested
  <2> HIDE DEF j
  <2>3. /\ Attempted(ProcessingStage[j]) \in Nat
        /\ metric[ProcessingStage[i]]["success"] \in Nat
        /\ ProcessingStage[j] \in Measured /\ ProcessingStage[i] \in Measured
        /\ ProcessingStage[i] # ProcessingStage[j]
    BY <2>1, CounterTypes, StageNames DEF Types, Outcomes
  <2>4. /\ Cardinality(InStage(j)) \in Nat /\ Cardinality(InStage(j)') \in Nat
    BY Sizes, SetsOnTheWay
  <2>5. j # n => Attempted(ProcessingStage[j])' = Attempted(ProcessingStage[j])
    <3>1. j # n => metric'[ProcessingStage[j]] = metric[ProcessingStage[j]]
      BY <1>1, <2>1, <2>3, StageNames
    <3> QED BY <3>1 DEF Attempted
  <2>6. i # n => metric'[ProcessingStage[i]] = metric[ProcessingStage[i]]
    BY <1>1, <2>1, <2>3, StageNames
  <2>7. /\ metric'[ProcessingStage[i]]["success"] \in Nat
        /\ metric[ProcessingStage[i]]["success"]
           <= metric'[ProcessingStage[i]]["success"]
    <3>1. "success" \in Outcomes
      BY DEF Outcomes
    <3>2. CASE i # n
      BY <2>3, <2>6, <3>2
    <3>3. CASE i = n
      BY <1>1, <2>3, <3>1, <3>3
    <3> QED BY <3>2, <3>3
  <2>8. CASE InStage(j)' \subseteq InStage(j) \ {a}
    <3>1. Cardinality(InStage(j)') <= Cardinality(InStage(j))
      BY <2>8, Sizes, SetsOnTheWay
    <3>2. j = n => Cardinality(InStage(j)') + 1 <= Cardinality(InStage(j))
      BY <2>8, Sizes, SetsOnTheWay
    <3>3. CASE j = n
      <4>1. \/ /\ Attempted(ProcessingStage[j])'
                  = Attempted(ProcessingStage[j]) + 1
               /\ lost' = lost
            \/ /\ Attempted(ProcessingStage[j])' = Attempted(ProcessingStage[j])
               /\ lost' = lost + 1
        BY <1>1, <3>3
      <4>2. Attempted(ProcessingStage[j])' + Cardinality(InStage(j)')
            <= metric'[ProcessingStage[i]]["success"] + lost'
        BY <1>1, <2>2, <2>3, <2>4, <2>7, <3>2, <3>3, <4>1
      <4> QED BY <4>2 DEF Nested, j
    <3>4. CASE j # n
      <4>1. Attempted(ProcessingStage[j])' + Cardinality(InStage(j)')
            <= metric'[ProcessingStage[i]]["success"] + lost'
        BY <1>1, <2>2, <2>3, <2>4, <2>5, <2>7, <3>1, <3>4
      <4> QED BY <4>1 DEF Nested, j
    <3> QED BY <3>3, <3>4
  <2>9. CASE /\ outcome = "success" /\ n # LastStage /\ j = Following(n)
             /\ InStage(j)' \subseteq InStage(j) \union {a}
    <3>1. Cardinality(InStage(j)') <= Cardinality(InStage(j)) + 1
      BY <2>9, Sizes, SetsOnTheWay
    <3>2. i = n /\ j # n
      BY <2>1, <2>9
    <3>3. \/ /\ metric'[ProcessingStage[i]]["success"]
                = metric[ProcessingStage[i]]["success"] + 1
             /\ lost' = lost
          \/ /\ metric' = metric
             /\ lost' = lost + 1
      BY <1>1, <2>9, <3>2
    <3>4. Attempted(ProcessingStage[j])' + Cardinality(InStage(j)')
          <= metric'[ProcessingStage[i]]["success"] + lost'
      BY <1>1, <2>2, <2>3, <2>4, <2>5, <3>1, <3>2, <3>3
    <3> QED BY <3>4 DEF Nested, j
  <2> QED BY <2>1, <2>8, <2>9
<1>3. ASSUME NEW o \in {"success", "skipped", "stopped"}
      PROVE  Backed(o)'
  <2>1. /\ Cardinality(Ending(o)) \in Nat /\ Cardinality(Ending(o)') \in Nat
        /\ Ending(o)' \subseteq Ending(o) =>
              Cardinality(Ending(o)') <= Cardinality(Ending(o))
        /\ Ending(o)' \subseteq Ending(o) \union {a} =>
              Cardinality(Ending(o)') <= Cardinality(Ending(o)) + 1
    BY Sizes, SetsOnTheWay
  <2>2. metric["pipeline"][o] + Cardinality(Ending(o)) <= Backing(o) + lost
    BY DEF Fitting, Backed
  <2>3. /\ o \in Outcomes
        /\ \A s \in Measured : metric[s][o] \in Nat /\ metric'[s][o] \in Nat
        /\ metric'["pipeline"][o] = metric["pipeline"][o]
    BY <1>1, CounterTypes DEF Counters, Outcomes
  <2>4. /\ Backing(o) \in Nat /\ Backing(o)' \in Nat
        /\ Backing(o) <= Backing(o)'
    <3>1. \A s \in Measured : metric[s][o] <= metric'[s][o]
      BY <1>1, <2>3
    <3> QED BY <2>3, <3>1, CounterTypes DEF Backing
  <2>5. CASE Ending(o)' \subseteq Ending(o)
    <3>1. metric'["pipeline"][o] + Cardinality(Ending(o)') <= Backing(o)' + lost'
      BY <1>1, <2>1, <2>2, <2>3, <2>4, <2>5, CounterTypes
    <3> QED BY <3>1 DEF Backed
  <2>6. CASE /\ Ending(o)' \subseteq Ending(o) \union {a}
             /\ o = outcome
             /\ o = "success" => n = LastStage
             /\ o = "skipped" => stage \in {"claim", "saving"}
             /\ o = "stopped" => stage \in
                   {"persist_preprocessing", "persist_ocr", "saving"}
    <3>1. \/ Backing(o)' = Backing(o) + 1 /\ lost' = lost
          \/ lost' = lost + 1
      <4>1. SUFFICES ASSUME metric'[stage][o] = metric[stage][o] + 1
                     PROVE  Backing(o)' = Backing(o) + 1
        BY <1>1, <2>6
      <4>2. o = "success" => stage = "saving"
        BY <2>6, StageNames
      <4>3. \A s \in Measured : s # stage => metric'[s][o] = metric[s][o]
        BY <1>1
      <4> HIDE DEF stage
      <4>4. CASE o = "success"
        BY <4>1, <4>2, <4>4 DEF Backing
      <4>5. CASE o = "skipped"
        <5>1. /\ metric["claim"][o] \in Nat /\ metric["saving"][o] \in Nat
              /\ stage = "claim" \/ stage = "saving"
              /\ stage # "claim" => metric'["claim"][o] = metric["claim"][o]
              /\ stage # "saving" => metric'["saving"][o] = metric["saving"][o]
          BY <2>3, <2>6, <4>3, <4>5, CounterTypes
        <5>2. metric'["claim"][o] + metric'["saving"][o]
              = metric["claim"][o] + metric["saving"][o] + 1
          BY <4>1, <5>1
        <5> QED BY <4>5, <5>2 DEF Backing
      <4>6. CASE o = "stopped"
        <5> DEFINE A == "persist_preprocessing"
                   B == "persist_ocr"
                   C == "saving"
        <5>1. /\ metric[A][o] \in Nat /\ metric[B][o] \in Nat
              /\ metric[C][o] \in Nat
              /\ stage = A \/ stage = B \/ stage = C
              /\ stage # A => metric'[A][o] = metric[A][o]
              /\ stage # B => metric'[B][o] = metric[B][o]
              /\ stage # C => metric'[C][o] = metric[C][o]
          BY <2>3, <2>6, <4>3, <4>6, CounterTypes
        <5>2. metric'[A][o] + metric'[B][o] + metric'[C][o]
              = metric[A][o] + metric[B][o] + metric[C][o] + 1
          BY <4>1, <5>1
        <5> QED BY <4>6, <5>2 DEF Backing
      <4> QED BY <2>6, <4>4, <4>5, <4>6
    <3>2. metric'["pipeline"][o] + Cardinality(Ending(o)') <= Backing(o)' + lost'
      BY <1>1, <2>1, <2>2, <2>3, <2>4, <2>6, <3>1, CounterTypes
    <3> QED BY <3>2 DEF Backed
  <2> QED BY <2>5, <2>6
<1> QED BY <1>2, <1>3 DEF Fitting

-----------------------------------------------------------------------------
(***************************************************************************)
(* A step of one execution.                                                *)
(***************************************************************************)

\* What a step of an execution may do to the calls of its callback.
Repeated(a) ==
    /\ repeats' \in [Attempts -> Nat]
    /\ \A b \in Attempts : b # a => repeats'[b] = repeats[b]
    /\ repeats[a] \in Nat /\ repeats[a] <= repeats'[a]

\* They stay, or become one more.
LEMMA RepeatsGrow ==
  ASSUME Types, NEW a \in Attempts, UNCHANGED repeats \/ CalledAgain(a)
  PROVE  /\ Repeated(a)
         /\ CalledAgain(a) => repeats'[a] = repeats[a] + 1
<1>1. repeats[a] \in Nat /\ repeats \in [Attempts -> Nat]
  BY DEF Types
<1>2. CASE UNCHANGED repeats
  BY <1>1, <1>2 DEF Repeated, CalledAgain
<1>3. CASE CalledAgain(a)
  BY <1>1, <1>3 DEF Repeated, CalledAgain
<1> QED BY <1>2, <1>3

\* It leaves the others alone, and comes near to what it is itself.
LEMMA OwnSets ==
  ASSUME Types, NEW a \in Attempts, NEW r \in Attempt, Becomes(a, r)
  PROVE  /\ attempt' \in [Attempts -> Attempt] /\ attempt'[a] = r
         /\ \A b \in Attempts : b # a => attempt'[b] = attempt[b]
         /\ \A i : /\ InStage(i)' \subseteq InStage(i) \union {a}
                   /\ ~(r.phase \in {"run", "record"} /\ r.stage = i) =>
                         InStage(i)' \subseteq InStage(i) \ {a}
                   /\ a \in InStage(i) => InStage(i)' \subseteq InStage(i)
         /\ \A o : /\ Ending(o)' \subseteq Ending(o) \union {a}
                   /\ ~(r.phase = "pipeline" /\ r.outcome = o) =>
                         /\ Ending(o)' \subseteq Ending(o)
                         /\ a \notin Ending(o)'
                   /\ a \in Ending(o) => Ending(o)' \subseteq Ending(o)
<1>1. /\ attempt' \in [Attempts -> Attempt] /\ attempt'[a] = r
      /\ \A b \in Attempts : b # a => attempt'[b] = attempt[b]
  BY DEF Types, Becomes
<1>2. \A i : /\ InStage(i)' \subseteq InStage(i) \union {a}
             /\ ~(r.phase \in {"run", "record"} /\ r.stage = i) =>
                   InStage(i)' \subseteq InStage(i) \ {a}
             /\ a \in InStage(i) => InStage(i)' \subseteq InStage(i)
  BY <1>1 DEF InStage
<1>3. \A o : /\ Ending(o)' \subseteq Ending(o) \union {a}
             /\ ~(r.phase = "pipeline" /\ r.outcome = o) =>
                   /\ Ending(o)' \subseteq Ending(o)
                   /\ a \notin Ending(o)'
             /\ a \in Ending(o) => Ending(o)' \subseteq Ending(o)
  BY <1>1 DEF Ending, In
<1> QED BY <1>1, <1>2, <1>3

\* What an execution must be to keep all but Fitting.
LEMMA OwnStep ==
  ASSUME Types, Uncounted, Told, CountedOnce,
         NEW a \in Attempts, NEW r \in Attempt, Becomes(a, r),
         NEW n \in Nat, pipelines' = [pipelines EXCEPT ![a] = n],
         metric' \in Counters, lost' \in Nat, interruptions' \in Nat,
         metric'["pipeline"]["interrupted"] <= interruptions',
         r.phase # "idle",
         Repeated(a),
         r.phase \in ToCount => n <= repeats'[a],
         n <= 1 + repeats'[a],
         r.phase = "mark" => r.outcome = "error",
         r.phase = "record" =>
            /\ r.outcome = "skipped" =>
                  ProcessingStage[r.stage] \in {"claim", "saving"}
            /\ r.outcome = "stopped" =>
                  ProcessingStage[r.stage] \in
                     {"persist_preprocessing", "persist_ocr", "saving"}
  PROVE  Types' /\ Uncounted' /\ Told' /\ CountedOnce'
<1>1. /\ attempt' \in [Attempts -> Attempt] /\ attempt'[a] = r
      /\ \A b \in Attempts : b # a => attempt'[b] = attempt[b]
  BY OwnSets
<1>2. /\ pipelines' \in [Attempts -> Nat] /\ pipelines'[a] = n
      /\ \A b \in Attempts : b # a => pipelines'[b] = pipelines[b]
  BY DEF Types
<1>3. Types'
  BY <1>1, <1>2 DEF Types, Repeated
<1>4. Uncounted'
  <2> SUFFICES ASSUME NEW b \in Attempts, attempt'[b].phase \in ToCount
               PROVE  pipelines'[b] <= repeats'[b]
    BY DEF Uncounted, ToCount
  <2>1. CASE b = a
    BY <1>1, <1>2, <2>1
  <2>2. CASE b # a
    BY <1>1, <1>2, <2>2 DEF Uncounted, Repeated
  <2> QED BY <2>1, <2>2
<1>5. Told'
  <2> SUFFICES ASSUME NEW b \in Attempts
               PROVE  /\ In(b, "mark")' => attempt'[b].outcome = "error"
                      /\ In(b, "record")' =>
                            /\ attempt'[b].outcome = "skipped" =>
                                  StageOf(b)' \in {"claim", "saving"}
                            /\ attempt'[b].outcome = "stopped" =>
                                  StageOf(b)' \in
                                     {"persist_preprocessing", "persist_ocr",
                                      "saving"}
    BY DEF Told
  <2>1. CASE b = a
    BY <1>1, <2>1 DEF In, StageOf
  <2>2. CASE b # a
    BY <1>1, <2>2 DEF Told, In, StageOf
  <2> QED BY <2>1, <2>2
<1>6. CountedOnce'
  <2>1. ASSUME NEW b \in Attempts
        PROVE  pipelines'[b] <= 1 + repeats'[b]
    <3>1. CASE b = a
      BY <1>2, <3>1
    <3>2. CASE b # a
      BY <1>2, <3>2 DEF CountedOnce, Repeated
    <3> QED BY <3>1, <3>2
  <2> QED BY <2>1 DEF CountedOnce
<1> QED BY <1>3, <1>4, <1>5, <1>6

\* The counters of the pipelines when nobody counts one.
LEMMA NothingCounted ==
  ASSUME IInv, NEW a \in Attempts, UNCHANGED counters,
         interruptions' \in Nat, interruptions <= interruptions'
  PROVE  /\ metric' \in Counters /\ lost' \in Nat /\ pipelines[a] \in Nat
         /\ pipelines' = [pipelines EXCEPT ![a] = pipelines[a]]
         /\ metric'["pipeline"]["interrupted"] <= interruptions'
         /\ UNCHANGED <<metric, lost>>
<1>1. /\ metric' = metric /\ lost' = lost /\ pipelines' = pipelines
      /\ metric \in Counters /\ lost \in Nat /\ pipelines \in [Attempts -> Nat]
      /\ interruptions \in Nat
  BY DEF IInv, Types, counters
<1>2. metric["pipeline"]["interrupted"] \in Nat
  BY CounterTypes DEF IInv, Outcomes
<1>3. metric["pipeline"]["interrupted"] <= interruptions
  BY DEF IInv, CountedOnce
<1>4. metric'["pipeline"]["interrupted"] <= interruptions'
  BY <1>1, <1>2, <1>3
<1>5. pipelines' = [pipelines EXCEPT ![a] = pipelines[a]] /\ pipelines[a] \in Nat
  BY <1>1
<1> QED BY <1>1, <1>4, <1>5

\* A step that counts nothing, and comes near to no record but those of the
\* first stage.
LEMMA QuietStep ==
  ASSUME IInv, NEW a \in Attempts, NEW r \in Attempt, Becomes(a, r),
         UNCHANGED counters,
         interruptions' \in Nat, interruptions <= interruptions',
         r.phase # "idle",
         Repeated(a),
         r.phase \in ToCount => pipelines[a] <= repeats'[a],
         r.phase = "mark" => r.outcome = "error",
         r.phase = "record" =>
            /\ r.outcome = "skipped" =>
                  ProcessingStage[r.stage] \in {"claim", "saving"}
            /\ r.outcome = "stopped" =>
                  ProcessingStage[r.stage] \in
                     {"persist_preprocessing", "persist_ocr", "saving"},
         r.phase \in {"run", "record"} => (r.stage = 1 \/ a \in InStage(r.stage)),
         r.phase = "pipeline" =>
            (r.outcome \in {"error", "interrupted"} \/ a \in Ending(r.outcome))
  PROVE  IInv'
<1>1. /\ metric' \in Counters /\ lost' \in Nat /\ pipelines[a] \in Nat
      /\ pipelines' = [pipelines EXCEPT ![a] = pipelines[a]]
      /\ metric'["pipeline"]["interrupted"] <= interruptions'
      /\ UNCHANGED <<metric, lost>>
  BY NothingCounted
<1>2. Types /\ Uncounted /\ Told /\ CountedOnce /\ Fitting
  BY DEF IInv
<1>3. PICK n \in Nat : n = pipelines[a]
  BY <1>1
<1>4. /\ pipelines' = [pipelines EXCEPT ![a] = n]
      /\ r.phase \in ToCount => n <= repeats'[a]
      /\ n <= 1 + repeats'[a]
  <2>1. pipelines[a] <= 1 + repeats[a]
    BY <1>2 DEF CountedOnce
  <2>2. /\ repeats[a] \in Nat /\ repeats'[a] \in Nat
        /\ repeats[a] <= repeats'[a]
    BY DEF Repeated
  <2> QED BY <1>1, <1>3, <2>1, <2>2
<1>5. Types' /\ Uncounted' /\ Told' /\ CountedOnce'
  BY <1>1, <1>2, <1>4, OwnStep
<1>6. \A i \in StageNumbers \ {1} : InStage(i)' \subseteq InStage(i)
  BY <1>2, OwnSets
<1>7. \A o \in {"success", "skipped", "stopped"} : Ending(o)' \subseteq Ending(o)
  BY <1>2, OwnSets
<1>8. Fitting'
  BY <1>1, <1>2, <1>6, <1>7, FittingStays
<1> QED BY <1>5, <1>8 DEF IInv

\* A callback counts an interruption only if it is one.
LEMMA RestoredCounts ==
  ASSUME IInv, NEW a \in Attempts, Restored(a)
  PROVE  /\ metric' \in Counters /\ lost' \in Nat /\ interruptions' \in Nat
         /\ metric'["pipeline"]["interrupted"] <= interruptions'
         /\ \E n \in Nat : /\ pipelines' = [pipelines EXCEPT ![a] = n]
                           /\ n <= pipelines[a] + 1
         /\ \/ Record("pipeline", "interrupted")
            \/ UNCHANGED <<metric, lost>>
<1>1. /\ Types /\ pipelines[a] \in Nat /\ interruptions \in Nat
      /\ pipelines[a] + 1 \in Nat
      /\ metric["pipeline"]["interrupted"] \in Nat
      /\ metric["pipeline"]["interrupted"] <= interruptions
      /\ "pipeline" \in Measured /\ "interrupted" \in Outcomes
  BY CounterTypes DEF IInv, Types, CountedOnce, Outcomes
<1>2. CASE row' # row
  <2>1. /\ Record("pipeline", "interrupted")
        /\ pipelines' = [pipelines EXCEPT ![a] = pipelines[a] + 1]
        /\ interruptions' = interruptions + 1
    BY <1>2 DEF Restored, Interrupted, Counts, CountPipeline
  <2>2. /\ metric' \in Counters /\ lost' \in Nat
        /\ metric'["pipeline"]["interrupted"]
           <= metric["pipeline"]["interrupted"] + 1
    BY <1>1, <2>1, RecordCounts
  <2>3. /\ interruptions' \in Nat
        /\ metric'["pipeline"]["interrupted"] <= interruptions'
    <3>1. metric'["pipeline"]["interrupted"] \in Nat
      BY <1>1, <2>2 DEF Counters
    <3> QED BY <1>1, <2>1, <2>2, <3>1
  <2>4. PICK n \in Nat : n = pipelines[a] + 1
    BY <1>1
  <2>5. pipelines' = [pipelines EXCEPT ![a] = n] /\ n <= pipelines[a] + 1
    BY <1>1, <2>1, <2>4
  <2> QED BY <2>1, <2>2, <2>3, <2>5
<1>3. CASE row' = row
  <2>1. UNCHANGED counters /\ interruptions' = interruptions + 0
    BY <1>3 DEF Restored, Interrupted, Counts
  <2>2. interruptions' \in Nat /\ interruptions <= interruptions'
    BY <1>1, <2>1
  <2>3. /\ metric' \in Counters /\ lost' \in Nat
        /\ pipelines' = [pipelines EXCEPT ![a] = pipelines[a]]
        /\ metric'["pipeline"]["interrupted"] <= interruptions'
        /\ UNCHANGED <<metric, lost>>
    BY <2>1, <2>2, NothingCounted
  <2>4. PICK n \in Nat : n = pipelines[a]
    BY <1>1
  <2>5. pipelines' = [pipelines EXCEPT ![a] = n] /\ n <= pipelines[a] + 1
    BY <1>1, <2>3, <2>4
  <2> QED BY <2>2, <2>3, <2>5
<1> QED BY <1>2, <1>3

-----------------------------------------------------------------------------
(***************************************************************************)
(* The actions.                                                            *)
(***************************************************************************)

\* The invariant of an execution, before its step.
LEMMA OwnFacts ==
  ASSUME IInv, NEW a \in Attempts
  PROVE  /\ attempt[a] \in Attempt /\ pipelines[a] \in Nat
         /\ interruptions \in Nat /\ interruptions <= interruptions
         /\ repeats[a] \in Nat
         /\ attempt[a].phase \in ToCount => pipelines[a] <= repeats[a]
         /\ Working(a) \/ In(a, "idle") \/ In(a, "dead") =>
               pipelines[a] <= repeats[a]
         /\ pipelines[a] <= 1 + repeats[a]
         /\ UNCHANGED repeats =>
               Repeated(a) /\ repeats'[a] = repeats[a]
<1>1. UNCHANGED repeats => Repeated(a) /\ repeats'[a] = repeats[a]
  BY RepeatsGrow DEF IInv
<1> QED BY <1>1 DEF IInv, Types, Uncounted, CountedOnce, ToCount, Working, In

LEMMA StartKeeps ==
  ASSUME IInv, NEW a \in Attempts, Start(a)
  PROVE  IInv'
<1> DEFINE r == [Idle EXCEPT !.phase = "run", !.registered = TRUE]
<1>1. /\ r \in Attempt /\ r.phase = "run" /\ r.stage = 1 /\ r.registered
  BY StageNames DEF Idle, Attempt, Phases, Outcomes
<1>2. /\ Becomes(a, r) /\ UNCHANGED counters /\ interruptions' = interruptions
      /\ UNCHANGED repeats
  BY DEF Start
<1>3. Repeated(a) /\ pipelines[a] <= repeats'[a]
  BY <1>2, OwnFacts DEF Start
<1> HIDE DEF r
<1> QED BY <1>1, <1>2, <1>3, OwnFacts, QuietStep

\* The body of a stage ends, one way or another.
LEMMA BodyKeeps ==
  ASSUME IInv, NEW a \in Attempts, Run(a) \/ RunFails(a)
  PROVE  IInv'
<1>1. PICK o \in Outcomes :
        /\ Ended(a, "record", o)
        /\ o = "skipped" => StageOf(a) \in {"claim", "saving"}
        /\ o = "stopped" =>
              StageOf(a) \in {"persist_preprocessing", "persist_ocr", "saving"}
  <2>1. CASE Run(a)
    BY <2>1 DEF Run, OutcomeOf, Outcomes
  <2>2. CASE RunFails(a)
    BY <2>2 DEF RunFails, Outcomes
  <2> QED BY <2>1, <2>2
<1>2. /\ attempt[a].phase = "run" /\ Working(a) /\ UNCHANGED repeats
      /\ UNCHANGED counters /\ interruptions' = interruptions
  BY DEF Run, RunFails, In, Working
<1> DEFINE r == [attempt[a] EXCEPT !.phase = "record", !.outcome = o]
<1>3. /\ r \in Attempt /\ r.phase = "record" /\ r.stage = attempt[a].stage
      /\ r.outcome = o /\ r.registered = attempt[a].registered
  BY OwnFacts DEF Attempt, Phases
<1>4. Becomes(a, r)
  BY <1>1 DEF Ended
<1> HIDE DEF r
<1>5. a \in InStage(r.stage)
  BY <1>2, <1>3 DEF InStage
<1>6. /\ r.outcome = "skipped" =>
            ProcessingStage[r.stage] \in {"claim", "saving"}
      /\ r.outcome = "stopped" =>
            ProcessingStage[r.stage] \in
               {"persist_preprocessing", "persist_ocr", "saving"}
  BY <1>1, <1>3 DEF StageOf
<1>7. Repeated(a) /\ pipelines[a] <= repeats'[a]
  BY <1>2, OwnFacts
<1> QED BY <1>2, <1>3, <1>4, <1>5, <1>6, <1>7, OwnFacts, QuietStep

\* An execution that leaves its stages and counts nothing on its way.
LEMMA LeaveKeeps ==
  ASSUME IInv, NEW a \in Attempts, NEW p \in {"policy", "dead", "done"},
         Leave(a, p), UNCHANGED counters,
         interruptions' \in Nat, interruptions <= interruptions',
         Repeated(a), p = "dead" => pipelines[a] <= repeats'[a]
  PROVE  IInv'
<1> DEFINE r == [Idle EXCEPT !.phase = p,
                             !.registered = attempt[a].registered
                                            /\ p # "done"]
<1>1. r \in Attempt /\ r.phase = p
  BY StageNames DEF Idle, Attempt, Phases, Outcomes
<1>2. Becomes(a, r)
  BY DEF Leave
<1>3. r.phase \in ToCount => pipelines[a] <= repeats'[a]
  BY <1>1 DEF ToCount
<1> HIDE DEF r
<1> QED BY <1>1, <1>2, <1>3, QuietStep

\* A death in the callback makes for a further call of it.
LEMMA DiesKeeps ==
  ASSUME IInv, NEW a \in Attempts, Dies(a)
  PROVE  IInv'
<1>1. /\ Leave(a, Gone(a)) /\ UNCHANGED counters
      /\ interruptions' = interruptions /\ attempt[a].phase \in Alive
      /\ UNCHANGED repeats \/ CalledAgain(a)
      /\ In(a, "policy") /\ attempt[a].registered => CalledAgain(a)
  BY DEF Dies
<1>2. PICK p \in {"policy", "dead", "done"} : p = Gone(a)
  BY DEF Gone
<1>3. /\ Repeated(a)
      /\ CalledAgain(a) => repeats'[a] = repeats[a] + 1
      /\ repeats[a] \in Nat /\ repeats'[a] \in Nat
      /\ repeats[a] <= repeats'[a]
  BY <1>1, RepeatsGrow DEF IInv, Repeated
<1>4. ASSUME p = "dead"
      PROVE  pipelines[a] <= repeats'[a]
  <2>1. attempt[a].registered
    BY <1>2, <1>4 DEF Gone
  <2>2. CASE In(a, "policy")
    BY <1>1, <1>3, <2>1, <2>2, OwnFacts
  <2>3. CASE ~In(a, "policy")
    <3>1. attempt[a].phase \in ToCount
      BY <1>1, <2>3 DEF Alive, ToCount, In
    <3> QED BY <1>3, <3>1, OwnFacts
  <2> QED BY <2>2, <2>3
<1>5. interruptions' \in Nat /\ interruptions <= interruptions'
  BY <1>1, OwnFacts
<1> QED BY <1>1, <1>2, <1>3, <1>4, <1>5, LeaveKeeps

LEMMA MarkKeeps ==
  ASSUME IInv, NEW a \in Attempts, Mark(a)
  PROVE  IInv'
<1> DEFINE r == [attempt[a] EXCEPT !.phase = "pipeline"]
<1>1. /\ Goto(a, "pipeline") /\ UNCHANGED counters /\ In(a, "mark")
      /\ interruptions' = interruptions /\ UNCHANGED repeats
  BY DEF Mark
<1>2. r \in Attempt /\ r.phase = "pipeline" /\ r.outcome = attempt[a].outcome
  BY OwnFacts DEF Attempt, Phases
<1>3. Becomes(a, r)
  BY <1>1 DEF Goto
<1> HIDE DEF r
<1>4. r.outcome = "error"
  BY <1>1, <1>2 DEF IInv, Told
<1>5. Repeated(a) /\ pipelines[a] <= repeats'[a]
  BY <1>1, OwnFacts DEF Working, In
<1>6. interruptions' \in Nat /\ interruptions <= interruptions'
  BY <1>1, OwnFacts
<1> QED BY <1>1, <1>2, <1>3, <1>4, <1>5, <1>6, QuietStep

LEMMA ApplyRetryPolicyKeeps ==
  ASSUME IInv, NEW a \in Attempts, ApplyRetryPolicy(a)
  PROVE  IInv'
<1>1. /\ Leave(a, "done") /\ UNCHANGED counters
      /\ UNCHANGED repeats /\ interruptions' = interruptions
  BY DEF ApplyRetryPolicy
<1>2. interruptions' \in Nat /\ interruptions <= interruptions' /\ Repeated(a)
  BY <1>1, OwnFacts
<1> QED BY <1>1, <1>2, LeaveKeeps

LEMMA RecordStageKeeps ==
  ASSUME IInv, NEW a \in Attempts, RecordStage(a)
  PROVE  IInv'
<1> DEFINE n == attempt[a].stage
           outcome == attempt[a].outcome
           next == [attempt[a] EXCEPT !.phase = "run", !.stage = Following(@)]
<1>1. /\ n \in StageNumbers /\ outcome \in Outcomes /\ In(a, "record")
      /\ Working(a) /\ Types
  BY OwnFacts DEF RecordStage, Attempt, In, Working, IInv
<1>2. PICK r \in Attempt :
        /\ Becomes(a, r) /\ r.registered = attempt[a].registered
        /\ \/ /\ outcome = "success" /\ n # LastStage
              /\ r.phase = "run" /\ r.stage = Following(n)
           \/ /\ r.phase \in {"mark", "pipeline"} /\ r.outcome = outcome
              /\ r.phase = "mark" => outcome = "error"
              /\ outcome = "success" => n = LastStage
  <2>0. n \in Int /\ LastStage \in Int /\ n <= LastStage
    <3>1. StageNumbers \subseteq 1 .. 8 /\ LastStage = 8
      BY StageNames
    <3>2. PICK i \in 1 .. 8 : i = n
      BY <1>1, <3>1
    <3> QED BY <3>1, <3>2
  <2>1. CASE outcome = "success" /\ n < LastStage
    <3>1. n # LastStage
      BY <2>1, <2>0
    <3>2. PICK i \in StageNumbers : i = n
      BY <1>1
    <3>3. Following(n) \in StageNumbers
      BY <3>1, <3>2, NextStage
    <3>4. /\ next \in Attempt /\ next.phase = "run"
          /\ next.stage = Following(n)
          /\ next.registered = attempt[a].registered
      BY <3>3, OwnFacts DEF Attempt, Phases
    <3>5. Becomes(a, next)
      BY <2>1 DEF RecordStage
    <3> QED BY <2>1, <3>1, <3>4, <3>5
  <2>2. ASSUME NEW p \in {"mark", "pipeline"}, Goto(a, p),
               p = "mark" => outcome = "error",
               outcome = "success" => n = LastStage
        PROVE  \E r \in Attempt :
                 /\ Becomes(a, r) /\ r.registered = attempt[a].registered
                 /\ r.phase \in {"mark", "pipeline"} /\ r.outcome = outcome
                 /\ r.phase = "mark" => outcome = "error"
                 /\ outcome = "success" => n = LastStage
    <3> DEFINE q == [attempt[a] EXCEPT !.phase = p]
    <3>1. /\ q \in Attempt /\ q.phase = p /\ q.outcome = outcome
          /\ q.registered = attempt[a].registered
      BY OwnFacts DEF Attempt, Phases
    <3>2. Becomes(a, q)
      BY <2>2 DEF Goto
    <3> QED BY <2>2, <3>1, <3>2
  <2>3. CASE outcome = "error"
    <3>1. Goto(a, AfterError(a))
      BY <2>3 DEF RecordStage
    <3>2. PICK p \in {"mark", "pipeline"} : p = AfterError(a)
      BY DEF AfterError
    <3> QED BY <2>2, <2>3, <3>1, <3>2
  <2>4. CASE outcome # "error" /\ ~(outcome = "success" /\ n < LastStage)
    <3>1. Goto(a, "pipeline")
      BY <2>4 DEF RecordStage
    <3>2. outcome = "success" => n = LastStage
      BY <2>0, <2>4
    <3> QED BY <2>2, <2>4, <3>1, <3>2
  <2> QED BY <2>1, <2>3, <2>4
<1>3. /\ Record(ProcessingStage[n], outcome)
      /\ pipelines' = pipelines /\ interruptions' = interruptions
      /\ UNCHANGED repeats
  BY DEF RecordStage, StageOf
<1>4. /\ outcome = "skipped" => ProcessingStage[n] \in {"claim", "saving"}
      /\ outcome = "stopped" => ProcessingStage[n] \in
            {"persist_preprocessing", "persist_ocr", "saving"}
  BY <1>1 DEF IInv, Told, StageOf
<1>5. a \in InStage(n)
  BY <1>1 DEF InStage, In
<1> HIDE DEF n, outcome, next
<1>6. Fitting'
  <2>1. ASSUME NEW i \in StageNumbers \ {1}
        PROVE  \/ InStage(i)' \subseteq InStage(i) \ {a}
               \/ /\ outcome = "success" /\ n # LastStage /\ i = Following(n)
                  /\ InStage(i)' \subseteq InStage(i) \union {a}
    BY <1>1, <1>2, OwnSets
  <2>2. ASSUME NEW o \in {"success", "skipped", "stopped"}
        PROVE  \/ Ending(o)' \subseteq Ending(o)
               \/ /\ Ending(o)' \subseteq Ending(o) \union {a}
                  /\ o = outcome
                  /\ o = "success" => n = LastStage
                  /\ o = "skipped" => ProcessingStage[n] \in {"claim", "saving"}
                  /\ o = "stopped" => ProcessingStage[n] \in
                        {"persist_preprocessing", "persist_ocr", "saving"}
    <3>1. /\ Ending(o)' \subseteq Ending(o) \union {a}
          /\ ~(r.phase = "pipeline" /\ r.outcome = o) =>
                Ending(o)' \subseteq Ending(o)
      BY <1>1, <1>2, OwnSets
    <3> QED BY <1>2, <1>4, <3>1
  <2> QED BY <1>1, <1>3, <1>5, <2>1, <2>2, StageFits DEF IInv
<1>7. /\ metric' \in Counters /\ lost' \in Nat
      /\ metric'["pipeline"]["interrupted"] = metric["pipeline"]["interrupted"]
  <2>1. /\ ProcessingStage[n] \in Measured /\ ProcessingStage[n] # "pipeline"
        /\ "pipeline" \in Measured
    BY <1>1, StageNames, CounterTypes
  <2> QED BY <1>1, <1>3, <2>1, RecordCounts
<1>8. /\ interruptions' \in Nat
      /\ metric'["pipeline"]["interrupted"] <= interruptions'
  BY <1>3, <1>7 DEF IInv, Types, CountedOnce
<1>9. PICK m \in Nat : m = pipelines[a]
  BY OwnFacts
<1>10. pipelines' = [pipelines EXCEPT ![a] = m]
  BY <1>1, <1>3, <1>9 DEF Types
<1>11. /\ Repeated(a) /\ m <= repeats'[a]
       /\ m <= 1 + repeats'[a]
  BY <1>1, <1>3, <1>9, OwnFacts
<1>12. Types' /\ Uncounted' /\ Told' /\ CountedOnce'
  BY <1>2, <1>7, <1>8, <1>10, <1>11, OwnStep DEF IInv
<1> QED BY <1>6, <1>12 DEF IInv

LEMMA RecordPipelineKeeps ==
  ASSUME IInv, NEW a \in Attempts, RecordPipeline(a)
  PROVE  IInv'
<1> DEFINE outcome == attempt[a].outcome
<1>1. /\ outcome \in Outcomes /\ In(a, "pipeline") /\ Working(a) /\ Types
      /\ interruptions' = interruptions /\ UNCHANGED repeats
      /\ interruptions' \in Nat /\ interruptions <= interruptions'
  BY OwnFacts DEF RecordPipeline, Attempt, In, Working, IInv
<1>0. /\ Repeated(a) /\ pipelines[a] \in Nat /\ repeats'[a] \in Nat
      /\ pipelines[a] <= repeats'[a]
  BY <1>1, OwnFacts
<1>2. CASE outcome = "interrupted"
  <2>1. Leave(a, Gone(a)) /\ UNCHANGED counters
    BY <1>2 DEF RecordPipeline, LeftToCallback
  <2>2. PICK p \in {"policy", "dead", "done"} : p = Gone(a)
    BY DEF Gone
  <2> QED BY <1>0, <1>1, <2>1, <2>2, LeaveKeeps
<1>3. CASE outcome # "interrupted"
  <2>1. /\ Record("pipeline", outcome)
        /\ pipelines' = [pipelines EXCEPT ![a] = pipelines[a] + 1]
    BY <1>3 DEF RecordPipeline, LeftToCallback, CountPipeline, PipelineOutcome
  <2>2. PICK p \in {"policy", "done"} : Leave(a, p)
    BY <1>3 DEF RecordPipeline
  <2> DEFINE r == [Idle EXCEPT !.phase = p,
                               !.registered = attempt[a].registered
                                              /\ p # "done"]
  <2>3. r \in Attempt /\ r.phase = p
    BY StageNames DEF Idle, Attempt, Phases, Outcomes
  <2>4. Becomes(a, r)
    BY <2>2 DEF Leave
  <2>5. a \in Ending(outcome)
    BY <1>1 DEF Ending
  <2> HIDE DEF r, outcome
  <2>6. Fitting'
    <3>1. \A i \in StageNumbers \ {1} : InStage(i)' \subseteq InStage(i)
      BY <1>1, <2>3, <2>4, OwnSets
    <3>2. \A o : Ending(o)' \subseteq Ending(o) /\ a \notin Ending(o)'
      BY <1>1, <2>3, <2>4, OwnSets
    <3> QED BY <1>1, <2>1, <2>5, <3>1, <3>2, PipelineFits DEF IInv
  <2>7. /\ metric' \in Counters /\ lost' \in Nat
        /\ metric'["pipeline"]["interrupted"] = metric["pipeline"]["interrupted"]
    <3>1. "pipeline" \in Measured /\ "interrupted" \in Outcomes
      BY <1>1, CounterTypes DEF Outcomes
    <3> QED BY <1>1, <1>3, <2>1, <3>1, RecordCounts
  <2>8. metric'["pipeline"]["interrupted"] <= interruptions'
    BY <1>1, <2>7 DEF IInv, CountedOnce
  <2>9. PICK n \in Nat : n = pipelines[a] + 1
    BY OwnFacts
  <2>10. /\ pipelines' = [pipelines EXCEPT ![a] = n]
         /\ n <= 1 + repeats'[a]
         /\ r.phase \notin ToCount
    BY <1>0, <2>1, <2>3, <2>9 DEF ToCount
  <2>11. Types' /\ Uncounted' /\ Told' /\ CountedOnce'
    BY <1>0, <1>1, <2>3, <2>4, <2>7, <2>8, <2>10, OwnStep DEF IInv
  <2> QED BY <2>6, <2>11 DEF IInv
<1> QED BY <1>2, <1>3

\* The callback, for an execution that died or is taken for dead.
LEMMA RestoredKeeps ==
  ASSUME IInv, NEW a \in Attempts, Restored(a),
         NEW r \in Attempt, Becomes(a, r),
         \/ r.phase = "policy" /\ In(a, "dead") /\ UNCHANGED repeats
         \/ /\ r.phase = attempt[a].phase /\ r.stage = attempt[a].stage
            /\ r.outcome = attempt[a].outcome
            /\ r.phase \in Alive /\ CalledAgain(a)
  PROVE  IInv'
<1>1. PICK n \in Nat : pipelines' = [pipelines EXCEPT ![a] = n]
                       /\ n <= pipelines[a] + 1
  BY RestoredCounts
<1>2. Types /\ Uncounted /\ Told /\ CountedOnce /\ Fitting
  BY DEF IInv
<1>3. /\ Repeated(a) /\ pipelines[a] \in Nat /\ repeats[a] \in Nat
      /\ repeats'[a] \in Nat /\ repeats[a] <= repeats'[a]
      /\ CalledAgain(a) => repeats'[a] = repeats[a] + 1
      /\ pipelines[a] <= 1 + repeats[a]
  BY <1>2, RepeatsGrow, OwnFacts DEF Repeated
<1>4. /\ r.phase # "idle"
      /\ attempt[a].phase \in ToCount => pipelines[a] <= repeats[a]
  BY OwnFacts DEF Alive
<1>5. /\ r.phase \in ToCount => n <= repeats'[a]
      /\ n <= 1 + repeats'[a]
  <2>1. CASE r.phase = "policy" /\ In(a, "dead") /\ UNCHANGED repeats
    BY <1>1, <1>3, <1>4, <2>1 DEF In, ToCount
  <2>2. CASE r.phase = attempt[a].phase /\ CalledAgain(a)
    BY <1>1, <1>3, <1>4, <2>2
  <2> QED BY <2>1, <2>2
<1>6. /\ r.phase = "mark" => r.outcome = "error"
      /\ r.phase = "record" =>
            /\ r.outcome = "skipped" =>
                  ProcessingStage[r.stage] \in {"claim", "saving"}
            /\ r.outcome = "stopped" =>
                  ProcessingStage[r.stage] \in
                     {"persist_preprocessing", "persist_ocr", "saving"}
  BY <1>2 DEF Told, In, StageOf
<1>7. Types' /\ Uncounted' /\ Told' /\ CountedOnce'
  BY <1>1, <1>2, <1>3, <1>4, <1>5, <1>6, RestoredCounts, OwnStep
<1>8. \A i \in StageNumbers \ {1} : InStage(i)' \subseteq InStage(i)
  <2>1. r.phase \in {"run", "record"} => a \in InStage(r.stage)
    BY DEF InStage
  <2> QED BY <1>2, <2>1, OwnSets
<1>9. \A o \in {"success", "skipped", "stopped"} : Ending(o)' \subseteq Ending(o)
  <2>1. r.phase = "pipeline" => a \in Ending(r.outcome)
    BY DEF Ending, In
  <2> QED BY <1>2, <2>1, OwnSets
<1>10. CASE Record("pipeline", "interrupted")
  <2>1. "interrupted" \in Outcomes
    BY DEF Outcomes
  <2>2. Fitting'
    BY <1>2, <1>8, <1>9, <1>10, <2>1, PipelineFits
  <2> QED BY <1>7, <2>2 DEF IInv
<1>11. CASE UNCHANGED <<metric, lost>>
  BY <1>2, <1>7, <1>8, <1>9, <1>11, FittingStays DEF IInv
<1> QED BY <1>10, <1>11, RestoredCounts

LEMMA RestoreKeeps ==
  ASSUME IInv, NEW a \in Attempts, Restore(a)
  PROVE  IInv'
<1> DEFINE r == [Idle EXCEPT !.phase = "policy",
                             !.registered = attempt[a].registered
                                            /\ "policy" # "done"]
<1>1. r \in Attempt /\ r.phase = "policy"
  BY StageNames, OwnFacts DEF Idle, Attempt, Phases, Outcomes
<1>2. Becomes(a, r) /\ Restored(a) /\ In(a, "dead") /\ UNCHANGED repeats
  BY DEF Restore, Leave
<1> HIDE DEF r
<1> QED BY <1>1, <1>2, RestoredKeeps

LEMMA AbandonKeeps ==
  ASSUME IInv, NEW a \in Attempts, Abandon(a)
  PROVE  IInv'
<1> DEFINE r == [attempt[a] EXCEPT !.registered = FALSE]
<1>1. /\ r \in Attempt /\ r.phase = attempt[a].phase
      /\ r.stage = attempt[a].stage /\ r.outcome = attempt[a].outcome
  BY OwnFacts DEF Attempt
<1>2. /\ Becomes(a, r) /\ Restored(a) /\ CalledAgain(a)
      /\ attempt[a].phase \in Alive
  BY DEF Abandon
<1> HIDE DEF r
<1> QED BY <1>1, <1>2, RestoredKeeps

\* Steps that leave the executions and their counters alone.
LEMMA OthersKeep ==
  ASSUME IInv, UNCHANGED <<attempt, counters, repeats>>,
         interruptions' \in Nat, interruptions <= interruptions'
  PROVE  IInv'
<1>1. /\ attempt' = attempt /\ metric' = metric /\ lost' = lost
      /\ pipelines' = pipelines /\ repeats' = repeats
  BY DEF counters
<1>2. Types /\ Uncounted /\ Told /\ CountedOnce /\ Fitting
  BY DEF IInv
<1>3. Types'
  BY <1>1, <1>2 DEF Types
<1>4. Uncounted' /\ Told'
  BY <1>1, <1>2 DEF Uncounted, Told, In, Working, StageOf
<1>5. CountedOnce'
  <2>1. metric["pipeline"]["interrupted"] \in Nat /\ interruptions \in Nat
    BY <1>2, CounterTypes DEF Types, Outcomes
  <2>2. metric'["pipeline"]["interrupted"] <= interruptions'
    BY <1>1, <1>2, <2>1 DEF CountedOnce
  <2> QED BY <1>1, <1>2, <2>2 DEF CountedOnce, In
<1>6. Fitting'
  <2>1. \A i : InStage(i)' \subseteq InStage(i)
    BY <1>1 DEF InStage
  <2>2. \A o : Ending(o)' \subseteq Ending(o)
    BY <1>1 DEF Ending, In
  <2> QED BY <1>1, <1>2, <2>1, <2>2, FittingStays
<1> QED BY <1>3, <1>4, <1>5, <1>6 DEF IInv

LEMMA RestoreFailsKeeps ==
  ASSUME IInv, NEW a \in Attempts, RestoreFails(a)
  PROVE  IInv'
<1>1. /\ UNCHANGED <<attempt, counters, repeats>>
      /\ interruptions' = interruptions + IF row' # row THEN 1 ELSE 0
  BY DEF RestoreFails, Interrupted
<1>2. interruptions' \in Nat /\ interruptions <= interruptions'
  BY <1>1, OwnFacts
<1> QED BY <1>1, <1>2, OthersKeep

-----------------------------------------------------------------------------
(***************************************************************************)
(* The theorems.                                                           *)
(***************************************************************************)

LEMMA InitKeeps ==
  ASSUME Init
  PROVE  IInv
<1>1. /\ Idle \in Attempt /\ Idle.phase = "idle" /\ ~Idle.registered
  BY StageNames DEF Idle, Attempt, Phases, Outcomes
<1>2. /\ \A a \in Attempts :
            attempt[a] = Idle /\ pipelines[a] = 0 /\ repeats[a] = 0
      /\ \A s \in Measured, o \in Outcomes : metric[s][o] = 0
      /\ lost = 0 /\ interruptions = 0
  BY DEF Init
<1>3. Types
  BY <1>1 DEF Init, Types, Counters
<1>4. Uncounted /\ Told
  BY <1>1, <1>2 DEF Uncounted, Told, In, Working
<1>5. CountedOnce
  <2>1. metric["pipeline"]["interrupted"] = 0
    BY <1>2, <1>3, CounterTypes DEF Outcomes
  <2> QED BY <1>1, <1>2, <2>1 DEF CountedOnce, In
<1>6. Fitting
  <2>1. \A i : InStage(i) = {}
    BY <1>1, <1>2 DEF InStage
  <2>2. \A o : Ending(o) = {}
    BY <1>1, <1>2 DEF Ending, In
  <2>3. Cardinality({}) = 0
    BY FS_EmptySet
  <2>4. ASSUME NEW i \in StageNumbers \ {LastStage}
        PROVE  Nested(i)
    <3>1. PICK j \in StageNumbers : j = Following(i)
      BY NextStage
    <3>2. /\ ProcessingStage[j] \in Measured /\ ProcessingStage[i] \in Measured
      BY <1>3, CounterTypes
    <3>3. /\ Attempted(ProcessingStage[j]) = 0
          /\ metric[ProcessingStage[i]]["success"] = 0
      BY <1>2, <3>2 DEF Attempted, Outcomes
    <3>4. Attempted(ProcessingStage[j]) + Cardinality(InStage(j))
          <= metric[ProcessingStage[i]]["success"] + lost
      BY <1>2, <2>1, <2>3, <3>3
    <3> QED BY <3>1, <3>4 DEF Nested
  <2>5. ASSUME NEW o \in {"success", "skipped", "stopped"}
        PROVE  Backed(o)
    <3>1. metric["pipeline"][o] = 0 /\ Backing(o) = 0
      BY <1>2, <1>3, CounterTypes DEF Backing, Outcomes
    <3>2. metric["pipeline"][o] + Cardinality(Ending(o)) <= Backing(o) + lost
      BY <1>2, <2>2, <2>3, <3>1
    <3> QED BY <3>2 DEF Backed
  <2> QED BY <2>4, <2>5 DEF Fitting
<1> QED BY <1>3, <1>4, <1>5, <1>6 DEF IInv

LEMMA NextKeeps ==
  ASSUME IInv, [Next]_vars
  PROVE  IInv'
<1>0. interruptions \in Nat /\ interruptions <= interruptions
  BY DEF IInv, Types
<1>1. ASSUME NEW a \in Attempts,
             \/ Start(a) \/ Run(a) \/ RunFails(a) \/ RecordStage(a)
             \/ Mark(a) \/ RecordPipeline(a) \/ Dies(a)
             \/ Restore(a) \/ RestoreFails(a) \/ Abandon(a)
             \/ ApplyRetryPolicy(a)
      PROVE  IInv'
  BY <1>1, StartKeeps, BodyKeeps, RecordStageKeeps, MarkKeeps,
     RecordPipelineKeeps, DiesKeeps, RestoreKeeps, RestoreFailsKeeps,
     AbandonKeeps, ApplyRetryPolicyKeeps
<1>2. CASE Owner
  <2>1. UNCHANGED <<attempt, counters, repeats>> /\ interruptions' = interruptions
    BY <1>2 DEF Owner
  <2> QED BY <1>0, <2>1, OthersKeep
<1>3. CASE UNCHANGED vars
  <2>1. UNCHANGED <<attempt, counters, repeats>> /\ interruptions' = interruptions
    BY <1>3 DEF vars, counters
  <2> QED BY <1>0, <2>1, OthersKeep
<1> QED BY <1>1, <1>2, <1>3 DEF Next

LEMMA InvariantHolds == Spec => []IInv
<1>1. Init => IInv
  BY InitKeeps
<1>2. IInv /\ [Next]_vars => IInv'
  BY NextKeeps
<1> QED BY <1>1, <1>2, PTL DEF Spec

\* Whatever dies and overlaps, an execution is counted once by
\* process_receipt or its callback, and once more at most for every further
\* call of the callback: measure leaves an interrupted pipeline to it.  And
\* nothing is counted as interrupted that was not: the callback counts only
\* what it changed.
THEOREM CountedOnceAlways == Spec => []CountedOnce
<1>1. IInv => CountedOnce
  BY DEF IInv
<1> QED BY <1>1, InvariantHolds, PTL

\* The counters the dashboard compares fit each other in every order of the
\* executions, but for the records Redis lost.
THEOREM StagesAreNestedAlways == Spec => []StagesAreNested
<1>1. IInv => StagesAreNested
  <2> SUFFICES ASSUME IInv PROVE StagesAreNested
    OBVIOUS
  <2>1. /\ \A i : Cardinality(InStage(i)) \in Nat
        /\ \A o : Cardinality(Ending(o)) \in Nat
    BY Sizes, SetsOnTheWay
  <2>2. /\ Types /\ lost \in Nat
        /\ \A i \in StageNumbers \ {LastStage} : Nested(i)
        /\ \A o \in {"success", "skipped", "stopped"} : Backed(o)
    BY DEF IInv, Types, Fitting
  <2>3. ASSUME NEW i \in StageNumbers \ {LastStage}
        PROVE  Attempted(ProcessingStage[Following(i)])
               <= metric[ProcessingStage[i]]["success"] + lost
    <3>1. PICK j \in StageNumbers : j = Following(i)
      BY NextStage
    <3>2. /\ Attempted(ProcessingStage[j]) \in Nat
          /\ metric[ProcessingStage[i]]["success"] \in Nat
      BY <2>2, CounterTypes DEF Outcomes
    <3>3. Attempted(ProcessingStage[j]) + Cardinality(InStage(j))
          <= metric[ProcessingStage[i]]["success"] + lost
      BY <2>2, <3>1 DEF Nested
    <3>4. Attempted(ProcessingStage[j])
          <= metric[ProcessingStage[i]]["success"] + lost
      BY <2>1, <2>2, <3>2, <3>3
    <3> QED BY <3>1, <3>4
  <2>4. ASSUME NEW o \in {"success", "skipped", "stopped"}
        PROVE  metric["pipeline"][o] <= Backing(o) + lost
    <3>1. metric["pipeline"][o] \in Nat /\ Backing(o) \in Nat
      BY <2>2, CounterTypes DEF Backing, Outcomes
    <3>2. metric["pipeline"][o] + Cardinality(Ending(o)) <= Backing(o) + lost
      BY <2>2 DEF Backed
    <3> QED BY <2>1, <2>2, <3>1, <3>2
  <2> QED BY <2>3, <2>4 DEF StagesAreNested, Backing
<1> QED BY <1>1, InvariantHolds, PTL

=============================================================================
