-------------------------- MODULE ImageOrientation --------------------------
(***************************************************************************)
(* How a photograph is turned upright before it is recognized: squares     *)
(* along its longer side are shown to a classifier one by one, and only    *)
(* what enough of them are sure of, and none contradicts, turns it.        *)
(* The classifier is external: it sees any angle with any confidence.      *)
(***************************************************************************)
EXTENDS Integers, Sequences, FiniteSets

CONSTANTS
    Angles,       \* correction angles
    Confidences,
    MinConfidence,
    MaxSide,      \* bound on width and height
    MaxPixels,
    None

OrientationConstants ==
    /\ 0 \in Angles /\ Angles \subseteq {0, 90, 180, 270}
    /\ Confidences \subseteq Nat /\ MinConfidence \in Nat
    /\ MaxSide \in Nat \ {0}
    /\ MaxPixels \in Nat \ {0}
    /\ None \notin {0, 90, 180, 270}

VARIABLES
    image,        \* what the upload holds: its size, and whether EXIF turns it
    rotate,       \* apply_model_rotation
    size,         \* width and height of the picture as it is now
    votes,
    decision,
    report,       \* of the result
    step          \* "failed" after an ImageOrientationError

vars == <<image, rotate, size, votes, decision, report, step>>

Vote == [angle : Angles, confidence : Confidences]

Init ==
    /\ image \in [ width : 1 .. MaxSide, height : 1 .. MaxSide,
                   readable : BOOLEAN, exif : BOOLEAN ]
    /\ rotate \in BOOLEAN
    /\ size = None /\ votes = <<>> /\ decision = None /\ report = None
    /\ step = "decode"

Fails ==
    /\ step' = "failed"
    /\ UNCHANGED <<image, rotate, size, votes, decision, report>>

\* decode: unreadable data, too many pixels or frames raise; EXIF is applied.
\* One of its turns in two changes width with height.
Decode ==
    /\ step = "decode"
    /\ IF image.readable /\ image.width * image.height <= MaxPixels
       THEN /\ \/ size' = [width |-> image.width, height |-> image.height]
               \/ image.exif
                  /\ size' = [width |-> image.height, height |-> image.width]
            /\ step' = "vote"
            /\ UNCHANGED <<image, rotate, votes, decision, report>>
       ELSE Fails

-----------------------------------------------------------------------------
Longer(a, b) == IF a < b THEN b ELSE a
Shorter(a, b) == IF a < b THEN a ELSE b

\* round(n / 4): to the nearest, and to the even one of two.
Quarters(n) ==
    LET whole == n \div 4
    IN  CASE n % 4 < 2 -> whole
          [] n % 4 > 2 -> whole + 1
          [] OTHER -> whole + (whole % 2)

\* slip: a fifth of the way with every square
FifthsOf(free) == [k \in 1 .. 5 |-> ((k * free) \div 4)]

StartsOf(free) == [k \in 1 .. 5 |-> Quarters((k - 1) * free)]

Box(left, top, side) ==
    [left |-> left, top |-> top, right |-> left + side, bottom |-> top + side]

\* region_boxes: five squares, or fewer if some of them are the same, which
\* dict.fromkeys drops.
RegionBoxes(s) ==
    LET side == Longer(1, Shorter(s.width, s.height) \div 2)
        starts == StartsOf(Longer(s.width, s.height) - side)
        box(start) ==
            IF s.width >= s.height
            THEN Box(start, (s.height - side) \div 2, side)
            ELSE Box((s.width - side) \div 2, start, side)
    IN  {box(starts[k]) : k \in 1 .. 5}

\* predict for the next square.
Predict ==
    /\ step = "vote"
    /\ Len(votes) < Cardinality(RegionBoxes(size))
    /\ \E vote \in Vote : votes' = Append(votes, vote)
    /\ UNCHANGED <<image, rotate, size, decision, report, step>>

\* The model's files are missing, or what it answers is no prediction.
PredictFails ==
    /\ step = "vote"
    /\ Len(votes) < Cardinality(RegionBoxes(size))
    /\ Fails

Confident(vs) == {v \in DOMAIN vs : vs[v].confidence >= MinConfidence}

\* slip: the votes of the majority
Majority(vs) ==
    LET sure == Confident(vs)
        for(a) == {v \in sure : vs[v].angle = a}
    IN  IF \E a \in Angles : Cardinality(for(a)) >= 3
        THEN [ accepted |-> TRUE,
               angle |-> CHOOSE a \in Angles : Cardinality(for(a)) >= 3,
               reason |-> "consensus" ]
        ELSE [ accepted |-> FALSE, angle |-> None,
               reason |-> "insufficient_confident_votes" ]

\* decide_votes
DecideVotes(vs) ==
    LET sure == Confident(vs)
        refused(reason) == [accepted |-> FALSE, angle |-> None, reason |-> reason]
    IN  IF \E v, w \in sure : vs[v].angle # vs[w].angle
        THEN refused("confident_disagreement")
        ELSE IF Cardinality(sure) < 3
        THEN refused("insufficient_confident_votes")
        ELSE [ accepted |-> TRUE,
               angle |-> vs[CHOOSE v \in sure : TRUE].angle,
               reason |-> "consensus" ]

Decide ==
    /\ step = "vote"
    /\ Len(votes) = Cardinality(RegionBoxes(size))
    /\ decision' = DecideVotes(votes)
    /\ step' = "turn"
    /\ UNCHANGED <<image, rotate, size, votes, report>>

Turned(s, angle) ==
    IF angle \in {90, 270} THEN [width |-> s.height, height |-> s.width] ELSE s

\* slip: only what was turned needs a look
ReviewOfTurned(angle) == angle # 0 /\ decision.angle # angle

NeedsReview(angle) == ~decision.accepted \/ angle # decision.angle

\* normalize_with_report after the decision.
Normalize ==
    /\ step = "turn"
    /\ LET angle == IF rotate /\ decision.accepted THEN decision.angle ELSE 0
       IN  /\ size' = Turned(size, angle)
           /\ report' = [ exif |-> image.exif, applied |-> angle,
                          needsReview |-> NeedsReview(angle),
                          reason |-> IF ~decision.accepted THEN decision.reason
                                     ELSE IF NeedsReview(angle)
                                     THEN "model_rotation_disabled" ELSE None ]
    /\ step' = "done"
    /\ UNCHANGED <<image, rotate, votes, decision>>

Next == Decode \/ Predict \/ PredictFails \/ Decide \/ Normalize

Spec == Init /\ [][Next]_vars

-----------------------------------------------------------------------------
\* The squares lie in the picture, are not empty, and reach from one end of
\* its longer side to the other: crop never adds black to what is classified.
BoxesSpanPicture ==
    size # None /\ step = "vote" =>
        LET boxes == RegionBoxes(size)
            along(b) == IF size.width >= size.height
                        THEN <<b.left, b.right>> ELSE <<b.top, b.bottom>>
        IN  /\ \A b \in boxes : /\ 0 <= b.left /\ b.left < b.right
                                /\ b.right <= size.width
                                /\ 0 <= b.top /\ b.top < b.bottom
                                /\ b.bottom <= size.height
            /\ \E b \in boxes : along(b)[1] = 0
            /\ \E b \in boxes : along(b)[2] = Longer(size.width, size.height)

\* A picture nobody is asked to look at is as upright as the sure votes say:
\* three of them, all for the turn it was given.
UnreviewedIsUpright ==
    step = "done" /\ ~report.needsReview =>
        LET sure == {v \in DOMAIN votes : votes[v].confidence >= MinConfidence}
        IN  /\ Cardinality(sure) >= 3
            /\ \A v \in sure : votes[v].angle = report.applied
=============================================================================
