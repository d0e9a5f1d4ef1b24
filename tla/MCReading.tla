------------------------------ MODULE MCReading -----------------------------
(***************************************************************************)
(* An instance for TLC of what makes a receipt of a photograph: turning    *)
(* it upright, finding the confidence of its lines, collecting items from  *)
(* them, their categories, and their sums until they are confirmed.  Any   *)
(* result of one may be followed by any input of the next, so each is      *)
(* looked at by itself.                                                    *)
(***************************************************************************)
EXTENDS ItemCategories, TLC

CONSTANTS
    Angles, Confidences, MinConfidence, MaxSide, MaxPixels,
    Texts, Scores, Invalid, MaxFragments,
    MaxLines, MaxNumbers,
    Quantities, Amounts, Tolerance,
    milk, chips, groceries, snacks

VARIABLES
    part,         \* what runs
    image, rotate, size, votes, decision, turned, step,
    found, result, scored, offset, cursor, scores,
    number, ahead, mode, row, discarded, parsed, warnings, done,
    items, total, report, confirmed

turning == <<image, rotate, size, votes, decision, turned, step>>
scoring == <<found, result, scored, offset, cursor, scores>>
parsing == <<number, ahead, mode, row, discarded, parsed, warnings, done>>
summing == <<items, total, report, confirmed>>
categorizing == vars

\* Two names fall under different rules.
MCRule == [name \in Names |-> IF name = milk THEN groceries ELSE snacks]

\* Fragments of one, two and three lines.
MCTexts ==
    { <<" ">>, <<"x">>, <<" ", "x", " ", "x">>, <<"x", "break", "x", " ">>,
      <<"x", "break", "break", "x">> }

\* Rows of a receipt are interchangeable.
ItemSymmetry == Permutations(Items)

Orientation == INSTANCE ImageOrientation WITH report <- turned
Ocr == INSTANCE OcrLines WITH number <- scored
Parser == INSTANCE ItemParser WITH items <- parsed
Sums == INSTANCE ReceiptArithmetic

ASSUME ReadingConstants ==
    /\ Orientation!OrientationConstants
    /\ Ocr!OcrConstants
    /\ Parser!ParserConstants
    /\ Sums!ArithmeticConstants

NoImage == [width |-> 1, height |-> 1, readable |-> FALSE, exif |-> FALSE]

ReadingInit ==
    /\ part \in {"turning", "scoring", "parsing", "categorizing", "summing"}
    /\ part # "turning" => image = NoImage /\ rotate = FALSE
    /\ part # "scoring" => found = <<>>
    /\ part # "categorizing" => item = [i \in Items |-> None]
    /\ part # "summing" => /\ items = [i \in Items |-> None] /\ total = None
                           /\ report = Sums!CheckTotals(items, None)
    /\ Orientation!Init /\ Ocr!Init /\ Parser!Init /\ Init /\ Sums!Init

ReadingNext ==
    /\ UNCHANGED part
    /\ \/ /\ part = "turning" /\ Orientation!Next
          /\ UNCHANGED <<scoring, parsing, categorizing, summing>>
       \/ /\ part = "scoring" /\ Ocr!Next
          /\ UNCHANGED <<turning, parsing, categorizing, summing>>
       \/ /\ part = "parsing" /\ Parser!Next
          /\ UNCHANGED <<turning, scoring, categorizing, summing>>
       \/ /\ part = "categorizing" /\ Next
          /\ UNCHANGED <<turning, scoring, parsing, summing>>
       \/ /\ part = "summing" /\ Sums!Next
          /\ UNCHANGED <<turning, scoring, parsing, categorizing>>

ReadingSpec ==
    ReadingInit
    /\ [][ReadingNext]_<<part, turning, scoring, parsing, categorizing, summing>>

-----------------------------------------------------------------------------
\* The squares shown to the classifier span the picture and lie in it.
BoxesSpanPicture == Orientation!BoxesSpanPicture

\* A picture nobody is asked to look at is as upright as the votes say.
UnreviewedIsUpright == Orientation!UnreviewedIsUpright

\* Every line has the confidence of the fragment it is a line of.
LinesHaveTheirFragment == Ocr!LinesHaveTheirFragment

\* Every item is read from lines of its own.
ItemsAreOfTheirLines == Parser!ItemsAreOfTheirLines

\* What cannot be read is not guessed and not passed over.
UnreadIsReported == Parser!UnreadIsReported

\* Page and button agree with the confirmation at the boundary, and so does
\* the stored report when its figures are those of the receipt.
WarningsForetellRefusal == Sums!WarningsForetellRefusal

\* A confirmed total is near what all items cost.
ConfirmedTotalIsNear == Sums!ConfirmedTotalIsNear
=============================================================================
