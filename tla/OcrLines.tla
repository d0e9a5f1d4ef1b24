------------------------------ MODULE OcrLines ------------------------------
(***************************************************************************)
(* From what the OCR engine found to a confidence for every line of the    *)
(* text: the fragments are joined by line breaks, and a pass over the      *)
(* lines, with a cursor into the fragments, finds those under each line.   *)
(* A fragment may itself hold several lines.                               *)
(*                                                                         *)
(* A text is a sequence of characters: "x", a space or a break.            *)
(***************************************************************************)
EXTENDS Naturals, Sequences, FiniteSets, FiniteSetsExt, SequencesExt

CONSTANTS
    Texts,        \* what the engine may read as one fragment
    Scores,       \* confidences; Invalid stands for one that is none
    Invalid,
    None,
    MaxFragments  \* bound on the fragments found

OcrConstants ==
    /\ \A text \in Texts : text \in Seq({"x", " ", "break"})
    /\ Scores \subseteq Nat
    /\ MaxFragments \in Nat

VARIABLES
    found,        \* rec_texts and rec_scores of the engine
    result,       \* the fragments of OcrResult
    number,       \* the line looked at last, of raw_text
    offset,
    cursor,
    scores

vars == <<found, result, number, offset, cursor, scores>>

Found == [text : Texts, confidence : Scores \cup {Invalid}]

Init ==
    /\ found \in UNION {[1 .. n -> Found] : n \in 0 .. MaxFragments}
    /\ result = None
    /\ number = 0 /\ offset = 0 /\ cursor = 1
    /\ scores = <<>>

-----------------------------------------------------------------------------
Blank(text) == \A i \in DOMAIN text : text[i] # "x"

\* strip() of a text that is not blank
Strip(text) ==
    LET inked == {i \in DOMAIN text : text[i] = "x"}
    IN  SubSeq(text, Min(inked), Max(inked))

\* splitlines() of a text that does not end in a break
LinesOf(text) ==
    FoldLeft(LAMBDA lines, c :
                IF c = "break" THEN Append(lines, <<>>)
                ELSE [lines EXCEPT ![Len(lines)] = Append(@, c)],
             << <<>> >>, text)

RawText(fragments) ==
    FoldLeft(LAMBDA raw, f :
                IF raw = <<>> THEN f.text ELSE raw \o <<"break">> \o f.text,
             <<>>, fragments)

\* The blank fragments are dropped, the others stripped.
Retained(fragments) ==
    FoldLeft(LAMBDA retained, f :
                IF Blank(f.text) THEN retained
                ELSE Append(retained, [f EXCEPT !.text = Strip(@)]),
             <<>>, fragments)

\* recognize: a score that is none fails the recognition, which leaves no
\* result.
Recognize ==
    /\ result = None
    /\ \A i \in DOMAIN found : found[i].confidence # Invalid
    /\ result' = Retained(found)
    /\ UNCHANGED <<found, number, offset, cursor, scores>>

-----------------------------------------------------------------------------
\* slip: the break between two fragments is not counted
SpanWithoutBreak(i) ==
    LET start == MapThenSumSet(LAMBDA j : Len(result[j].text), 1 .. i - 1)
    IN  [start |-> start, end |-> start + Len(result[i].text)]

\* Where fragment i stands in raw_text.
Span(i) ==
    LET start == MapThenSumSet(LAMBDA j : Len(result[j].text) + 1, 1 .. i - 1)
    IN  [start |-> start, end |-> start + Len(result[i].text)]

\* The cursor goes past the fragments that end before the line.
Advanced ==
    Min({i \in cursor .. Len(result) : Span(i).end > offset}
        \cup {Len(result) + 1})

\* From there on, the fragments that begin before its end.
Included(end) ==
    {i \in Advanced .. Len(result) :
        \A j \in Advanced .. i : Span(j).start < end}

Lines == LinesOf(RawText(result))

\* One line of the loop of ocr_line_confidences.
ScoreLine ==
    /\ result # None /\ result # <<>>
    /\ number < Len(Lines)
    /\ LET line == Lines[number + 1]
           end == offset + Len(line)
           included == Included(end)
       IN  /\ scores' = Append(scores,
                 IF ~Blank(line) /\ included # {}
                 THEN Min({result[i].confidence : i \in included})
                 ELSE None)
           /\ offset' = end + 1
    /\ cursor' = Advanced
    /\ number' = number + 1
    /\ UNCHANGED <<found, result>>

Next == Recognize \/ ScoreLine

Spec == Init /\ [][Next]_vars

-----------------------------------------------------------------------------
\* The lines of the text are those of the fragments in turn.
FragmentOfLine ==
    FoldLeft(LAMBDA owners, i :
                owners \o [n \in 1 .. Len(LinesOf(result[i].text)) |-> i],
             <<>>, [i \in 1 .. Len(result) |-> i])

\* Every line has the confidence of the fragment it is a line of: offsets and
\* cursor never drift, whatever breaks the fragments hold.
LinesHaveTheirFragment ==
    result # None =>
        \A n \in 1 .. number :
            ~Blank(Lines[n]) =>
                scores[n] = result[FragmentOfLine[n]].confidence
=============================================================================
