---------------------------- MODULE ReadingProofs ---------------------------
(***************************************************************************)
(* Proofs about what makes a receipt of a photograph, for any pictures,    *)
(* votes, texts, items, rules and amounts: the turn of the picture, the    *)
(* confidence of the lines, the collecting of the items, their categories  *)
(* and their sums, each from an inductive invariant of its own, and that   *)
(* every run of MCReading is a run of each of them.                        *)
(***************************************************************************)
EXTENDS MCReading, FoldLemmas

-----------------------------------------------------------------------------
(***************************************************************************)
(* Turning a picture.  What a vote decides is kept until the report, and   *)
(* what the report says follows from it (Decided).                         *)
(***************************************************************************)
Decided ==
    /\ step \in {"turn", "done"} => decision = Orientation!DecideVotes(votes)
    /\ step = "done" =>
          turned.needsReview
          = (~decision.accepted \/ turned.applied # decision.angle)

OrientationInv ==
    /\ image.width \in Nat \ {0} /\ image.height \in Nat \ {0}
    /\ step \in {"decode", "failed", "vote", "turn", "done"}
    /\ votes \in Seq(Orientation!Vote)
    /\ step = "vote" =>
          size.width \in Nat \ {0} /\ size.height \in Nat \ {0}
    /\ Decided

\* Before any vote nothing is decided.
LEMMA OrientationInit ==
  ASSUME Orientation!Init
  PROVE  OrientationInv
<1>1. votes \in Seq(Orientation!Vote)
  BY DEF Orientation!Init
<1> QED BY <1>1 DEF Orientation!Init, OrientationInv, Decided

\* No step of the orientation lets the mark for review and the turn differ.
LEMMA OrientationNext ==
  ASSUME OrientationInv, [Orientation!Next]_turning
  PROVE  OrientationInv'
<1>1. CASE Orientation!Decode
  BY <1>1 DEF OrientationInv, Decided, Orientation!Decode, Orientation!Fails
<1>2. CASE Orientation!Predict
  <2>1. votes' \in Seq(Orientation!Vote)
    BY <1>2 DEF OrientationInv, Orientation!Predict
  <2> QED BY <1>2, <2>1 DEF OrientationInv, Decided, Orientation!Predict
<1>3. CASE Orientation!PredictFails
  BY <1>3 DEF OrientationInv, Decided, Orientation!PredictFails,
     Orientation!Fails
<1>4. CASE Orientation!Decide
  BY <1>4 DEF OrientationInv, Decided, Orientation!Decide
<1>5. CASE Orientation!Normalize
  <2>1. /\ step = "turn" /\ step' = "done"
        /\ UNCHANGED <<image, votes, decision>>
    BY <1>5 DEF Orientation!Normalize
  <2>2. turned'.needsReview
        = (~decision.accepted \/ turned'.applied # decision.angle)
    BY <1>5 DEF Orientation!Normalize, Orientation!NeedsReview
  <2> QED BY <2>1, <2>2 DEF OrientationInv, Decided
<1>6. CASE UNCHANGED turning
  BY <1>6 DEF OrientationInv, Decided, turning
<1> QED BY <1>1, <1>2, <1>3, <1>4, <1>5, <1>6 DEF Orientation!Next

\* The instance counts like the library.
LEMMA VotesAreCounted ==
  ASSUME NEW S
  PROVE  Orientation!Cardinality(S) = Cardinality(S)
<1>1. \A T : Orientation!IsFiniteSet(T) <=> IsFiniteSet(T)
  BY DEF Orientation!IsFiniteSet, IsFiniteSet
<1> QED BY <1>1 DEF Orientation!Cardinality, Cardinality

\* Three sure votes, and none against them.
LEMMA SureVotes ==
  ASSUME NEW vs \in Seq(Orientation!Vote), Orientation!DecideVotes(vs).accepted
  PROVE  /\ Orientation!Cardinality(Orientation!Confident(vs)) >= 3
         /\ \A v \in Orientation!Confident(vs) :
               vs[v].angle = Orientation!DecideVotes(vs).angle
<1> DEFINE sure == Orientation!Confident(vs)
<1>1. sure \subseteq 1 .. Len(vs) /\ Len(vs) \in Nat
  BY DEF Orientation!Confident
<1>2. IsFiniteSet(sure)
  <2>1. IsFiniteSet(1 .. Len(vs))
    BY <1>1, FS_Interval
  <2> QED BY <1>1, <2>1, FS_Subset
<1>3. /\ Orientation!Cardinality(sure) \in Nat
      /\ Orientation!Cardinality({}) = 0
  BY <1>2, FS_CardinalityType, FS_EmptySet, VotesAreCounted
<1>4. /\ ~\E v, w \in sure : vs[v].angle # vs[w].angle
      /\ ~(Orientation!Cardinality(sure) < 3)
      /\ Orientation!DecideVotes(vs).angle = vs[CHOOSE v \in sure : TRUE].angle
  BY DEF Orientation!DecideVotes
<1> HIDE DEF sure
<1>5. sure # {}
  <2> SUFFICES ASSUME sure = {} PROVE FALSE
    OBVIOUS
  <2>1. Orientation!Cardinality(sure) = 0
    BY <1>3
  <2> QED BY <1>4, <2>1
<1>6. \A v \in sure : vs[v].angle = vs[CHOOSE w \in sure : TRUE].angle
  BY <1>4, <1>5
<1> QED BY <1>3, <1>4, <1>6 DEF sure

\* The orientation's invariant holds of every run of it.
LEMMA OrientationInvariance == Orientation!Spec => []OrientationInv
<1>1. Orientation!vars = turning
  BY DEF Orientation!vars, turning
<1>2. OrientationInv /\ [Orientation!Next]_(Orientation!vars) => OrientationInv'
  BY <1>1, OrientationNext DEF Orientation!vars, turning
<1> QED BY OrientationInit, <1>2, PTL DEF Orientation!Spec

\* Every picture nobody is asked to look at has three votes of the confidence
\* that is configured, all for the turn it was given: a single sure vote for
\* another angle, or a rotation that is switched off, asks for a review.
THEOREM UnreviewedIsAlwaysUpright ==
  Orientation!Spec => []UnreviewedIsUpright
<1>1. OrientationInv => UnreviewedIsUpright
  <2> SUFFICES ASSUME OrientationInv, step = "done", ~turned.needsReview
               PROVE  /\ Orientation!Cardinality(Orientation!Confident(votes)) >= 3
                      /\ \A v \in Orientation!Confident(votes) :
                            votes[v].angle = turned.applied
    BY DEF UnreviewedIsUpright, Orientation!UnreviewedIsUpright,
       Orientation!Confident
  <2>1. /\ decision = Orientation!DecideVotes(votes)
        /\ decision.accepted /\ turned.applied = decision.angle
        /\ votes \in Seq(Orientation!Vote)
    BY DEF OrientationInv, Decided
  <2> QED BY <2>1, SureVotes
<1> QED BY <1>1, OrientationInvariance, PTL

\* round(n / 4) stays between the ends.
LEMMA QuartersBounds ==
  ASSUME NEW m \in Nat, NEW n \in Nat, n <= 4 * m
  PROVE  /\ Orientation!Quarters(n) \in Nat /\ Orientation!Quarters(n) <= m
         /\ n = 0 => Orientation!Quarters(n) = 0
         /\ n = 4 * m => Orientation!Quarters(n) = m
<1>1. PICK q \in Nat, r \in 0 .. 3, p \in 0 .. 1 :
        q = n \div 4 /\ r = n % 4 /\ p = q % 2 /\ n = 4 * q + r
  <2>1. PICK q \in Nat, r \in 0 .. 3 : q = n \div 4 /\ r = n % 4
    OBVIOUS
  <2>2. n = 4 * q + r /\ q % 2 \in 0 .. 1
    BY <2>1
  <2> QED BY <2>1, <2>2
<1>2. q <= m /\ (q = m => r = 0) /\ (n = 4 * m => q = m)
  BY <1>1
<1>3. Orientation!Quarters(n) = IF r < 2 THEN q
                                ELSE IF r > 2 THEN q + 1 ELSE q + p
  BY <1>1 DEF Orientation!Quarters
<1> QED BY <1>1, <1>2, <1>3

\* For pictures of every size, upright or not.
LEMMA BoxesOfSize ==
  ASSUME size.width \in Nat \ {0}, size.height \in Nat \ {0}
  PROVE  LET boxes == Orientation!RegionBoxes(size)
             along(b) == IF size.width >= size.height
                         THEN <<b.left, b.right>> ELSE <<b.top, b.bottom>>
         IN  /\ \A b \in boxes : /\ 0 <= b.left /\ b.left < b.right
                                 /\ b.right <= size.width
                                 /\ 0 <= b.top /\ b.top < b.bottom
                                 /\ b.bottom <= size.height
             /\ \E b \in boxes : along(b)[1] = 0
             /\ \E b \in boxes :
                   along(b)[2] = Orientation!Longer(size.width, size.height)
<1>1. PICK w \in Nat \ {0}, h \in Nat \ {0} : w = size.width /\ h = size.height
  OBVIOUS
<1> DEFINE long == Orientation!Longer(w, h)
           short == Orientation!Shorter(w, h)
           side == Orientation!Longer(1, short \div 2)
           free == long - side
           starts == Orientation!StartsOf(free)
           box(start) ==
             IF w >= h
             THEN Orientation!Box(start, (h - side) \div 2, side)
             ELSE Orientation!Box((w - side) \div 2, start, side)
<1>2. /\ long \in Nat /\ short \in Nat /\ short >= 1 /\ short <= long
      /\ w >= h => long = w /\ short = h
      /\ ~(w >= h) => long = h /\ short = w
  BY DEF Orientation!Longer, Orientation!Shorter
<1>3. Orientation!RegionBoxes(size) = {box(starts[k]) : k \in 1 .. 5}
  BY <1>1 DEF Orientation!RegionBoxes
<1> HIDE DEF long, short
<1>4. side \in Nat /\ side >= 1 /\ side <= short /\ free \in Nat
  BY <1>2 DEF Orientation!Longer
<1> HIDE DEF side
<1>5. \A k \in 1 .. 5 : starts[k] = Orientation!Quarters((k - 1) * free)
  BY DEF Orientation!StartsOf
<1>6. PICK f \in Nat : f = free
  BY <1>4
<1> HIDE DEF free, starts
<1>7. ASSUME NEW k \in 1 .. 5
      PROVE  starts[k] \in Nat /\ starts[k] <= free
  <2>1. (k - 1) * free \in Nat /\ (k - 1) * free <= 4 * f
    <3>1. k = 1 \/ k = 2 \/ k = 3 \/ k = 4 \/ k = 5
      OBVIOUS
    <3> QED BY <1>6, <3>1
  <2>2. PICK n \in Nat : n = (k - 1) * free
    BY <2>1
  <2>3. Orientation!Quarters(n) \in Nat /\ Orientation!Quarters(n) <= f
    BY <2>1, <2>2, QuartersBounds
  <2> QED BY <1>5, <1>6, <2>2, <2>3
<1>8. starts[1] = 0 /\ starts[5] = free
  <2>1. (1 - 1) * free = 0 /\ (5 - 1) * free = 4 * f
    BY <1>6
  <2>2. Orientation!Quarters(0) = 0
    BY <1>6, QuartersBounds
  <2>3. PICK n \in Nat : n = 4 * f
    OBVIOUS
  <2>4. Orientation!Quarters(n) = f
    BY <2>3, QuartersBounds
  <2> QED BY <1>5, <1>6, <2>1, <2>2, <2>3, <2>4
<1>9. /\ (h - side) \div 2 \in Int /\ (w - side) \div 2 \in Int
      /\ w >= h => 0 <= (h - side) \div 2 /\ (h - side) \div 2 + side <= h
      /\ ~(w >= h) => 0 <= (w - side) \div 2 /\ (w - side) \div 2 + side <= w
  BY <1>2, <1>4
<1>10. free = long - side
  BY DEF free
<1>11. ASSUME NEW s \in Nat, s <= free
       PROVE  /\ 0 <= box(s).left /\ box(s).left < box(s).right
              /\ box(s).right <= w
              /\ 0 <= box(s).top /\ box(s).top < box(s).bottom
              /\ box(s).bottom <= h
              /\ w >= h => box(s).left = s /\ box(s).right = s + side
              /\ ~(w >= h) => box(s).top = s /\ box(s).bottom = s + side
  <2>1. CASE w >= h
    <3>1. /\ box(s).left = s /\ box(s).right = s + side
          /\ box(s).top = (h - side) \div 2
          /\ box(s).bottom = (h - side) \div 2 + side
      BY <2>1 DEF Orientation!Box
    <3> QED BY <1>2, <1>4, <1>6, <1>9, <1>10, <1>11, <2>1, <3>1
  <2>2. CASE ~(w >= h)
    <3>1. /\ box(s).top = s /\ box(s).bottom = s + side
          /\ box(s).left = (w - side) \div 2
          /\ box(s).right = (w - side) \div 2 + side
      BY <2>2 DEF Orientation!Box
    <3> QED BY <1>2, <1>4, <1>6, <1>9, <1>10, <1>11, <2>2, <3>1
  <2> QED BY <2>1, <2>2
<1>12. 0 \in Nat /\ 0 <= free /\ free \in Nat /\ free <= free
       /\ free + side = long
  BY <1>2, <1>4, <1>6, <1>10
<1> DEFINE along(b) == IF w >= h THEN <<b.left, b.right>> ELSE <<b.top, b.bottom>>
<1>13. along(box(0))[1] = 0 /\ along(box(free))[2] = long
  BY <1>11, <1>12
<1> HIDE DEF box
<1>14. /\ \A b \in {box(starts[k]) : k \in 1 .. 5} :
             /\ 0 <= b.left /\ b.left < b.right /\ b.right <= w
             /\ 0 <= b.top /\ b.top < b.bottom /\ b.bottom <= h
       /\ \E b \in {box(starts[k]) : k \in 1 .. 5} : along(b)[1] = 0
       /\ \E b \in {box(starts[k]) : k \in 1 .. 5} : along(b)[2] = long
  BY <1>7, <1>8, <1>11, <1>13
<1> QED BY <1>1, <1>3, <1>14 DEF long

\* What is shown to the classifier is always a part of the picture, from one
\* end of its longer side to the other: rounding leaves nothing out and adds
\* no border, for whatever size comes in.
THEOREM BoxesAlwaysSpanPicture ==
  Orientation!Spec => []BoxesSpanPicture
<1>1. OrientationInv => BoxesSpanPicture
  BY BoxesOfSize
     DEF OrientationInv, BoxesSpanPicture, Orientation!BoxesSpanPicture
<1> QED BY <1>1, OrientationInvariance, PTL

-----------------------------------------------------------------------------
(***************************************************************************)
(* The confidence of a line.  Joining, splitting and the fragments of the  *)
(* lines are folds, each shown to take its steps on every sequence; by     *)
(* induction every line stands inside its fragment (LinesStand), so the    *)
(* loop, when it is at a line, has not gone past its fragment (AtLine).    *)
(***************************************************************************)
Char == {"x", " ", "break"}
Text == Seq(Char)
Broken == Seq(Text) \ {<<>>}

\* One character more, as LinesOf reads it.
LineStep ==
    [a \in Broken \X Char |->
        IF a[2] = "break" THEN Append(a[1], <<>>)
        ELSE [a[1] EXCEPT ![Len(a[1])] = Append(@, a[2])]]

\* Splitting a text keeps at least one line, the last of which still grows.
LEMMA LineStepTypes ==
  LineStep \in [Broken \X Char -> Broken] /\ << <<>> >> \in Broken
<1>1. ASSUME NEW lines \in Broken, NEW c \in Char
      PROVE  /\ Append(lines, <<>>) \in Broken
             /\ [lines EXCEPT ![Len(lines)] = Append(@, c)] \in Broken
  <2>1. /\ Len(lines) \in Nat \ {0} /\ lines \in Seq(Text)
        /\ lines[Len(lines)] \in Text /\ <<>> \in Text
    BY DEF Broken, Text
  <2>2. Append(lines[Len(lines)], c) \in Text
    BY <2>1 DEF Text
  <2>3. [lines EXCEPT ![Len(lines)] = Append(@, c)] \in Seq(Text)
    BY <2>1, <2>2
  <2>4. Len([lines EXCEPT ![Len(lines)] = Append(@, c)]) = Len(lines)
    BY <2>1, <2>2
  <2>5. Append(lines, <<>>) \in Seq(Text) /\ Len(Append(lines, <<>>)) = Len(lines) + 1
    BY <2>1
  <2> QED BY <2>1, <2>3, <2>4, <2>5 DEF Broken
<1>2. << <<>> >> \in Broken
  BY DEF Broken, Text
<1> QED BY <1>1, <1>2 DEF LineStep

\* The lines of a text are what its characters fold to.
LEMMA LinesAreGathered ==
  ASSUME NEW text \in Text
  PROVE  Ocr!LinesOf(text) = Gathered(LineStep, << <<>> >>, text)
<1> DEFINE base == << <<>> >>
           D == DOMAIN text
           Before(g, p) == g[p \ {Max(p)}]
           Of(g) == g = [p \in SUBSET D |->
              IF p = {} THEN base
              ELSE IF text[Max(p)] = "break" THEN Append(g[p \ {Max(p)}], <<>>)
              ELSE [g[p \ {Max(p)}] EXCEPT ![Len(g[p \ {Max(p)}])] =
                       Append(@, text[Max(p)])]]
           h == CHOOSE g : Of(g)
<1>1. Ocr!LinesOf(text) = h[D]
  BY DEF Ocr!LinesOf, Ocr!FoldLeft, Ocr!MapThenFoldSet, Ocr!Max, Max
<1>2. text \in Seq(Char) /\ D = 1 .. Len(text) /\ Len(text) \in Nat
  BY DEF Text
<1>3. ASSUME NEW p \in SUBSET D, p # {}
      PROVE  /\ p \ {Max(p)} \in SUBSET D /\ Max(p) \in D
             /\ text[Max(p)] \in Char
  BY <1>2, <1>3, LastElement
<1>4. PICK g \in [SUBSET D -> Broken] : Gathering(LineStep, base, text, g)
  BY <1>2, LineStepTypes, GatheringExists
<1>5. Of(g)
  <2>1. ASSUME NEW p \in SUBSET D, p # {}
        PROVE  g[p] = IF text[Max(p)] = "break" THEN Append(g[p \ {Max(p)}], <<>>)
                      ELSE [g[p \ {Max(p)}] EXCEPT ![Len(g[p \ {Max(p)}])] =
                               Append(@, text[Max(p)])]
    <3>1. g[p] = LineStep[<<g[p \ {Max(p)}], text[Max(p)]>>]
      BY <1>4, <2>1 DEF Gathering
    <3>2. g[p \ {Max(p)}] \in Broken
      BY <1>3, <1>4, <2>1
    <3> QED BY <1>3, <2>1, <3>1, <3>2 DEF LineStep
  <2>2. g[{}] = base
    BY <1>4 DEF Gathering
  <2> QED BY <2>1, <2>2
<1>6. Of(h)
  BY <1>5
<1>7. StepsBy(LineStep, base, Broken, text, h)
  <2>1. ASSUME NEW p \in SUBSET D, p # {}, h[p \ {Max(p)}] \in Broken
        PROVE  h[p] = LineStep[<<h[p \ {Max(p)}], text[Max(p)]>>]
    BY <1>3, <1>6, <2>1 DEF LineStep
  <2> QED BY <1>6, <2>1 DEF StepsBy
<1> HIDE DEF h
<1>8. h[D] = Gathered(LineStep, base, text)
  <2>1. StepsIn(LineStep, base, Broken, Char, text)
    BY <1>2, LineStepTypes DEF StepsIn
  <2> QED BY <1>7, <2>1, GatheredIsChosen
<1> QED BY <1>1, <1>8

\* What LinesOf does with nothing, and with one character more.
LEMMA LinesOfNone == Ocr!LinesOf(<<>>) = << <<>> >>
<1>1. <<>> \in Text /\ Char # {}
  BY DEF Text, Char
<1> QED BY <1>1, LinesAreGathered, LineStepTypes, GatheredOfNone

\* A text with one more character has the lines of that text, taken one step
\* further.
LEMMA LinesOfOneMore ==
  ASSUME NEW text \in Text, NEW c \in Char
  PROVE  /\ Append(text, c) \in Text
         /\ Ocr!LinesOf(text) \in Broken
         /\ Ocr!LinesOf(Append(text, c))
            = LineStep[<<Ocr!LinesOf(text), c>>]
<1>1. text \in Seq(Char) /\ Append(text, c) \in Text
  BY DEF Text
<1>2. PICK b \in Broken : b = << <<>> >>
  BY LineStepTypes
<1>3. StepsIn(LineStep, b, Broken, Char, text)
  BY <1>1, LineStepTypes DEF StepsIn
<1>4. /\ Gathered(LineStep, b, text) \in Broken
      /\ Gathered(LineStep, b, Append(text, c))
         = LineStep[<<Gathered(LineStep, b, text), c>>]
  BY <1>3, GatheredOfOneMore
<1>5. /\ Ocr!LinesOf(text) = Gathered(LineStep, b, text)
      /\ Ocr!LinesOf(Append(text, c)) = Gathered(LineStep, b, Append(text, c))
  BY <1>1, <1>2, LinesAreGathered
<1> QED BY <1>1, <1>4, <1>5

\* Every text, the empty one too, has at least one line.
LEMMA LinesTypes ==
  ASSUME NEW text \in Text
  PROVE  Ocr!LinesOf(text) \in Broken
BY LinesOfOneMore DEF Char

\* The lines of two texts with a break between them are those of the first
\* and then those of the second.
LEMMA LinesOfJoined ==
  ASSUME NEW a \in Text, NEW b \in Text
  PROVE  Ocr!LinesOf(a \o <<"break">> \o b) = Ocr!LinesOf(a) \o Ocr!LinesOf(b)
<1> DEFINE p == a \o <<"break">>
           G == {t \in Text : Ocr!LinesOf(p \o t) = Ocr!LinesOf(a) \o Ocr!LinesOf(t)}
<1>1. p \in Text /\ p = Append(a, "break") /\ "break" \in Char
  <2>1. /\ "break" \in Char /\ a \in Seq(Char)
    BY DEF Text, Char
  <2>2. /\ p = Append(a, "break") /\ Append(a, "break") \in Seq(Char)
    BY <2>1, JoinedOneMore
  <2> QED BY <2>1, <2>2 DEF Text
<1>2. <<>> \in G
  <2>1. Ocr!LinesOf(p) = Append(Ocr!LinesOf(a), <<>>)
    BY <1>1, LinesOfOneMore DEF LineStep
  <2>2. Append(Ocr!LinesOf(a), <<>>) = Ocr!LinesOf(a) \o << <<>> >>
    BY LinesTypes DEF Broken
  <2>3. p \o <<>> = p /\ <<>> \in Text
    BY <1>1 DEF Text
  <2> QED BY <2>1, <2>2, <2>3, LinesOfNone
<1>3. ASSUME NEW t \in Text, NEW c \in Char, t \in G
      PROVE  Append(t, c) \in G
  <2> DEFINE la == Ocr!LinesOf(a)
             lt == Ocr!LinesOf(t)
  <2>1. /\ p \o t \in Text /\ Append(t, c) \in Text
        /\ p \o Append(t, c) = Append(p \o t, c)
    BY <1>1 DEF Text
  <2>2. la \in Broken /\ lt \in Broken /\ la \o lt \in Broken
    <3>1. la \in Broken /\ lt \in Broken
      BY LinesTypes
    <3> HIDE DEF la, lt
    <3> QED BY <3>1 DEF Broken
  <2>3. Ocr!LinesOf(Append(t, c)) = LineStep[<<lt, c>>]
    BY LinesOfOneMore
  <2>4. Ocr!LinesOf(p \o Append(t, c)) = LineStep[<<la \o lt, c>>]
    BY <1>3, <2>1, LinesOfOneMore
  <2> HIDE DEF la, lt
  <2>5. LineStep[<<la \o lt, c>>] = la \o LineStep[<<lt, c>>]
    <3>1. CASE c = "break"
      <4>1. Append(la \o lt, <<>>) = la \o Append(lt, <<>>)
        <5>1. la \in Seq(Text) /\ lt \in Seq(Text) /\ <<>> \in Text
          BY <2>2 DEF Broken, Text
        <5> QED BY <5>1, JoinedOneMore
      <4> QED BY <2>2, <3>1, <4>1 DEF LineStep
    <3>2. CASE c # "break"
      <4> DEFINE last == lt[Len(lt)]
      <4>1. /\ la \in Seq(Text) /\ lt \in Seq(Text) /\ lt # <<>>
            /\ Append(last, c) \in Text
        <5>1. last \in Text
          BY <2>2 DEF Broken
        <5> QED BY <2>2, <5>1 DEF Broken, Text
      <4>2. PICK x \in Text : x = Append(last, c)
        BY <4>1
      <4>3. /\ (la \o lt)[Len(la \o lt)] = last
            /\ [la \o lt EXCEPT ![Len(la \o lt)] = x]
               = la \o [lt EXCEPT ![Len(lt)] = x]
        BY <4>1, JoinedOtherLast
      <4>4. LineStep[<<la \o lt, c>>] = [la \o lt EXCEPT ![Len(la \o lt)] = x]
        BY <2>2, <3>2, <4>2, <4>3 DEF LineStep
      <4>5. LineStep[<<lt, c>>] = [lt EXCEPT ![Len(lt)] = x]
        BY <2>2, <3>2, <4>2 DEF LineStep
      <4> QED BY <4>3, <4>4, <4>5
    <3> QED BY <3>1, <3>2
  <2>6. Ocr!LinesOf(p \o Append(t, c)) = la \o Ocr!LinesOf(Append(t, c))
    BY <2>3, <2>4, <2>5
  <2> QED BY <2>1, <2>6 DEF la
<1>4. Text \subseteq G
  <2>1. /\ <<>> \in G
        /\ \A t \in Seq(Char) : \A c \in Char : t \in G => Append(t, c) \in G
    BY <1>2, <1>3 DEF Text
  <2> HIDE DEF G
  <2>2. Seq(Char) \subseteq G
    BY <2>1, SequenceInduction
  <2> QED BY <2>2 DEF Text
<1> QED BY <1>4

\* Line m begins at s[m], if every line is followed by a break; the last entry
\* is where another line would begin.
Laid(lines, s) ==
    /\ s \in [1 .. Len(lines) + 1 -> Nat]
    /\ s[1] = 0
    /\ \A m \in 1 .. Len(lines) :
          /\ s[m + 1] = s[m] + Len(lines[m]) + 1
          /\ s[m + 1] <= s[Len(lines) + 1]

\* The lines of a text fill it.
LEMMA LinesAreLaid ==
  ASSUME NEW text \in Text
  PROVE  \E s : /\ Laid(Ocr!LinesOf(text), s)
                /\ s[Len(Ocr!LinesOf(text)) + 1] = Len(text) + 1
<1> DEFINE Fill(t, s) == /\ Laid(Ocr!LinesOf(t), s)
                         /\ s[Len(Ocr!LinesOf(t)) + 1] = Len(t) + 1
           G == {t \in Text : \E s : Fill(t, s)}
<1>1. <<>> \in G
  <2> DEFINE s == [m \in 1 .. 2 |-> IF m = 1 THEN 0 ELSE 1]
  <2>1. Len(<< <<>> >>) = 1 /\ << <<>> >>[1] = <<>> /\ Len(<<>>) = 0
    OBVIOUS
  <2>2. Laid(<< <<>> >>, s) /\ s[2] = 1
    BY <2>1 DEF Laid
  <2> HIDE DEF s
  <2>3. Fill(<<>>, s)
    <3>1. PICK l : l = << <<>> >>
      OBVIOUS
    <3>2. Laid(l, s) /\ s[Len(l) + 1] = 1 /\ Len(<<>>) + 1 = 1
      BY <2>1, <2>2, <3>1
    <3>3. Ocr!LinesOf(<<>>) = l
      BY <3>1, LinesOfNone
    <3> QED BY <3>2, <3>3
  <2>4. <<>> \in Text
    BY DEF Text
  <2> QED BY <2>3, <2>4
<1>2. ASSUME NEW t \in Text, NEW c \in Char, t \in G
      PROVE  Append(t, c) \in G
  <2> DEFINE lines == Ocr!LinesOf(t)
             more == Ocr!LinesOf(Append(t, c))
  <2>1. PICK s : Fill(t, s)
    BY <1>2
  <2>2. /\ lines \in Seq(Text) /\ Len(lines) \in Nat \ {0}
        /\ more = LineStep[<<lines, c>>] /\ lines \in Broken
        /\ Append(t, c) \in Text /\ Len(Append(t, c)) = Len(t) + 1
        /\ Len(t) \in Nat
    BY LinesOfOneMore DEF Broken, Text
  <2>3. PICK n \in Nat \ {0} : n = Len(lines)
    BY <2>2
  <2>4. /\ s \in [1 .. n + 1 -> Nat] /\ s[1] = 0 /\ s[n + 1] = Len(t) + 1
        /\ \A m \in 1 .. n : /\ s[m + 1] = s[m] + Len(lines[m]) + 1
                             /\ s[m + 1] <= s[n + 1]
    BY <2>1, <2>3 DEF Laid
  <2> HIDE DEF lines, more
  <2>5. \A m \in 1 .. n : lines[m] \in Text /\ Len(lines[m]) \in Nat
    BY <2>2, <2>3 DEF Text
  <2>6. CASE c = "break"
    <3>1. /\ more = Append(lines, <<>>) /\ Len(more) = n + 1
          /\ \A m \in 1 .. n + 1 :
                more[m] = IF m <= n THEN lines[m] ELSE <<>>
      BY <2>2, <2>3, <2>6 DEF LineStep
    <3> DEFINE r == [m \in 1 .. n + 2 |-> IF m <= n + 1 THEN s[m] ELSE s[n + 1] + 1]
    <3>2. r \in [1 .. n + 2 -> Nat] /\ r[1] = 0 /\ r[n + 2] = s[n + 1] + 1
      BY <2>3, <2>4
    <3>3. ASSUME NEW m \in 1 .. n + 1
          PROVE  r[m + 1] = r[m] + Len(more[m]) + 1 /\ r[m + 1] <= r[n + 2]
      <4>1. CASE m <= n
        BY <2>3, <2>4, <2>5, <3>1, <4>1
      <4>2. CASE m = n + 1
        BY <2>3, <2>4, <2>5, <3>1, <4>2
      <4> QED BY <2>3, <4>1, <4>2
    <3> HIDE DEF r
    <3>4. Laid(more, r) /\ r[Len(more) + 1] = Len(Append(t, c)) + 1
      BY <2>2, <2>3, <2>4, <3>1, <3>2, <3>3 DEF Laid
    <3> QED BY <2>2, <3>4 DEF more
  <2>7. CASE c # "break"
    <3>1. /\ Len(more) = n
          /\ \A m \in 1 .. n :
                Len(more[m]) = IF m = n THEN Len(lines[m]) + 1 ELSE Len(lines[m])
      <4>1. more = [lines EXCEPT ![n] = Append(@, c)]
        BY <2>2, <2>3, <2>7 DEF LineStep
      <4>2. Len(Append(lines[n], c)) = Len(lines[n]) + 1
        BY <2>3, <2>5 DEF Text
      <4> QED BY <2>2, <2>3, <4>1, <4>2
    <3> DEFINE r == [m \in 1 .. n + 1 |-> IF m <= n THEN s[m] ELSE s[n + 1] + 1]
    <3>2. r \in [1 .. n + 1 -> Nat] /\ r[1] = 0 /\ r[n + 1] = s[n + 1] + 1
      BY <2>3, <2>4
    <3>3. ASSUME NEW m \in 1 .. n
          PROVE  r[m + 1] = r[m] + Len(more[m]) + 1 /\ r[m + 1] <= r[n + 1]
      <4>1. /\ m + 1 \in 1 .. n + 1 /\ m \in 1 .. n + 1
            /\ m + 1 <= n <=> m < n /\ m <= n
            /\ s[m] \in Nat /\ s[m + 1] \in Nat /\ s[n + 1] \in Nat
            /\ Len(lines[m]) \in Nat
        <5>1. /\ m + 1 \in 1 .. n + 1 /\ m \in 1 .. n + 1
              /\ m + 1 <= n <=> m < n /\ m <= n /\ n + 1 \in 1 .. n + 1
          BY <2>3
        <5> QED BY <2>4, <2>5, <5>1
      <4>2. r[m] = s[m] /\ r[m + 1] = IF m < n THEN s[m + 1] ELSE s[n + 1] + 1
        BY <4>1
      <4>3. r[n + 1] = s[n + 1] + 1
        BY <3>2
      <4>4. s[m + 1] = s[m] + Len(lines[m]) + 1 /\ s[m + 1] <= s[n + 1]
        BY <2>4
      <4>5. CASE m < n
        <5>1. Len(more[m]) = Len(lines[m])
          BY <3>1, <4>5
        <5> HIDE DEF r
        <5> QED BY <4>1, <4>2, <4>3, <4>4, <4>5, <5>1
      <4>6. CASE m = n
        <5>1. Len(more[m]) = Len(lines[m]) + 1
          BY <3>1, <4>6
        <5> HIDE DEF r
        <5> QED BY <4>1, <4>2, <4>3, <4>4, <4>6, <5>1
      <4> QED BY <2>3, <4>5, <4>6
    <3> HIDE DEF r
    <3>4. Laid(more, r) /\ r[Len(more) + 1] = Len(Append(t, c)) + 1
      BY <2>2, <2>3, <2>4, <3>1, <3>2, <3>3 DEF Laid
    <3> QED BY <2>2, <3>4 DEF more
  <2> QED BY <2>6, <2>7
<1>3. Text \subseteq G
  <2>1. /\ <<>> \in G
        /\ \A t \in Seq(Char) : \A c \in Char : t \in G => Append(t, c) \in G
    BY <1>1, <1>2 DEF Text
  <2> HIDE DEF G
  <2>2. Seq(Char) \subseteq G
    BY <2>1, SequenceInduction
  <2> QED BY <2>2 DEF Text
<1> QED BY <1>3

\* What recognize accepts, and what it makes of it.
Accepted == {f \in Ocr!Found : f.confidence # Invalid}
Fragment == [text : Text \ {<<>>}, confidence : Scores]

\* A text that is not blank has ink to be stripped to.
LEMMA StrippedHasInk ==
  ASSUME NEW text \in Text, ~Ocr!Blank(text)
  PROVE  Ocr!Strip(text) \in Text \ {<<>>}
<1> DEFINE inked == {i \in DOMAIN text : text[i] = "x"}
           a == Ocr!Min(inked)
           b == Ocr!Max(inked)
<1>1. DOMAIN text = 1 .. Len(text) /\ Len(text) \in Nat /\ text \in Seq(Char)
  BY DEF Text
<1>2. inked \in SUBSET (1 .. Len(text)) /\ inked # {}
  BY <1>1 DEF Ocr!Blank
<1>3. b \in inked /\ \A i \in inked : i <= b
  <2>1. \A s : Ocr!Max(s) = Max(s)
    BY DEF Ocr!Max, Max
  <2> HIDE DEF inked
  <2> QED BY <1>1, <1>2, <2>1, LastPlace
<1>4. a \in inked
  <2>1. inked \in SUBSET Nat
    BY <1>2
  <2>2. PICK x \in inked : \A y \in inked : ~(y < x)
    BY <1>2, <2>1, LeastNumber
  <2>3. \A y \in inked : x <= y
    BY <2>1, <2>2
  <2> HIDE DEF inked
  <2> QED BY <2>3 DEF Ocr!Min
<1> HIDE DEF a, b
<1>5. a \in 1 .. Len(text) /\ b \in 1 .. Len(text) /\ a <= b
  BY <1>2, <1>3, <1>4
<1>6. \A i \in a .. b : text[i] \in Char
  BY <1>1, <1>5
<1>7. SubSeq(text, a, b) \in Seq(Char) /\ Len(SubSeq(text, a, b)) = b - a + 1
  BY <1>5, <1>6, SubSeqProperties
<1>8. SubSeq(text, a, b) # <<>>
  BY <1>5, <1>7
<1> QED BY <1>7, <1>8 DEF Ocr!Strip, Text, a, b

\* One fragment more, as recognize takes it.
RetainStep ==
    [a \in Seq(Fragment) \X Accepted |->
        IF Ocr!Blank(a[2].text) THEN a[1]
        ELSE Append(a[1], [a[2] EXCEPT !.text = Ocr!Strip(@)])]

\* What is kept of the fragments found is a text that is not blank, with the
\* confidence it was found with.
LEMMA RetainStepTypes ==
  RetainStep \in [Seq(Fragment) \X Accepted -> Seq(Fragment)]
<1>1. ASSUME NEW f \in Accepted, ~Ocr!Blank(f.text)
      PROVE  [f EXCEPT !.text = Ocr!Strip(@)] \in Fragment
  <2>1. /\ f = [text |-> f.text, confidence |-> f.confidence]
        /\ f.text \in Text /\ f.confidence \in Scores
    BY ReadingConstants DEF Accepted, Ocr!Found, Ocr!OcrConstants, Text, Char
  <2>2. Ocr!Strip(f.text) \in Text \ {<<>>}
    BY <1>1, <2>1, StrippedHasInk
  <2>3. [f EXCEPT !.text = Ocr!Strip(@)]
        = [text |-> Ocr!Strip(f.text), confidence |-> f.confidence]
    BY <2>1
  <2> QED BY <2>1, <2>2, <2>3 DEF Fragment
<1>2. ASSUME NEW s \in Seq(Fragment), NEW f \in Accepted
      PROVE  (IF Ocr!Blank(f.text) THEN s
              ELSE Append(s, [f EXCEPT !.text = Ocr!Strip(@)])) \in Seq(Fragment)
  <2>1. CASE ~Ocr!Blank(f.text)
    <3>1. PICK g \in Fragment : g = [f EXCEPT !.text = Ocr!Strip(@)]
      BY <1>1, <2>1
    <3>2. Append(s, g) \in Seq(Fragment)
      OBVIOUS
    <3> QED BY <2>1, <3>1, <3>2
  <2> QED BY <2>1
<1> QED BY <1>2 DEF RetainStep

\* What is retained has a text and a confidence.
LEMMA RetainedTypes ==
  ASSUME NEW fragments \in Seq(Accepted)
  PROVE  Ocr!Retained(fragments) \in Seq(Fragment)
<1> DEFINE D == DOMAIN fragments
           Of(g) == g = [p \in SUBSET D |->
              IF p = {} THEN <<>>
              ELSE IF Ocr!Blank(fragments[Max(p)].text) THEN g[p \ {Max(p)}]
              ELSE Append(g[p \ {Max(p)}],
                          [fragments[Max(p)] EXCEPT !.text = Ocr!Strip(@)])]
           h == CHOOSE g : Of(g)
<1>1. Ocr!Retained(fragments) = h[D]
  BY DEF Ocr!Retained, Ocr!FoldLeft, Ocr!MapThenFoldSet, Ocr!Max, Max
<1>2. <<>> \in Seq(Fragment)
  OBVIOUS
<1>3. ASSUME NEW p \in SUBSET D, p # {}
      PROVE  /\ p \ {Max(p)} \in SUBSET D /\ Max(p) \in D
             /\ fragments[Max(p)] \in Accepted
  BY <1>3, LastElement
<1>4. PICK g \in [SUBSET D -> Seq(Fragment)] :
         Gathering(RetainStep, <<>>, fragments, g)
  BY <1>2, RetainStepTypes, GatheringExists
<1>5. Of(g)
  <2>1. ASSUME NEW p \in SUBSET D, p # {}
        PROVE  g[p] = IF Ocr!Blank(fragments[Max(p)].text) THEN g[p \ {Max(p)}]
                      ELSE Append(g[p \ {Max(p)}],
                              [fragments[Max(p)] EXCEPT !.text = Ocr!Strip(@)])
    <3>1. g[p] = RetainStep[<<g[p \ {Max(p)}], fragments[Max(p)]>>]
      BY <1>4, <2>1 DEF Gathering
    <3>2. g[p \ {Max(p)}] \in Seq(Fragment)
      BY <1>3, <1>4, <2>1
    <3> QED BY <1>3, <2>1, <3>1, <3>2 DEF RetainStep
  <2>2. g[{}] = <<>>
    BY <1>4 DEF Gathering
  <2> QED BY <2>1, <2>2
<1>6. Of(h)
  BY <1>5
<1>7. StepsBy(RetainStep, <<>>, Seq(Fragment), fragments, h)
  <2>1. ASSUME NEW p \in SUBSET D, p # {}, h[p \ {Max(p)}] \in Seq(Fragment)
        PROVE  h[p] = RetainStep[<<h[p \ {Max(p)}], fragments[Max(p)]>>]
    BY <1>3, <1>6, <2>1 DEF RetainStep
  <2> QED BY <1>6, <2>1 DEF StepsBy
<1> HIDE DEF h
<1>8. StepsIn(RetainStep, <<>>, Seq(Fragment), Accepted, fragments)
  BY <1>2, RetainStepTypes DEF StepsIn
<1>9. h[D] \in Seq(Fragment)
  BY <1>7, <1>8, GatheredIsChosen
<1> QED BY <1>1, <1>9

\* One fragment more of the text.
JoinStep ==
    [a \in Text \X Fragment |->
        IF a[1] = <<>> THEN a[2].text ELSE a[1] \o <<"break">> \o a[2].text]

\* Joining a fragment to a text gives a text.
LEMMA JoinStepTypes ==
  JoinStep \in [Text \X Fragment -> Text] /\ <<>> \in Text
<1>1. ASSUME NEW raw \in Text, NEW f \in Fragment
      PROVE  f.text \in Text /\ raw \o <<"break">> \o f.text \in Text
  <2>1. f.text \in Text /\ <<"break">> \in Text
    <3>1. f.text \in Text
      BY DEF Fragment
    <3>2. "break" \in Char
      BY DEF Char
    <3>3. <<"break">> \in Seq(Char)
      BY <3>2
    <3> QED BY <3>1, <3>3 DEF Text
  <2>2. \A a, b \in Text : a \o b \in Text
    BY DEF Text
  <2> QED BY <2>1, <2>2
<1>2. <<>> \in Text
  BY DEF Text
<1> QED BY <1>1, <1>2 DEF JoinStep

\* The text is what the fragments fold to.
LEMMA RawTextIsGathered ==
  ASSUME NEW fragments \in Seq(Fragment)
  PROVE  Ocr!RawText(fragments) = Gathered(JoinStep, <<>>, fragments)
<1> DEFINE D == DOMAIN fragments
           Of(g) == g = [p \in SUBSET D |->
              IF p = {} THEN <<>>
              ELSE IF g[p \ {Max(p)}] = <<>> THEN fragments[Max(p)].text
              ELSE g[p \ {Max(p)}] \o <<"break">> \o fragments[Max(p)].text]
           h == CHOOSE g : Of(g)
<1>1. Ocr!RawText(fragments) = h[D]
  BY DEF Ocr!RawText, Ocr!FoldLeft, Ocr!MapThenFoldSet, Ocr!Max, Max
<1>2. ASSUME NEW p \in SUBSET D, p # {}
      PROVE  /\ p \ {Max(p)} \in SUBSET D /\ Max(p) \in D
             /\ fragments[Max(p)] \in Fragment
  BY <1>2, LastElement
<1>3. PICK g \in [SUBSET D -> Text] : Gathering(JoinStep, <<>>, fragments, g)
  BY JoinStepTypes, GatheringExists
<1>4. Of(g)
  <2>1. ASSUME NEW p \in SUBSET D, p # {}
        PROVE  g[p] = IF g[p \ {Max(p)}] = <<>> THEN fragments[Max(p)].text
                      ELSE g[p \ {Max(p)}] \o <<"break">> \o fragments[Max(p)].text
    <3>1. g[p] = JoinStep[<<g[p \ {Max(p)}], fragments[Max(p)]>>]
      BY <1>3, <2>1 DEF Gathering
    <3>2. g[p \ {Max(p)}] \in Text
      BY <1>2, <1>3, <2>1
    <3> QED BY <1>2, <2>1, <3>1, <3>2 DEF JoinStep
  <2>2. g[{}] = <<>>
    BY <1>3 DEF Gathering
  <2> QED BY <2>1, <2>2
<1>5. Of(h)
  BY <1>4
<1>6. StepsBy(JoinStep, <<>>, Text, fragments, h)
  <2>1. ASSUME NEW p \in SUBSET D, p # {}, h[p \ {Max(p)}] \in Text
        PROVE  h[p] = JoinStep[<<h[p \ {Max(p)}], fragments[Max(p)]>>]
    <3>1. PICK raw \in Text : raw = h[p \ {Max(p)}]
      BY <2>1
    <3>2. h[p] = IF raw = <<>> THEN fragments[Max(p)].text
                 ELSE raw \o <<"break">> \o fragments[Max(p)].text
      BY <1>5, <2>1, <3>1
    <3>3. fragments[Max(p)] \in Fragment
      BY <1>2, <2>1
    <3>4. JoinStep[<<raw, fragments[Max(p)]>>]
          = IF raw = <<>> THEN fragments[Max(p)].text
            ELSE raw \o <<"break">> \o fragments[Max(p)].text
      BY <3>3 DEF JoinStep
    <3> QED BY <3>1, <3>2, <3>4
  <2> QED BY <1>5, <2>1 DEF StepsBy
<1> HIDE DEF h
<1>7. StepsIn(JoinStep, <<>>, Text, Fragment, fragments)
  BY JoinStepTypes DEF StepsIn
<1>8. h[D] = Gathered(JoinStep, <<>>, fragments)
  BY <1>6, <1>7, GatheredIsChosen
<1> QED BY <1>1, <1>8

\* The fragments follow one another in the text, with a break between them.
LEMMA SpansFollow ==
  ASSUME result \in Seq(Fragment)
  PROVE  /\ Ocr!Span(1).start = 0
         /\ \A i \in 1 .. Len(result) :
               /\ Ocr!Span(i).start \in Nat /\ Ocr!Span(i).end \in Nat
               /\ Ocr!Span(i).end = Ocr!Span(i).start + Len(result[i].text)
               /\ Ocr!Span(i + 1).start = Ocr!Span(i).end + 1
<1> DEFINE n == Len(result)
           F == [j \in 1 .. n |-> Len(result[j].text) + 1]
<1>1. n \in Nat /\ \A j \in 1 .. n : Len(result[j].text) \in Nat
  BY DEF Fragment, Text
<1>2. \A j \in 1 .. n : F[j] \in Nat /\ F[j] = Len(result[j].text) + 1
  BY <1>1
<1> HIDE DEF F
<1>3. ASSUME NEW i \in 1 .. n + 1
      PROVE  /\ Ocr!Span(i).start = SumOver(F, 1 .. i - 1)
             /\ Ocr!Span(i).end = Ocr!Span(i).start + Len(result[i].text)
  <2> DEFINE S == 1 .. i - 1
             Of(g) == g = [s \in SUBSET S |->
                             IF s = {} THEN 0
                             ELSE (Len(result[Choice(s)].text) + 1)
                                  + g[s \ {Choice(s)}]]
             h == CHOOSE g : Of(g)
  <2>1. S \subseteq 1 .. n /\ IsFiniteSet(S)
    <3>1. i - 1 \in Int /\ 1 \in Int /\ S \subseteq 1 .. n
      BY <1>1
    <3> QED BY <3>1, FS_Interval
  <2>2. Ocr!Span(i).start = h[S]
    BY DEF Ocr!Span, Ocr!MapThenSumSet, Ocr!MapThenFoldSet, Choice
  <2> HIDE DEF S
  <2>3. ASSUME NEW g
        PROVE  Of(g) <=> Folding(F, S, g)
    <3>1. \A s \in SUBSET S : s # {} =>
             F[Choice(s)] = Len(result[Choice(s)].text) + 1
      BY <1>2, <2>1, ChoiceTypes
    <3> QED BY <3>1 DEF Folding
  <2>4. \A j \in S : F[j] \in Int
    BY <1>2, <2>1
  <2> HIDE DEF Of
  <2>5. \E g : Of(g)
    BY <2>1, <2>3, <2>4, FoldExists
  <2>6. Folding(F, S, h)
    BY <2>3, <2>5
  <2>7. SumOver(F, S) = h[S]
    <3> HIDE DEF h
    <3> QED BY <2>1, <2>4, <2>6, SumIsChosen
  <2>8. Ocr!Span(i).end = Ocr!Span(i).start + Len(result[i].text)
    BY DEF Ocr!Span
  <2> QED BY <2>2, <2>7, <2>8 DEF S
<1>4. SumOver(F, 1 .. 0) = 0
  <2>1. 1 .. 0 = {}
    OBVIOUS
  <2> QED BY <2>1, SumOfNone
<1>5. ASSUME NEW i \in 1 .. n, SumOver(F, 1 .. i - 1) \in Nat
      PROVE  SumOver(F, 1 .. i) = SumOver(F, 1 .. i - 1) + F[i]
  <2>1. /\ IsFiniteSet(1 .. i - 1) /\ i \notin 1 .. i - 1
        /\ (1 .. i - 1) \union {i} = 1 .. i
        /\ \A j \in (1 .. i - 1) \union {i} : F[j] \in Int
    <3>1. IsFiniteSet(1 .. i - 1)
      BY <1>1, FS_Interval
    <3>2. i \notin 1 .. i - 1 /\ (1 .. i - 1) \union {i} = 1 .. i
      BY <1>1
    <3>3. (1 .. i - 1) \union {i} \subseteq 1 .. n
      BY <1>1
    <3> QED BY <1>2, <3>1, <3>2, <3>3
  <2>2. SumOver(F, (1 .. i - 1) \union {i}) = SumOver(F, 1 .. i - 1) + F[i]
    BY <2>1, SumOfOneMore
  <2> QED BY <2>1, <2>2
<1>6. \A i \in 0 .. n : SumOver(F, 1 .. i) \in Nat
  <2> DEFINE G == {i \in Nat : i <= n => SumOver(F, 1 .. i) \in Nat}
  <2>1. 0 \in G
    BY <1>4
  <2>2. ASSUME NEW i \in Nat, i \in G
        PROVE  i + 1 \in G
    <3>1. CASE i + 1 <= n
      <4>1. SumOver(F, 1 .. i) \in Nat /\ i + 1 \in 1 .. n /\ (i + 1) - 1 = i
        BY <1>1, <2>2, <3>1
      <4>2. SumOver(F, 1 .. i + 1) = SumOver(F, 1 .. i) + F[i + 1]
        BY <1>5, <4>1
      <4>3. F[i + 1] \in Nat
        BY <1>2, <4>1
      <4> QED BY <4>1, <4>2, <4>3
    <3> QED BY <3>1
  <2>3. Nat \subseteq G
    <3> HIDE DEF G
    <3> QED BY <2>1, <2>2, NumberInduction
  <2> QED BY <1>1, <2>3
<1>7. ASSUME NEW i \in 1 .. n
      PROVE  /\ Ocr!Span(i).start \in Nat /\ Ocr!Span(i).end \in Nat
             /\ Ocr!Span(i).end = Ocr!Span(i).start + Len(result[i].text)
             /\ Ocr!Span(i + 1).start = Ocr!Span(i).end + 1
  <2>1. /\ i \in 1 .. n + 1 /\ i + 1 \in 1 .. n + 1 /\ (i + 1) - 1 = i
        /\ i - 1 \in 0 .. n
    BY <1>1
  <2>2. SumOver(F, 1 .. i - 1) \in Nat
    BY <1>6, <2>1
  <2>3. /\ Ocr!Span(i).start = SumOver(F, 1 .. i - 1)
        /\ Ocr!Span(i).end = Ocr!Span(i).start + Len(result[i].text)
    BY <1>3, <2>1
  <2>4. Ocr!Span(i + 1).start = SumOver(F, 1 .. i)
    BY <1>3, <2>1
  <2>5. SumOver(F, 1 .. i) = SumOver(F, 1 .. i - 1) + F[i]
    BY <1>5, <2>2
  <2> QED BY <1>1, <1>2, <2>2, <2>3, <2>4, <2>5
<1>8. Ocr!Span(1).start = 0
  <2>1. 1 \in 1 .. n + 1 /\ 1 - 1 = 0
    BY <1>1
  <2> QED BY <1>3, <1>4, <2>1
<1> QED BY <1>7, <1>8

\* A later fragment begins after an earlier one and the break behind it.
LEMMA SpansAreApart ==
  ASSUME result \in Seq(Fragment), NEW i \in 1 .. Len(result),
         NEW j \in 1 .. Len(result), i < j
  PROVE  Ocr!Span(i).end < Ocr!Span(j).start
<1> DEFINE n == Len(result)
           G == {d \in Nat : i + 1 + d <= n =>
                                Ocr!Span(i).end < Ocr!Span(i + 1 + d).start}
<1>1. n \in Nat /\ i \in Nat
  OBVIOUS
<1>2. 0 \in G
  BY <1>1, SpansFollow
<1>3. ASSUME NEW d \in Nat, d \in G
      PROVE  d + 1 \in G
  <2>1. CASE i + 1 + (d + 1) <= n
    <3>1. PICK k \in 1 .. n : k = i + 1 + d
      BY <1>1, <2>1
    <3>2. /\ Ocr!Span(k).start \in Nat /\ Ocr!Span(k).end \in Nat
          /\ Ocr!Span(k).end = Ocr!Span(k).start + Len(result[k].text)
          /\ Ocr!Span(k + 1).start = Ocr!Span(k).end + 1
          /\ Ocr!Span(i).end \in Nat
      BY SpansFollow
    <3>3. Ocr!Span(i).end < Ocr!Span(k).start
      BY <1>1, <1>3, <2>1, <3>1
    <3>4. k + 1 = i + 1 + (d + 1)
      BY <1>1, <3>1
    <3>5. Len(result[k].text) \in Nat
      BY DEF Fragment, Text
    <3>6. Ocr!Span(i).end < Ocr!Span(k + 1).start
      BY <3>2, <3>3, <3>5
    <3> QED BY <3>4, <3>6
  <2> QED BY <2>1
<1>4. Nat \subseteq G
  <2> HIDE DEF G
  <2> QED BY <1>2, <1>3, NumberInduction
<1>5. PICK d \in Nat : j = i + 1 + d
  <2>1. j - i - 1 \in Nat /\ j = i + 1 + (j - i - 1)
    BY <1>1
  <2> QED BY <2>1
<1>6. d \in G
  BY <1>4
<1> QED BY <1>1, <1>5, <1>6

\* The lines of one fragment more.
OwnStep ==
    [a \in Seq(Nat) \X (1 .. Len(result)) |->
        a[1] \o [m \in 1 .. Len(Ocr!LinesOf(result[a[2]].text)) |-> a[2]]]

\* The first k places.
FirstPlaces(k) == [i \in 1 .. k |-> i]

\* A fragment owns as many lines as its text has.
LEMMA OwnStepTypes ==
  ASSUME result \in Seq(Fragment)
  PROVE  /\ OwnStep \in [Seq(Nat) \X (1 .. Len(result)) -> Seq(Nat)]
         /\ <<>> \in Seq(Nat)
<1>1. ASSUME NEW o \in Seq(Nat), NEW i \in 1 .. Len(result)
      PROVE  o \o [m \in 1 .. Len(Ocr!LinesOf(result[i].text)) |-> i] \in Seq(Nat)
  <2>1. Len(Ocr!LinesOf(result[i].text)) \in Nat
    <3>1. result[i].text \in Text
      <4>1. result[i] \in Fragment
        OBVIOUS
      <4> QED BY <4>1 DEF Fragment
    <3> QED BY <3>1, LinesTypes DEF Broken
  <2>2. PICK n \in Nat : n = Len(Ocr!LinesOf(result[i].text))
    BY <2>1
  <2>3. [m \in 1 .. n |-> i] \in Seq(Nat)
    OBVIOUS
  <2> QED BY <2>2, <2>3
<1>2. <<>> \in Seq(Nat)
  OBVIOUS
<1> QED BY <1>1, <1>2 DEF OwnStep

\* The fragments of the lines are what the places fold to.
LEMMA OwnersAreGathered ==
  ASSUME result \in Seq(Fragment)
  PROVE  Ocr!FragmentOfLine = Gathered(OwnStep, <<>>, FirstPlaces(Len(result)))
<1> DEFINE n == Len(result)
           places == FirstPlaces(n)
           D == DOMAIN places
           Of(g) == g = [p \in SUBSET D |->
              IF p = {} THEN <<>>
              ELSE g[p \ {Max(p)}]
                   \o [m \in 1 .. Len(Ocr!LinesOf(result[places[Max(p)]].text))
                          |-> places[Max(p)]]]
           h == CHOOSE g : Of(g)
<1>1. Ocr!FragmentOfLine = h[D]
  BY DEF Ocr!FragmentOfLine, Ocr!FoldLeft, Ocr!MapThenFoldSet, Ocr!Max, Max,
     FirstPlaces
<1>2. places \in Seq(1 .. n)
  BY DEF FirstPlaces
<1> HIDE DEF places
<1>3. ASSUME NEW p \in SUBSET D, p # {}
      PROVE  /\ p \ {Max(p)} \in SUBSET D /\ Max(p) \in D
             /\ places[Max(p)] \in 1 .. n
  BY <1>2, <1>3, LastElement
<1>4. PICK g \in [SUBSET D -> Seq(Nat)] : Gathering(OwnStep, <<>>, places, g)
  BY <1>2, OwnStepTypes, GatheringExists
<1>5. Of(g)
  <2>1. ASSUME NEW p \in SUBSET D, p # {}
        PROVE  g[p] = g[p \ {Max(p)}]
                   \o [m \in 1 .. Len(Ocr!LinesOf(result[places[Max(p)]].text))
                          |-> places[Max(p)]]
    <3>1. g[p] = OwnStep[<<g[p \ {Max(p)}], places[Max(p)]>>]
      BY <1>4, <2>1 DEF Gathering
    <3>2. g[p \ {Max(p)}] \in Seq(Nat)
      BY <1>3, <1>4, <2>1
    <3> QED BY <1>3, <2>1, <3>1, <3>2 DEF OwnStep
  <2>2. g[{}] = <<>>
    BY <1>4 DEF Gathering
  <2> QED BY <2>1, <2>2
<1>6. Of(h)
  BY <1>5
<1>7. StepsBy(OwnStep, <<>>, Seq(Nat), places, h)
  <2>1. ASSUME NEW p \in SUBSET D, p # {}, h[p \ {Max(p)}] \in Seq(Nat)
        PROVE  h[p] = OwnStep[<<h[p \ {Max(p)}], places[Max(p)]>>]
    <3>1. PICK o \in Seq(Nat) : o = h[p \ {Max(p)}]
      BY <2>1
    <3>2. PICK i \in 1 .. n : i = places[Max(p)]
      BY <1>3, <2>1
    <3>3. h[p] = o \o [m \in 1 .. Len(Ocr!LinesOf(result[i].text)) |-> i]
      BY <1>6, <2>1, <3>1, <3>2
    <3>4. OwnStep[<<o, i>>]
          = o \o [m \in 1 .. Len(Ocr!LinesOf(result[i].text)) |-> i]
      BY DEF OwnStep
    <3> QED BY <3>1, <3>2, <3>3, <3>4
  <2> QED BY <1>6, <2>1 DEF StepsBy
<1> HIDE DEF h
<1>8. StepsIn(OwnStep, <<>>, Seq(Nat), 1 .. n, places)
  BY <1>2, OwnStepTypes DEF StepsIn
<1>9. h[D] = Gathered(OwnStep, <<>>, places)
  BY <1>7, <1>8, GatheredIsChosen
<1> QED BY <1>1, <1>9 DEF places

\* The text and the owners of the lines of the first k fragments.
TextOf(k) == Gathered(JoinStep, <<>>, SubSeq(result, 1, k))
OwnersOf(k) == Gathered(OwnStep, <<>>, FirstPlaces(k))

\* The text and the owners of k + 1 fragments are those of the first k, taken one
\* step further.
LEMMA PartsOfOneMore ==
  ASSUME result \in Seq(Fragment), NEW k \in 0 .. Len(result)
  PROVE  /\ TextOf(0) = <<>> /\ OwnersOf(0) = <<>>
         /\ TextOf(k) \in Text /\ OwnersOf(k) \in Seq(Nat)
         /\ k < Len(result) =>
              /\ result[k + 1] \in Fragment
              /\ TextOf(k + 1) = JoinStep[<<TextOf(k), result[k + 1]>>]
              /\ OwnersOf(k + 1) = OwnStep[<<OwnersOf(k), k + 1>>]
<1> DEFINE n == Len(result)
           first == SubSeq(result, 1, k)
           places == FirstPlaces(k)
<1>1. n \in Nat /\ k \in Nat /\ k <= n
  OBVIOUS
<1>2. first \in Seq(Fragment) /\ places \in Seq(1 .. n)
  <2>1. \A i \in 1 .. k : result[i] \in Fragment /\ i \in 1 .. n
    BY <1>1
  <2>2. first \in Seq(Fragment)
    BY <1>1, <2>1, SubSeqProperties
  <2>3. places \in [1 .. k -> 1 .. n]
    BY <2>1 DEF FirstPlaces
  <2> QED BY <1>1, <2>2, <2>3
<1>3. TextOf(0) = <<>>
  <2>1. SubSeq(result, 1, 0) = <<>>
    BY SubSeqEmpty
  <2> QED BY <2>1, JoinStepTypes, GatheredOfNone DEF TextOf
<1>4. OwnersOf(0) = <<>>
  <2>1. FirstPlaces(0) = <<>>
    BY DEF FirstPlaces
  <2> QED BY <2>1, OwnStepTypes, GatheredOfNone DEF OwnersOf
<1>5. /\ StepsIn(JoinStep, <<>>, Text, Fragment, first)
      /\ StepsIn(OwnStep, <<>>, Seq(Nat), 1 .. n, places)
  BY <1>2, JoinStepTypes, OwnStepTypes DEF StepsIn
<1>6. TextOf(k) \in Text /\ OwnersOf(k) \in Seq(Nat)
  <2>1. Gathered(JoinStep, <<>>, first) \in Text
    <3>1. CASE Fragment # {}
      BY <1>5, <3>1, GatheredOfOneMore
    <3>2. CASE Fragment = {}
      <4>1. k = 0
        <5>1. k >= 1 => result[1] \in Fragment
          BY <1>1
        <5> QED BY <1>1, <3>2, <5>1
      <4> QED BY <1>3, <4>1, JoinStepTypes DEF TextOf
    <3> QED BY <3>1, <3>2
  <2>2. Gathered(OwnStep, <<>>, places) \in Seq(Nat)
    <3>1. CASE n >= 1
      <4>1. 1 \in 1 .. n
        BY <1>1, <3>1
      <4> QED BY <1>5, <4>1, GatheredOfOneMore
    <3>2. CASE ~(n >= 1)
      <4>1. k = 0
        BY <1>1, <3>2
      <4> QED BY <1>4, <4>1, OwnStepTypes DEF OwnersOf
    <3> QED BY <3>1, <3>2
  <2> QED BY <2>1, <2>2 DEF TextOf, OwnersOf
<1>7. ASSUME k < n
      PROVE  /\ result[k + 1] \in Fragment
             /\ TextOf(k + 1) = JoinStep[<<TextOf(k), result[k + 1]>>]
             /\ OwnersOf(k + 1) = OwnStep[<<OwnersOf(k), k + 1>>]
  <2>1. result[k + 1] \in Fragment /\ k + 1 \in 1 .. n
    BY <1>1, <1>7
  <2>2. SubSeq(result, 1, k + 1) = Append(first, result[k + 1])
    <3>1. 1 \in 1 .. n /\ k + 1 \in 1 .. n /\ (k + 1) - 1 = k
      BY <1>1, <1>7
    <3>2. SubSeq(result, 1, k + 1) = SubSeq(result, 1, k) \o <<result[k + 1]>>
      BY <3>1, SubSeqRecursiveSecond
    <3>3. Append(first, result[k + 1]) = first \o <<result[k + 1]>>
      BY <1>2, <2>1, JoinedOneMore
    <3> QED BY <3>2, <3>3
  <2>3. FirstPlaces(k + 1) = Append(places, k + 1)
    BY <1>1, <1>2 DEF FirstPlaces
  <2>4. Gathered(JoinStep, <<>>, Append(first, result[k + 1]))
        = JoinStep[<<Gathered(JoinStep, <<>>, first), result[k + 1]>>]
    BY <1>5, <2>1, GatheredOfOneMore
  <2>5. Gathered(OwnStep, <<>>, Append(places, k + 1))
        = OwnStep[<<Gathered(OwnStep, <<>>, places), k + 1>>]
    BY <1>5, <2>1, GatheredOfOneMore
  <2> QED BY <2>1, <2>2, <2>3, <2>4, <2>5 DEF TextOf, OwnersOf
<1> QED BY <1>3, <1>4, <1>6, <1>7

\* Line m begins at s[m] of the text of the first k fragments, and lies in the
\* fragment own[m].
Stands(lines, own, s, k) ==
    /\ Len(own) = Len(lines)
    /\ s \in [1 .. Len(lines) + 1 -> Nat]
    /\ s[1] = 0 /\ s[Len(lines) + 1] = Ocr!Span(k + 1).start
    /\ \A m \in 1 .. Len(lines) :
          /\ s[m + 1] = s[m] + Len(lines[m]) + 1
          /\ own[m] \in 1 .. k
          /\ Ocr!Span(own[m]).start <= s[m]
          /\ s[m] + Len(lines[m]) <= Ocr!Span(own[m]).end

\* One fragment more.
LEMMA StandsWithOneMore ==
  ASSUME result \in Seq(Fragment), NEW k \in 1 .. Len(result),
         NEW lines \in Seq(Text), NEW own \in Seq(Nat),
         NEW s, Stands(lines, own, s, k - 1)
  PROVE  \E r : Stands(lines \o Ocr!LinesOf(result[k].text),
                       own \o [m \in 1 .. Len(Ocr!LinesOf(result[k].text)) |-> k],
                       r, k)
<1> DEFINE t == result[k].text
           a == Len(lines)
<1>1. /\ t \in Text /\ k \in Nat /\ k - 1 \in Nat /\ (k - 1) + 1 = k
  <2>1. result[k] \in Fragment
    OBVIOUS
  <2> QED BY <2>1 DEF Fragment
<1>2. PICK more \in Seq(Text) : more = Ocr!LinesOf(t)
  BY <1>1, LinesTypes DEF Broken
<1>3. PICK u : Laid(more, u) /\ u[Len(more) + 1] = Len(t) + 1
  BY <1>1, <1>2, LinesAreLaid
<1>4. PICK b \in Nat : b = Len(more)
  BY <1>2
<1>5. PICK start \in Nat : start = Ocr!Span(k).start
  BY SpansFollow
<1>6. /\ Ocr!Span(k).end = start + Len(t) /\ Len(t) \in Nat
      /\ Ocr!Span(k + 1).start = start + Len(t) + 1
  BY <1>1, <1>5, SpansFollow DEF Text
<1>7. /\ u \in [1 .. b + 1 -> Nat] /\ u[1] = 0 /\ u[b + 1] = Len(t) + 1
      /\ \A j \in 1 .. b : /\ u[j + 1] = u[j] + Len(more[j]) + 1
                           /\ u[j + 1] <= u[b + 1]
  BY <1>3, <1>4 DEF Laid
<1>8. /\ a \in Nat /\ Len(own) = a
      /\ s \in [1 .. a + 1 -> Nat] /\ s[1] = 0 /\ s[a + 1] = start
      /\ \A m \in 1 .. a :
          /\ s[m + 1] = s[m] + Len(lines[m]) + 1
          /\ own[m] \in 1 .. k - 1
          /\ Ocr!Span(own[m]).start <= s[m]
          /\ s[m] + Len(lines[m]) <= Ocr!Span(own[m]).end
  BY <1>1, <1>5 DEF Stands
<1> HIDE DEF t, a
<1> DEFINE all == lines \o more
           owners == own \o [m \in 1 .. b |-> k]
           r == [m \in 1 .. a + b + 1 |->
                    IF m <= a THEN s[m] ELSE start + u[m - a]]
<1>9. /\ Len(all) = a + b /\ Len(owners) = a + b
      /\ \A m \in 1 .. a + b : /\ m <= a => all[m] = lines[m] /\ owners[m] = own[m]
                               /\ m > a => all[m] = more[m - a] /\ owners[m] = k
  <2>1. [m \in 1 .. b |-> k] \in Seq(Nat) /\ Len([m \in 1 .. b |-> k]) = b
    BY <1>1
  <2>2. PICK w \in Seq(Nat) : w = [m \in 1 .. b |-> k]
    BY <2>1
  <2>3. /\ Len(own \o w) = a + b
        /\ \A m \in 1 .. a + b : (own \o w)[m] = IF m <= a THEN own[m] ELSE w[m - a]
    <3>1. Len(w) = b /\ Len(own) = a
      BY <1>8, <2>1, <2>2
    <3> QED BY <3>1, ConcatProperties
  <2>4. /\ Len(lines \o more) = a + b
        /\ \A m \in 1 .. a + b :
              (lines \o more)[m] = IF m <= a THEN lines[m] ELSE more[m - a]
    BY <1>4, <1>8, ConcatProperties DEF a
  <2>5. \A m \in 1 .. a + b : m > a => m - a \in 1 .. b /\ ~(m <= a)
    BY <1>4, <1>8
  <2> QED BY <2>2, <2>3, <2>4, <2>5
<1>10. /\ r \in [1 .. a + b + 1 -> Nat]
       /\ \A m \in 1 .. a : r[m] = s[m]
       /\ \A j \in 1 .. b + 1 : r[a + j] = start + u[j]
       /\ r[a + 1] = s[a + 1]
  <2>1. ASSUME NEW m \in 1 .. a + b + 1
        PROVE  (IF m <= a THEN s[m] ELSE start + u[m - a]) \in Nat
    <3>1. CASE m <= a
      BY <1>8, <3>1
    <3>2. CASE ~(m <= a)
      <4>1. m - a \in 1 .. b + 1
        BY <1>4, <1>8, <3>2
      <4>2. u[m - a] \in Nat
        BY <1>7, <4>1
      <4> QED BY <3>2, <4>2
    <3> QED BY <3>1, <3>2
  <2>2. ASSUME NEW j \in 1 .. b + 1
        PROVE  r[a + j] = start + u[j]
    <3>1. a + j \in 1 .. a + b + 1 /\ ~(a + j <= a) /\ (a + j) - a = j
      BY <1>4, <1>8
    <3> QED BY <3>1
  <2>3. ASSUME NEW m \in 1 .. a
        PROVE  r[m] = s[m]
    BY <1>4, <1>8
  <2>4. r[a + 1] = s[a + 1]
    <3>1. 1 \in 1 .. b + 1
      BY <1>4
    <3>2. r[a + 1] = start + u[1]
      BY <2>2, <3>1
    <3> QED BY <1>7, <1>8, <3>2
  <2>5. r \in [1 .. a + b + 1 -> Nat]
    BY <2>1
  <2> HIDE DEF r
  <2> QED BY <2>2, <2>3, <2>4, <2>5
<1> HIDE DEF all, owners, r
<1>11. r[1] = 0
  <2>1. CASE a >= 1
    BY <1>8, <1>10, <2>1
  <2>2. CASE a = 0
    BY <1>8, <1>10, <2>2
  <2> QED BY <1>8, <2>1, <2>2
<1>12. r[a + b + 1] = Ocr!Span(k + 1).start
  <2>1. b + 1 \in 1 .. b + 1 /\ a + (b + 1) = a + b + 1
    BY <1>4, <1>8
  <2>2. r[a + (b + 1)] = start + u[b + 1]
    BY <1>10, <2>1
  <2> QED BY <1>6, <1>7, <2>1, <2>2
<1>13. ASSUME NEW m \in 1 .. a + b
       PROVE  /\ r[m + 1] = r[m] + Len(all[m]) + 1
              /\ owners[m] \in 1 .. k
              /\ Ocr!Span(owners[m]).start <= r[m]
              /\ r[m] + Len(all[m]) <= Ocr!Span(owners[m]).end
  <2>1. CASE m <= a
    <3>1. m \in 1 .. a /\ m + 1 \in 1 .. a + 1
      BY <1>4, <1>8, <2>1
    <3>2. r[m] = s[m] /\ r[m + 1] = s[m + 1]
      <4>1. CASE m + 1 <= a
        <5>1. m + 1 \in 1 .. a
          BY <1>8, <3>1, <4>1
        <5> QED BY <1>10, <3>1, <5>1
      <4>2. CASE ~(m + 1 <= a)
        <5>1. m = a
          BY <1>8, <3>1, <4>2
        <5> QED BY <1>10, <3>1, <5>1
      <4> QED BY <4>1, <4>2
    <3>3. all[m] = lines[m] /\ owners[m] = own[m]
      BY <1>9, <2>1
    <3>4. own[m] \in 1 .. k
      <4>1. own[m] \in 1 .. k - 1
        BY <1>8, <3>1
      <4> QED BY <1>1, <4>1
    <3> QED BY <1>8, <3>1, <3>2, <3>3, <3>4
  <2>2. CASE ~(m <= a)
    <3>1. PICK j \in 1 .. b : m = a + j
      <4>1. m - a \in 1 .. b /\ m = a + (m - a)
        BY <1>4, <1>8, <2>2
      <4> QED BY <4>1
    <3>2. j \in 1 .. b + 1 /\ j + 1 \in 1 .. b + 1 /\ m + 1 = a + (j + 1)
          /\ m > a /\ m - a = j
      BY <1>4, <1>8, <3>1
    <3>3. r[m] = start + u[j] /\ r[m + 1] = start + u[j + 1]
      BY <1>10, <3>1, <3>2
    <3>4. all[m] = more[j] /\ owners[m] = k
      BY <1>9, <3>2
    <3>5. /\ u[j + 1] = u[j] + Len(more[j]) + 1 /\ u[j + 1] <= Len(t) + 1
          /\ u[j] \in Nat /\ u[j + 1] \in Nat
      BY <1>7, <3>2
    <3>6. Len(more[j]) \in Nat
      <4>1. more[j] \in Text
        BY <1>2, <1>4
      <4> QED BY <4>1 DEF Text
    <3>7. k \in 1 .. k
      BY <1>1
    <3>8. /\ r[m + 1] = r[m] + Len(more[j]) + 1 /\ start <= r[m]
          /\ r[m] + Len(more[j]) <= start + Len(t)
      <4>1. PICK x \in Nat : x = u[j]
        BY <3>5
      <4>2. PICK y \in Nat : y = Len(more[j])
        BY <3>6
      <4>3. PICK z \in Nat : z = u[j + 1]
        BY <3>5
      <4>4. PICK l \in Nat : l = Len(t)
        BY <1>6
      <4>5. z = x + y + 1 /\ z <= l + 1
        BY <3>5, <4>1, <4>2, <4>3, <4>4
      <4>6. x + y <= l
        BY <4>5
      <4>7. r[m] = start + x /\ r[m + 1] = start + z
        BY <3>3, <4>1, <4>3
      <4>8. /\ start + z = (start + x) + y + 1 /\ start <= start + x
            /\ (start + x) + y <= start + l
        BY <4>5, <4>6
      <4> QED BY <4>2, <4>4, <4>7, <4>8
    <3> QED BY <1>5, <1>6, <3>4, <3>7, <3>8
  <2> QED BY <2>1, <2>2
<1>14. Stands(all, owners, r, k)
  BY <1>9, <1>10, <1>11, <1>12, <1>13 DEF Stands
<1> QED BY <1>2, <1>4, <1>14 DEF all, owners, t

\* What is to be shown of the whole text.
LinesStand ==
    /\ Ocr!Lines \in Seq(Text)
    /\ \E s : Stands(Ocr!Lines, Ocr!FragmentOfLine, s, Len(result))

\* The lines of a result that is not empty stand inside its fragments, by
\* induction over the number of fragments joined.
LEMMA LinesAlwaysStand ==
  ASSUME result \in Seq(Fragment), result # <<>>
  PROVE  LinesStand
<1> DEFINE n == Len(result)
           LinesTo(k) == Ocr!LinesOf(TextOf(k))
           Good(k) == /\ TextOf(k) # <<>>
                      /\ \E s : Stands(LinesTo(k), OwnersOf(k), s, k)
           G == {i \in Nat : i + 1 <= n => Good(i + 1)}
<1>1. n \in Nat \ {0}
  BY EmptySeq
<1>2. ASSUME NEW k \in 1 .. n
      PROVE  /\ TextOf(k) \in Text /\ OwnersOf(k) \in Seq(Nat)
             /\ LinesTo(k) \in Seq(Text)
             /\ result[k].text \in Text \ {<<>>}
  <2>1. TextOf(k) \in Text /\ OwnersOf(k) \in Seq(Nat)
    <3>1. k \in 0 .. n
      BY <1>1
    <3> QED BY <3>1, PartsOfOneMore
  <2>2. result[k] \in Fragment
    OBVIOUS
  <2> QED BY <2>1, <2>2, LinesTypes DEF Broken, Fragment
<1>3. ASSUME NEW k \in 0 .. n, k < n
      PROVE  /\ TextOf(k + 1) = JoinStep[<<TextOf(k), result[k + 1]>>]
             /\ OwnersOf(k + 1) = OwnersOf(k) \o
                  [m \in 1 .. Len(Ocr!LinesOf(result[k + 1].text)) |-> k + 1]
             /\ result[k + 1] \in Fragment /\ k + 1 \in 1 .. n
             /\ TextOf(k) \in Text /\ OwnersOf(k) \in Seq(Nat)
  <2>1. /\ OwnersOf(k + 1) = OwnStep[<<OwnersOf(k), k + 1>>]
        /\ TextOf(k + 1) = JoinStep[<<TextOf(k), result[k + 1]>>]
        /\ result[k + 1] \in Fragment
        /\ TextOf(k) \in Text /\ OwnersOf(k) \in Seq(Nat)
    BY <1>3, PartsOfOneMore
  <2>2. k + 1 \in 1 .. n
    BY <1>1, <1>3
  <2> QED BY <2>1, <2>2 DEF OwnStep
<1>4. 0 \in G
  <2>1. /\ 0 \in 0 .. n /\ 0 < n /\ 0 + 1 = 1 /\ 1 \in 1 .. n
    BY <1>1
  <2>2. TextOf(0) = <<>> /\ OwnersOf(0) = <<>>
    BY <2>1, PartsOfOneMore
  <2>3. PICK t \in Text \ {<<>>} : t = result[1].text
    BY <1>2, <2>1
  <2>4. TextOf(1) = t
    BY <1>3, <2>1, <2>2, <2>3 DEF JoinStep
  <2>5. PICK more \in Seq(Text) : more = Ocr!LinesOf(t)
    BY LinesTypes DEF Broken
  <2>6. PICK none \in Seq(Text) : none = <<>>
    BY EmptySeq
  <2>7. PICK own \in Seq(Nat) : own = <<>>
    BY EmptySeq
  <2> DEFINE s == [m \in 1 .. 1 |-> 0]
  <2>8. Stands(none, own, s, 1 - 1)
    <3>1. Len(none) = 0 /\ Len(own) = 0 /\ Ocr!Span(1).start = 0
      BY <2>6, <2>7, SpansFollow
    <3>2. s \in [1 .. 1 -> Nat] /\ s[1] = 0
      OBVIOUS
    <3> HIDE DEF s
    <3> QED BY <3>1, <3>2 DEF Stands
  <2> HIDE DEF s
  <2>9. PICK r : Stands(none \o Ocr!LinesOf(result[1].text),
                        own \o [m \in 1 .. Len(Ocr!LinesOf(result[1].text)) |-> 1],
                        r, 1)
    BY <2>1, <2>8, StandsWithOneMore
  <2>10. none \o Ocr!LinesOf(result[1].text) = LinesTo(1)
    BY <2>3, <2>4, <2>5, <2>6
  <2>11. own \o [m \in 1 .. Len(Ocr!LinesOf(result[1].text)) |-> 1] = OwnersOf(1)
    BY <1>3, <2>1, <2>2, <2>7
  <2>12. Stands(LinesTo(1), OwnersOf(1), r, 1)
    BY <2>9, <2>10, <2>11
  <2> HIDE DEF LinesTo
  <2> QED BY <2>1, <2>4, <2>12
<1>5. ASSUME NEW i \in Nat, i \in G
      PROVE  i + 1 \in G
  <2>1. CASE i + 1 + 1 <= n
    <3>1. PICK k \in 1 .. n : k = i + 1
      BY <1>1, <2>1
    <3>2. k \in 0 .. n /\ k < n /\ k + 1 \in 1 .. n /\ (k + 1) - 1 = k
      BY <1>1, <2>1, <3>1
    <3>3. Good(k)
      BY <1>5, <3>1, <3>2
    <3>4. PICK s : Stands(LinesTo(k), OwnersOf(k), s, (k + 1) - 1)
      BY <3>2, <3>3
    <3>5. LinesTo(k) \in Seq(Text) /\ OwnersOf(k) \in Seq(Nat) /\ TextOf(k) \in Text
      BY <1>2
    <3>6. PICK t \in Text \ {<<>>} : t = result[k + 1].text
      BY <1>2, <3>2
    <3>7. TextOf(k + 1) = TextOf(k) \o <<"break">> \o t
      BY <1>3, <3>2, <3>3, <3>5, <3>6 DEF JoinStep
    <3>8. LinesTo(k + 1) = LinesTo(k) \o Ocr!LinesOf(t)
      BY <3>5, <3>7, LinesOfJoined
    <3>9. PICK lines \in Seq(Text) : lines = LinesTo(k)
      BY <3>5
    <3>10. PICK own \in Seq(Nat) : own = OwnersOf(k)
      BY <3>5
    <3>11. PICK q \in 1 .. n : q = k + 1
      BY <3>2
    <3>12. Stands(lines, own, s, q - 1)
      BY <3>4, <3>9, <3>10, <3>11
    <3>13. PICK r : Stands(lines \o Ocr!LinesOf(result[q].text),
                          own \o [m \in 1 .. Len(Ocr!LinesOf(result[q].text)) |-> q],
                          r, q)
      BY <3>12, StandsWithOneMore
    <3>14. own \o [m \in 1 .. Len(Ocr!LinesOf(result[q].text)) |-> q] = OwnersOf(k + 1)
      BY <1>3, <3>2, <3>10, <3>11
    <3>15. lines \o Ocr!LinesOf(result[q].text) = LinesTo(k + 1)
      BY <3>6, <3>8, <3>9, <3>11
    <3>16. Stands(LinesTo(k + 1), OwnersOf(k + 1), r, k + 1)
      BY <3>11, <3>13, <3>14, <3>15
    <3>17. TextOf(k + 1) # <<>>
      <4>1. TextOf(k) \o <<"break">> # <<>> /\ TextOf(k) \o <<"break">> \in Text
        <5>1. "break" \in Char /\ TextOf(k) \in Seq(Char)
          BY <3>5 DEF Char, Text
        <5>2. /\ Append(TextOf(k), "break") = TextOf(k) \o <<"break">>
              /\ Append(TextOf(k), "break") \in Seq(Char)
          BY <5>1, JoinedOneMore
        <5>3. Len(Append(TextOf(k), "break")) = Len(TextOf(k)) + 1
              /\ Len(TextOf(k)) \in Nat
          BY <5>1
        <5>4. Append(TextOf(k), "break") # <<>>
          BY <5>2, <5>3
        <5> QED BY <5>2, <5>4 DEF Text
      <4>2. PICK a \in Seq(Char) : a = TextOf(k) \o <<"break">>
        BY <4>1 DEF Text
      <4>3. t \in Seq(Char)
        BY DEF Text
      <4>4. a \o t # <<>>
        BY <4>1, <4>2, <4>3, ConcatEqualIffEmpty
      <4> QED BY <3>7, <4>2, <4>4
    <3> HIDE DEF LinesTo
    <3> QED BY <3>1, <3>16, <3>17
  <2> QED BY <2>1
<1>6. Good(n)
  <2>1. Nat \subseteq G
    <3> HIDE DEF G
    <3> QED BY <1>4, <1>5, NumberInduction
  <2>2. PICK i \in Nat : i + 1 = n
    <3>1. n - 1 \in Nat /\ (n - 1) + 1 = n
      BY <1>1
    <3> QED BY <3>1
  <2>3. i \in G
    BY <2>1
  <2> HIDE DEF Good
  <2> QED BY <1>1, <2>2, <2>3
<1>7. TextOf(n) = Ocr!RawText(result) /\ OwnersOf(n) = Ocr!FragmentOfLine
  <2>1. SubSeq(result, 1, n) = result
    BY SubSeqFull
  <2> QED BY <2>1, RawTextIsGathered, OwnersAreGathered DEF TextOf, OwnersOf
<1>8. Ocr!Lines = LinesTo(n)
  BY <1>7 DEF Ocr!Lines
<1>9. n \in 1 .. n
  BY <1>1
<1> QED BY <1>2, <1>6, <1>7, <1>8, <1>9 DEF LinesStand

\* Where fragment i stands and which fragments the lines are of, as operators
\* of the fragments: what depends on nothing else stands still with them.
SpanIn(fragments, i) ==
    LET start == Ocr!MapThenSumSet(LAMBDA j : Len(fragments[j].text) + 1, 1 .. i - 1)
    IN  [start |-> start, end |-> start + Len(fragments[i].text)]

OwnersIn(fragments) ==
    Ocr!FoldLeft(LAMBDA owners, i :
                owners \o [n \in 1 .. Len(Ocr!LinesOf(fragments[i].text)) |-> i],
             <<>>, [i \in 1 .. Len(fragments) |-> i])

\* Offsets, and the fragments of lines, are those of the result at hand, in the
\* state of a step and in the next.
LEMMA SpansOfResult == \A i : Ocr!Span(i) = SpanIn(result, i)
BY DEF Ocr!Span, SpanIn

LEMMA OwnersOfResult == Ocr!FragmentOfLine = OwnersIn(result)
BY DEF Ocr!FragmentOfLine, OwnersIn

LEMMA SpansOfResultLater == (\A i : Ocr!Span(i) = SpanIn(result, i))'
BY SpansOfResult, PTL

LEMMA OwnersOfResultLater == (Ocr!FragmentOfLine = OwnersIn(result))'
BY OwnersOfResult, PTL

\* The text of a result stands still with it, and so do its lines.
LEMMA ResultStands ==
  ASSUME UNCHANGED result
  PROVE  /\ Ocr!Lines' = Ocr!Lines /\ Ocr!FragmentOfLine' = Ocr!FragmentOfLine
         /\ \A i : Ocr!Span(i)' = Ocr!Span(i)
BY SpansOfResult, SpansOfResultLater, OwnersOfResult, OwnersOfResultLater
   DEF Ocr!Lines

\* The loop is where the next line begins, and no further among the fragments
\* than the one of the next line.
AtLine ==
    /\ scored <= Len(Ocr!Lines)
    /\ \E s : Stands(Ocr!Lines, Ocr!FragmentOfLine, s, Len(result))
              /\ offset = s[scored + 1]
    /\ scored < Len(Ocr!Lines) => cursor <= Ocr!FragmentOfLine[scored + 1]

Scored == \A n \in 1 .. scored :
             ~Ocr!Blank(Ocr!Lines[n]) =>
                scores[n] = result[Ocr!FragmentOfLine[n]].confidence

ScoringInv ==
    /\ found \in Seq(Ocr!Found)
    /\ scored \in Nat /\ cursor \in Nat \ {0}
    /\ scores \in Seq(Scores \union {None}) /\ Len(scores) = scored
    /\ result = None \/ result = <<>> =>
          scored = 0 /\ offset = 0 /\ cursor = 1
    /\ result # None => result \in Seq(Fragment)
    /\ result # None /\ result # <<>> => AtLine /\ Scored

\* The same of any result, so that it can be said of the next state's.
LEMMA ResultsStand == result \in Seq(Fragment) /\ result # <<>> => LinesStand
BY LinesAlwaysStand

\* What the engine found has not been scored.
LEMMA ScoringInit ==
  ASSUME Ocr!Init
  PROVE  ScoringInv
<1>1. found \in Seq(Ocr!Found)
  <2>1. PICK n \in 0 .. MaxFragments : found \in [1 .. n -> Ocr!Found]
    BY DEF Ocr!Init
  <2>2. n \in Nat
    <3>1. MaxFragments \in Nat
      BY ReadingConstants DEF Ocr!OcrConstants
    <3> QED BY <3>1
  <2> QED BY <2>1, <2>2
<1> QED BY <1>1 DEF Ocr!Init, ScoringInv

\* A result is of what is retained, and nothing is scored of it yet.
LEMMA RecognizeKeeps ==
  ASSUME ScoringInv, Ocr!Recognize
  PROVE  ScoringInv'
<1>1. /\ result = None /\ result' = Ocr!Retained(found)
      /\ UNCHANGED <<found, scored, offset, cursor, scores>>
      /\ scored = 0 /\ offset = 0 /\ cursor = 1
      /\ scores \in Seq(Scores \union {None}) /\ Len(scores) = 0
  BY DEF ScoringInv, Ocr!Recognize
<1>2. found \in Seq(Accepted)
  <2>1. /\ found \in Seq(Ocr!Found)
        /\ \A i \in DOMAIN found : found[i].confidence # Invalid
    BY DEF ScoringInv, Ocr!Recognize
  <2>2. \A i \in 1 .. Len(found) : found[i] \in Accepted
    BY <2>1 DEF Accepted
  <2> QED BY <2>1, <2>2
<1>3. result' \in Seq(Fragment)
  BY <1>1, <1>2, RetainedTypes
<1>4. ASSUME result' # <<>>
      PROVE  AtLine' /\ Scored'
  <2>1. LinesStand'
    <3>1. (result \in Seq(Fragment) /\ result # <<>> => LinesStand)'
      BY ResultsStand, PTL
    <3> QED BY <1>3, <1>4, <3>1
  <2>2. PICK s : Stands(Ocr!Lines, Ocr!FragmentOfLine, s, Len(result))'
    BY <2>1 DEF LinesStand
  <2> DEFINE lines == Ocr!Lines'
             own == Ocr!FragmentOfLine'
  <2>3. lines \in Seq(Text)
    BY <2>1 DEF LinesStand
  <2>4. /\ s[1] = 0 /\ Len(own) = Len(lines)
        /\ \A m \in 1 .. Len(lines) : own[m] \in 1 .. Len(result')
    BY <2>2 DEF Stands
  <2> HIDE DEF lines, own
  <2>5. Len(lines) > 0 => own[1] >= 1
    BY <2>3, <2>4
  <2>6. AtLine'
    <3>1. scored' = 0 /\ offset' = 0 /\ cursor' = 1 /\ 0 + 1 = 1
      BY <1>1
    <3>2. 0 <= Len(lines) /\ (0 < Len(lines) => 1 <= own[1])
      BY <2>3, <2>5
    <3> QED BY <2>2, <2>4, <3>1, <3>2 DEF AtLine, lines, own
  <2>7. Scored'
    BY <1>1 DEF Scored
  <2> QED BY <2>6, <2>7
<1> QED BY <1>1, <1>3, <1>4 DEF ScoringInv

\* What the least of a set of numbers is.
LEMMA LeastOf ==
  ASSUME NEW S \in SUBSET Nat, S # {}
  PROVE  Ocr!Min(S) \in S /\ \A x \in S : Ocr!Min(S) <= x
<1>1. PICK x \in S : \A y \in S : ~(y < x)
  BY LeastNumber
<1>2. \A y \in S : x <= y
  BY <1>1
<1> QED BY <1>2 DEF Ocr!Min

\* The cursor goes to the first fragment that ends behind the offset.
LEMMA AdvancedIsFirst ==
  ASSUME result \in Seq(Fragment), cursor \in Nat \ {0}, offset \in Nat
  PROVE  /\ Ocr!Advanced \in Nat \ {0}
         /\ cursor <= Len(result) + 1 => cursor <= Ocr!Advanced
         /\ Ocr!Advanced <= Len(result) => Ocr!Span(Ocr!Advanced).end > offset
         /\ \A i \in 1 .. Len(result) :
               cursor <= i /\ Ocr!Span(i).end > offset => Ocr!Advanced <= i
<1> DEFINE n == Len(result)
           S == {i \in cursor .. n : Ocr!Span(i).end > offset} \union {n + 1}
<1>1. n \in Nat
  OBVIOUS
<1>2. S \in SUBSET Nat /\ S # {} /\ 0 \notin S
  BY <1>1
<1>3. Ocr!Min(S) \in S /\ \A x \in S : Ocr!Min(S) <= x
  <2> HIDE DEF S
  <2> QED BY <1>2, LeastOf
<1>4. Ocr!Advanced = Ocr!Min(S)
  BY DEF Ocr!Advanced
<1>5. PICK a \in S : a = Ocr!Min(S)
  BY <1>3
<1>6. \A i \in 1 .. n : cursor <= i /\ Ocr!Span(i).end > offset => i \in S
  BY <1>1
<1>7. cursor <= n + 1 => cursor <= a
  BY <1>1
<1>8. a <= n => Ocr!Span(a).end > offset
  BY <1>1
<1> HIDE DEF S
<1>9. a \in Nat \ {0} /\ \A i \in S : a <= i
  BY <1>2, <1>3, <1>5
<1> QED BY <1>4, <1>5, <1>6, <1>7, <1>8, <1>9

\* Of a line that lies in fragment i no other fragment is included.
LEMMA IncludedIsOwner ==
  ASSUME result \in Seq(Fragment), cursor \in Nat \ {0}, offset \in Nat,
         NEW i \in 1 .. Len(result), cursor <= i,
         NEW end \in Nat, offset < end,
         Ocr!Span(i).start <= offset, end <= Ocr!Span(i).end
  PROVE  Ocr!Included(end) = {i}
<1> DEFINE n == Len(result)
           a == Ocr!Advanced
<1>1. /\ n \in Nat /\ i \in Nat
      /\ Ocr!Span(i).start \in Nat /\ Ocr!Span(i).end \in Nat
  BY SpansFollow
<1>2. a <= i /\ a \in Nat \ {0}
  <2>1. Ocr!Span(i).end > offset
    BY <1>1
  <2> QED BY <2>1, AdvancedIsFirst
<1> HIDE DEF a
<1>3. ~(a < i)
  <2> SUFFICES ASSUME a < i
               PROVE  FALSE
    OBVIOUS
  <2>1. PICK k \in 1 .. n : k = a
    BY <1>1, <1>2
  <2>2. Ocr!Span(k).end > offset
    <3>1. a <= n
      BY <1>1, <1>2
    <3> QED BY <2>1, <3>1, AdvancedIsFirst DEF a
  <2>3. Ocr!Span(k).end < Ocr!Span(i).start
    BY <2>1, SpansAreApart
  <2>4. Ocr!Span(k).end \in Nat
    BY SpansFollow
  <2> QED BY <1>1, <2>2, <2>3, <2>4
<1>4. a = i
  BY <1>1, <1>2, <1>3
<1>5. ASSUME NEW j \in i .. n
      PROVE  (\A q \in i .. j : Ocr!Span(q).start < end) <=> j = i
  <2>1. CASE j = i
    <3>1. \A q \in i .. j : q = i
      BY <1>1, <2>1
    <3> QED BY <1>1, <2>1, <3>1
  <2>2. CASE j # i
    <3>1. j \in 1 .. n /\ i < j /\ j \in i .. j
      BY <1>1, <2>2
    <3>2. Ocr!Span(i).end < Ocr!Span(j).start /\ Ocr!Span(j).start \in Nat
      BY <3>1, SpansAreApart, SpansFollow
    <3>3. ~(Ocr!Span(j).start < end)
      BY <1>1, <3>2
    <3> QED BY <2>2, <3>1, <3>3
  <2> QED BY <2>1, <2>2
<1>6. i \in i .. n
  BY <1>1
<1>7. Ocr!Included(end) = {j \in i .. n : \A q \in i .. j : Ocr!Span(q).start < end}
  BY <1>4 DEF Ocr!Included, a
<1> QED BY <1>5, <1>6, <1>7

\* One line more.
LEMMA ScoreLineKeeps ==
  ASSUME ScoringInv, Ocr!ScoreLine
  PROVE  ScoringInv'
<1> DEFINE n == Len(result)
           lines == Ocr!Lines
           own == Ocr!FragmentOfLine
           k == scored + 1
           line == lines[k]
           end == offset + Len(line)
           included == Ocr!Included(end)
           score == IF ~Ocr!Blank(line) /\ included # {}
                    THEN Ocr!Min({result[i].confidence : i \in included})
                    ELSE None
<1>1. /\ result # None /\ result # <<>> /\ result \in Seq(Fragment)
      /\ scored \in Nat /\ cursor \in Nat \ {0} /\ found \in Seq(Ocr!Found)
      /\ scores \in Seq(Scores \union {None}) /\ Len(scores) = scored
      /\ AtLine /\ Scored
  BY DEF ScoringInv, Ocr!ScoreLine
<1>2. /\ scored < Len(lines) /\ scores' = Append(scores, score)
      /\ offset' = end + 1 /\ cursor' = Ocr!Advanced /\ scored' = scored + 1
      /\ UNCHANGED <<found, result>>
  BY DEF Ocr!ScoreLine
<1>3. lines \in Seq(Text) /\ n \in Nat /\ Len(lines) \in Nat
  BY <1>1, LinesAlwaysStand DEF LinesStand
<1>4. PICK s : Stands(lines, own, s, n) /\ offset = s[k]
  BY <1>1 DEF AtLine
<1>5. /\ lines' = lines /\ own' = own
      /\ \A i : Ocr!Span(i)' = Ocr!Span(i)
  BY <1>2, ResultStands
<1>6. /\ s \in [1 .. Len(lines) + 1 -> Nat]
      /\ \A m \in 1 .. Len(lines) :
            /\ s[m + 1] = s[m] + Len(lines[m]) + 1
            /\ own[m] \in 1 .. n
            /\ Ocr!Span(own[m]).start <= s[m]
            /\ s[m] + Len(lines[m]) <= Ocr!Span(own[m]).end
            /\ Len(lines[m]) \in Nat
            /\ Ocr!Span(own[m]).start \in Nat /\ Ocr!Span(own[m]).end \in Nat
  <2>1. \A m \in 1 .. Len(lines) : lines[m] \in Text
    BY <1>3
  <2>2. \A m \in 1 .. Len(lines) : Len(lines[m]) \in Nat
    BY <2>1 DEF Text
  <2> QED BY <1>1, <1>4, <2>2, SpansFollow DEF Stands
<1>7. PICK i \in 1 .. n : i = own[k]
  <2>1. k \in 1 .. Len(lines)
    BY <1>1, <1>2, <1>3
  <2> QED BY <1>6, <2>1
<1> HIDE DEF lines, own
<1>8. /\ k \in 1 .. Len(lines) /\ cursor <= i /\ offset \in Nat /\ end \in Nat
      /\ Len(line) \in Nat /\ s[k + 1] = end + 1
      /\ Ocr!Span(i).start \in Nat /\ Ocr!Span(i).end \in Nat
      /\ Ocr!Span(i).start <= offset /\ end <= Ocr!Span(i).end
  <2>1. k \in 1 .. Len(lines) /\ k \in 1 .. Len(lines) + 1
    BY <1>1, <1>2, <1>3
  <2>2. cursor <= i
    BY <1>1, <1>2, <1>7 DEF AtLine, lines, own
  <2>3. offset \in Nat /\ Len(line) \in Nat
    BY <1>4, <1>6, <2>1
  <2>4. /\ s[k + 1] = s[k] + Len(line) + 1
        /\ Ocr!Span(i).start <= s[k] /\ s[k] + Len(line) <= Ocr!Span(i).end
        /\ Ocr!Span(i).start \in Nat /\ Ocr!Span(i).end \in Nat
    BY <1>6, <1>7, <2>1
  <2>5. s[k + 1] = end + 1 /\ end <= Ocr!Span(i).end /\ end \in Nat
        /\ Ocr!Span(i).start <= offset
    <3>1. s[k] = offset
      BY <1>4
    <3> QED BY <2>3, <2>4, <3>1
  <2> HIDE DEF end, line
  <2> QED BY <2>1, <2>2, <2>3, <2>4, <2>5
<1>9. ~Ocr!Blank(line) => score = result[i].confidence
  <2> SUFFICES ASSUME ~Ocr!Blank(line)
               PROVE  score = result[i].confidence
    OBVIOUS
  <2>1. line \in Text
    BY <1>3, <1>8
  <2>2. Len(line) # 0
    BY <2>1 DEF Ocr!Blank, Text
  <2>3. offset < end
    BY <1>8, <2>2
  <2>4. included = {i}
    BY <1>1, <1>8, <2>3, IncludedIsOwner
  <2>5. PICK c \in Nat : c = result[i].confidence
    <3>1. result[i] \in Fragment
      BY <1>1
    <3>2. Scores \subseteq Nat
      BY ReadingConstants DEF Ocr!OcrConstants
    <3> QED BY <3>1, <3>2 DEF Fragment
  <2>6. {result[j].confidence : j \in included} = {c}
    BY <2>4, <2>5
  <2>7. Ocr!Min({c}) = c
    <3>1. PICK S \in SUBSET Nat : S = {c}
      OBVIOUS
    <3>2. Ocr!Min(S) \in S
      BY <3>1, LeastOf
    <3> QED BY <3>1, <3>2
  <2> QED BY <2>4, <2>5, <2>6, <2>7
<1>10. score \in Scores \union {None}
  <2>1. CASE ~Ocr!Blank(line)
    <3>1. result[i] \in Fragment
      BY <1>1
    <3> QED BY <1>9, <2>1, <3>1 DEF Fragment
  <2>2. CASE Ocr!Blank(line)
    BY <2>2
  <2> QED BY <2>1, <2>2
<1> HIDE DEF score, end
<1>11. /\ scores' \in Seq(Scores \union {None}) /\ Len(scores') = scored + 1
       /\ scores'[scored + 1] = score
       /\ \A m \in 1 .. scored : scores'[m] = scores[m]
  BY <1>1, <1>2, <1>10
<1>12. Scored'
  <2>1. ASSUME NEW m \in 1 .. scored + 1, ~Ocr!Blank(lines[m])
        PROVE  scores'[m] = result[own[m]].confidence
    <3>1. CASE m = scored + 1
      BY <1>7, <1>9, <1>11, <2>1, <3>1
    <3>2. CASE m # scored + 1
      <4>1. m \in 1 .. scored
        BY <1>1, <3>2
      <4> QED BY <1>1, <1>11, <2>1, <4>1 DEF Scored, lines, own
    <3> QED BY <3>1, <3>2
  <2> QED BY <1>2, <1>5, <2>1 DEF Scored, lines, own
<1>13. ASSUME k < Len(lines)
       PROVE  Ocr!Advanced <= own[k + 1]
  <2>1. k + 1 \in 1 .. Len(lines) /\ k + 1 \in 1 .. Len(lines) + 1
    BY <1>3, <1>8, <1>13
  <2>2. PICK j \in 1 .. n : j = own[k + 1]
    BY <1>6, <2>1
  <2>3. /\ Ocr!Span(j).start <= end + 1 /\ end + 1 <= Ocr!Span(j).end
        /\ Ocr!Span(j).start \in Nat /\ Ocr!Span(j).end \in Nat
    <3>1. /\ Ocr!Span(j).start <= s[k + 1]
          /\ s[k + 1] + Len(lines[k + 1]) <= Ocr!Span(j).end
          /\ Len(lines[k + 1]) \in Nat
          /\ Ocr!Span(j).start \in Nat /\ Ocr!Span(j).end \in Nat
      BY <1>6, <2>1, <2>2
    <3>2. PICK l \in Nat : l = Len(lines[k + 1])
      BY <3>1
    <3>3. PICK e \in Nat : e = end /\ s[k + 1] = e + 1
      BY <1>8
    <3>4. Ocr!Span(j).start <= e + 1 /\ (e + 1) + l <= Ocr!Span(j).end
      BY <3>1, <3>2, <3>3
    <3>5. e + 1 <= Ocr!Span(j).end
      BY <3>1, <3>4
    <3> QED BY <3>1, <3>3, <3>4, <3>5
  <2>4. offset <= end
    BY <1>8 DEF end
  <2>5. Ocr!Span(j).end > offset
    BY <1>8, <2>3, <2>4
  <2>6. cursor <= j
    <3>1. ~(j < i)
      <4> SUFFICES ASSUME j < i
                   PROVE  FALSE
        OBVIOUS
      <4>1. Ocr!Span(j).end < Ocr!Span(i).start
        BY <1>1, SpansAreApart
      <4> QED BY <1>8, <2>3, <2>5, <4>1
    <3> QED BY <1>1, <1>8, <3>1
  <2>7. Ocr!Advanced <= j
    BY <1>1, <1>8, <2>5, <2>6, AdvancedIsFirst
  <2> QED BY <2>2, <2>7
<1>14. AtLine'
  <2>1. scored' <= Len(lines)
    BY <1>1, <1>2, <1>3
  <2>2. Stands(lines, own, s, n)' /\ offset' = s[scored' + 1]
    BY <1>2, <1>4, <1>5, <1>8 DEF Stands, end
  <2>3. scored' < Len(lines) => cursor' <= own[scored' + 1]
    BY <1>2, <1>13
  <2> QED BY <1>2, <1>5, <2>1, <2>2, <2>3 DEF AtLine, lines, own
<1>15. Ocr!Advanced \in Nat \ {0} /\ scored + 1 \in Nat
  BY <1>1, <1>8, AdvancedIsFirst
<1> QED BY <1>1, <1>2, <1>11, <1>12, <1>14, <1>15 DEF ScoringInv

\* No step of the scoring loses its place.
LEMMA ScoringNext ==
  ASSUME ScoringInv, [Ocr!Next]_scoring
  PROVE  ScoringInv'
<1>1. CASE Ocr!Recognize
  BY <1>1, RecognizeKeeps
<1>2. CASE Ocr!ScoreLine
  BY <1>2, ScoreLineKeeps
<1>3. CASE UNCHANGED scoring
  <2>1. UNCHANGED <<found, result, scored, offset, cursor, scores>>
    BY <1>3 DEF scoring
  <2>2. /\ Ocr!Lines' = Ocr!Lines /\ Ocr!FragmentOfLine' = Ocr!FragmentOfLine
        /\ \A i : Ocr!Span(i)' = Ocr!Span(i)
    BY <2>1, ResultStands
  <2>3. AtLine => AtLine'
    BY <2>1, <2>2 DEF AtLine, Stands
  <2>4. Scored => Scored'
    BY <2>1, <2>2 DEF Scored
  <2> QED BY <2>1, <2>3, <2>4 DEF ScoringInv
<1> QED BY <1>1, <1>2, <1>3 DEF Ocr!Next

\* The scoring's invariant holds of every run of it.
LEMMA ScoringInvariance == Ocr!Spec => []ScoringInv
<1>1. Ocr!vars = scoring
  BY DEF Ocr!vars, scoring
<1>2. ScoringInv /\ [Ocr!Next]_(Ocr!vars) => ScoringInv'
  BY <1>1, ScoringNext DEF Ocr!vars, scoring
<1> QED BY ScoringInit, <1>2, PTL DEF Ocr!Spec

\* Offsets and cursor never drift, whatever breaks the fragments hold.
THEOREM LinesAlwaysHaveTheirFragment ==
  Ocr!Spec => []LinesHaveTheirFragment
<1>1. ScoringInv => LinesHaveTheirFragment
  <2> SUFFICES ASSUME ScoringInv, result # None
               PROVE  Scored
    BY DEF LinesHaveTheirFragment, Ocr!LinesHaveTheirFragment, Scored
  <2>1. CASE result = <<>>
    <3>1. scored = 0
      BY <2>1 DEF ScoringInv
    <3> QED BY <3>1 DEF Scored
  <2>2. CASE result # <<>>
    BY <2>2 DEF ScoringInv
  <2> QED BY <2>1, <2>2
<1> QED BY <1>1, ScoringInvariance, PTL

-----------------------------------------------------------------------------
(***************************************************************************)
(* Collecting items.  The lines of a row are those of its name and its     *)
(* figures, all of them after the last line that gave a row up and after   *)
(* those of the items there are (Collected, Apart); nothing is collected   *)
(* in a table that was given up (Ambiguous), and the warnings are of lines *)
(* that were read (Warned).                                                *)
(***************************************************************************)
LineSets == SUBSET Int

Collection == [names : LineSets, numbers : Seq(LineSets), sourceLines : LineSets]
Parsed == [text : LineSets, lines : LineSets, since : Nat]

ParserTypes ==
    /\ number \in Nat /\ discarded \in 0 .. number
    /\ mode \in Parser!Mode /\ row \in Collection
    /\ parsed \in Seq(Parsed)

Collected ==
    /\ row.sourceLines = row.names \union Parser!Figures
    /\ \A i \in row.sourceLines : discarded < i /\ i <= number

Apart ==
    /\ \A a \in DOMAIN parsed :
          /\ parsed[a].lines = parsed[a].text
          /\ \A i \in parsed[a].text : parsed[a].since < i /\ i <= number
          /\ ~done => \A i \in parsed[a].text, j \in row.sourceLines : i < j
    /\ \A a, b \in DOMAIN parsed : a < b =>
          \A i \in parsed[a].text, j \in parsed[b].text : i < j

Ambiguous == mode.ambiguousTable => row.numbers = <<>>

Warned == ~done => \A w \in warnings : w.line \in 0 .. number

ParserInv == ParserTypes /\ Collected /\ Apart /\ Ambiguous /\ Warned

\* The parser starts outside any table, with nothing collected.
LEMMA ParserInit ==
  ASSUME Parser!Init
  PROVE  ParserInv
<1>1. /\ number = 0 /\ discarded = 0 /\ parsed = <<>> /\ warnings = {}
      /\ row = [names |-> {}, numbers |-> <<>>, sourceLines |-> {}]
      /\ mode = [table |-> FALSE, header |-> FALSE, ambiguousTable |-> FALSE]
  BY DEF Parser!Init, Parser!Nothing
<1>2. row \in Collection
  BY <1>1 DEF Collection, LineSets
<1>3. ParserTypes
  BY <1>1, <1>2 DEF ParserTypes, Parser!Mode
<1>4. Collected
  BY <1>1 DEF Collected, Parser!Figures
<1> QED BY <1>1, <1>3, <1>4 DEF ParserInv, Apart, Ambiguous, Warned

-----------------------------------------------------------------------------
\* The figures of one more fragment, and of one.
LEMMA FiguresOfMore ==
  ASSUME NEW s \in Seq(LineSets), NEW x \in LineSets
  PROVE  /\ Append(s, x) \in Seq(LineSets)
         /\ UNION {Append(s, x)[n] : n \in DOMAIN Append(s, x)}
            = x \union UNION {s[n] : n \in DOMAIN s}
         /\ UNION {<<x>>[n] : n \in DOMAIN <<x>>} = x
         /\ UNION {<<>>[n] : n \in DOMAIN <<>>} = {}
         /\ UNION {s[n] : n \in DOMAIN s} \in LineSets
<1>1. /\ Len(s) \in Nat /\ DOMAIN s = 1 .. Len(s)
      /\ DOMAIN Append(s, x) = 1 .. Len(s) + 1
      /\ \A n \in 1 .. Len(s) : Append(s, x)[n] = s[n]
      /\ Append(s, x)[Len(s) + 1] = x
  OBVIOUS
<1>2. \A n \in 1 .. Len(s) + 1 : n \in 1 .. Len(s) \/ n = Len(s) + 1
  BY <1>1
<1>3. \A n \in 1 .. Len(s) : n \in 1 .. Len(s) + 1
  BY <1>1
<1>4. Len(s) + 1 \in 1 .. Len(s) + 1
  BY <1>1
<1> DEFINE A == UNION {Append(s, x)[n] : n \in DOMAIN Append(s, x)}
           B == UNION {s[n] : n \in DOMAIN s}
<1>5. A = x \union B
  <2>1. /\ \A i : i \in A <=> \E n \in DOMAIN Append(s, x) : i \in Append(s, x)[n]
        /\ \A i : i \in B <=> \E n \in DOMAIN s : i \in s[n]
    OBVIOUS
  <2> HIDE DEF A, B
  <2>2. \A i : i \in A <=> i \in B \/ i \in x
    BY <1>1, <1>2, <1>3, <1>4, <2>1
  <2> QED BY <2>2
<1>6. UNION {<<x>>[n] : n \in DOMAIN <<x>>} = x
  OBVIOUS
<1>7. UNION {s[n] : n \in DOMAIN s} \in LineSets
  BY <1>1 DEF LineSets
<1>8. Append(s, x) \in Seq(LineSets)
  OBVIOUS
<1> QED BY <1>5, <1>6, <1>7, <1>8

\* A line is read, which may be collected or have the row given up; the items
\* stay.
LEMMA LineRead ==
  ASSUME ParserInv, ~done,
         number' = number + 1, parsed' = parsed,
         mode' \in Parser!Mode, row' \in Collection,
         discarded' \in {discarded, number, number + 1},
         row'.sourceLines = row'.names \union Parser!Figures',
         \A i \in row'.sourceLines :
            \/ i \in row.sourceLines /\ discarded' = discarded
            \/ i = number + 1 /\ discarded' # number + 1,
         Ambiguous',
         \A w \in warnings' : w \in warnings \/ w.line = number + 1
  PROVE  ParserInv'
<1>1. /\ number \in Nat /\ discarded \in Nat /\ discarded <= number
      /\ parsed \in Seq(Parsed) /\ number + 1 \in Nat
  BY DEF ParserInv, ParserTypes
<1>2. ParserTypes'
  BY <1>1 DEF ParserTypes
<1>3. Collected'
  <2>1. \A i \in row.sourceLines : i \in Int /\ discarded < i /\ i <= number
    BY DEF ParserInv, ParserTypes, Collected, Collection, LineSets
  <2>2. \A i \in row'.sourceLines : discarded' < i /\ i <= number'
    BY <1>1, <2>1
  <2> QED BY <2>2 DEF Collected
<1>4. Apart'
  <2>1. ASSUME NEW a \in DOMAIN parsed
        PROVE  /\ parsed[a].lines = parsed[a].text
               /\ \A i \in parsed[a].text :
                     /\ i \in Int /\ parsed[a].since < i /\ i <= number
                     /\ \A j \in row.sourceLines : i < j
    <3>1. parsed[a] \in Parsed
      BY <1>1, <2>1
    <3> QED BY <2>1, <3>1 DEF ParserInv, Apart, Parsed, LineSets
  <2>2. ASSUME NEW a \in DOMAIN parsed, NEW i \in parsed[a].text
        PROVE  i <= number' /\ \A j \in row'.sourceLines : i < j
    BY <1>1, <2>1, <2>2
  <2> QED BY <2>1, <2>2 DEF ParserInv, Apart
<1>5. Warned'
  BY <1>1 DEF ParserInv, Warned
<1> QED BY <1>2, <1>3, <1>4, <1>5 DEF ParserInv

\* A row becomes an item, with the line that completes it or without one.
LEMMA ItemMade ==
  ASSUME ParserInv, ~done,
         number' \in {number, number + 1}, discarded' = discarded,
         mode' \in Parser!Mode,
         NEW S \in LineSets, S \subseteq row.sourceLines \union {number + 1},
         number' = number => S \subseteq row.sourceLines,
         parsed' = Append(parsed, [text |-> S, lines |-> S, since |-> discarded]),
         \/ row' = row /\ done' /\ (mode' = mode)
         \/ row' = Parser!Nothing
            /\ (\A w \in warnings' : w \in warnings \/ w.line = number')
  PROVE  ParserInv'
<1> DEFINE item1 == [text |-> S, lines |-> S, since |-> discarded]
<1>1. /\ number \in Nat /\ discarded \in Nat /\ discarded <= number
      /\ number' \in Nat /\ number <= number' /\ number' <= number + 1
      /\ parsed \in Seq(Parsed) /\ item1 \in Parsed
      /\ \A i \in row.sourceLines : i \in Int /\ discarded < i /\ i <= number
  BY DEF ParserInv, ParserTypes, Parsed, Collected, Collection, LineSets
<1>2. \A i \in S : i \in Int /\ discarded < i /\ i <= number'
  BY <1>1
<1>3. /\ row' \in Collection
      /\ row'.sourceLines = row'.names \union Parser!Figures'
      /\ \A i \in row'.sourceLines : discarded' < i /\ i <= number'
      /\ Ambiguous'
  <2>1. CASE row' = row /\ done' /\ mode' = mode
    BY <1>1, <2>1 DEF ParserInv, ParserTypes, Collected, Ambiguous,
       Parser!Figures
  <2>2. CASE row' = Parser!Nothing
    <3>1. /\ row' = [names |-> {}, numbers |-> <<>>, sourceLines |-> {}]
      BY <2>2 DEF Parser!Nothing
    <3>2. row' \in Collection
      BY <3>1 DEF Collection, LineSets
    <3>3. Parser!Figures' = {}
      BY <3>1 DEF Parser!Figures
    <3> QED BY <3>1, <3>2, <3>3 DEF Ambiguous
  <2> QED BY <2>1, <2>2
<1>4. ParserTypes' /\ Collected'
  BY <1>1, <1>3 DEF ParserTypes, Collected
<1>5. /\ DOMAIN parsed = 1 .. Len(parsed) /\ Len(parsed) \in Nat
      /\ DOMAIN parsed' = 1 .. Len(parsed) + 1
      /\ \A a \in DOMAIN parsed : parsed'[a] = parsed[a]
      /\ parsed'[Len(parsed) + 1] = item1
  BY <1>1
<1>6. ASSUME NEW a \in DOMAIN parsed
      PROVE  /\ parsed[a].lines = parsed[a].text
             /\ \A i \in parsed[a].text :
                   /\ i \in Int /\ parsed[a].since < i /\ i <= number
                   /\ \A j \in row.sourceLines : i < j
  <2>1. parsed[a] \in Parsed
    BY <1>1, <1>6
  <2> QED BY <1>6, <2>1 DEF ParserInv, Apart, Parsed, LineSets
<1>7. ASSUME NEW a \in DOMAIN parsed, NEW i \in parsed[a].text
      PROVE  i <= number' /\ \A j \in S : i < j
  BY <1>1, <1>6, <1>7
<1> HIDE DEF item1
<1>8. Apart'
  <2>1. \A a \in DOMAIN parsed' : a \in DOMAIN parsed \/ a = Len(parsed) + 1
    BY <1>5
  <2>2. \A a, b \in DOMAIN parsed' : a < b => a \in DOMAIN parsed
    BY <1>5
  <2>3. item1.text = S /\ item1.lines = S /\ item1.since = discarded
    BY DEF item1
  <2>4. ASSUME NEW a \in DOMAIN parsed'
        PROVE  /\ parsed'[a].lines = parsed'[a].text
               /\ \A i \in parsed'[a].text :
                     parsed'[a].since < i /\ i <= number'
    BY <1>2, <1>5, <1>6, <1>7, <2>1, <2>3, <2>4
  <2>5. ASSUME NEW a \in DOMAIN parsed', NEW b \in DOMAIN parsed', a < b,
               NEW i \in parsed'[a].text, NEW j \in parsed'[b].text
        PROVE  i < j
    <3>1. a \in DOMAIN parsed /\ parsed'[a] = parsed[a] /\ i \in parsed[a].text
      BY <1>5, <2>2, <2>5
    <3>2. CASE b \in DOMAIN parsed
      <4>1. j \in parsed[b].text
        BY <1>5, <2>5, <3>2
      <4> QED BY <2>5, <3>1, <3>2, <4>1 DEF ParserInv, Apart
    <3>3. CASE b = Len(parsed) + 1
      BY <1>5, <1>7, <2>3, <2>5, <3>1, <3>3
    <3> QED BY <2>1, <2>5, <3>2, <3>3
  <2>6. ~done' => row'.sourceLines = {}
    BY DEF Parser!Nothing
  <2> QED BY <2>4, <2>5, <2>6 DEF Apart
<1>9. Warned'
  BY <1>1 DEF ParserInv, Warned
<1> QED BY <1>3, <1>4, <1>8, <1>9 DEF ParserInv

-----------------------------------------------------------------------------
\* A line that is of no row.
LEMMA LinePassed ==
  ASSUME ParserInv, ~done, number' = number + 1, mode' \in Parser!Mode,
         mode'.ambiguousTable = mode.ambiguousTable,
         UNCHANGED <<row, discarded, parsed, warnings>>
  PROVE  ParserInv'
<1>1. /\ row' \in Collection
      /\ row'.sourceLines = row'.names \union Parser!Figures'
      /\ Ambiguous'
  BY DEF ParserInv, ParserTypes, Collected, Ambiguous, Parser!Figures
<1> QED BY <1>1, LineRead

\* A line at which the row is given up.
LEMMA RowGivenUp ==
  ASSUME ParserInv, ~done, number' = number + 1, mode' \in Parser!Mode,
         row' = Parser!Nothing, discarded' = number + 1, parsed' = parsed,
         \A w \in warnings' : w \in warnings \/ w.line = number + 1
  PROVE  ParserInv'
<1>1. row' = [names |-> {}, numbers |-> <<>>, sourceLines |-> {}]
  BY DEF Parser!Nothing
<1>2. row' \in Collection /\ Parser!Figures' = {}
  BY <1>1 DEF Collection, LineSets, Parser!Figures
<1> QED BY <1>1, <1>2, LineRead DEF Ambiguous

\* A line that is collected.
LEMMA LineCollected ==
  ASSUME ParserInv, ~done, number' = number + 1, ~mode.ambiguousTable,
         UNCHANGED <<mode, discarded, parsed, warnings>>,
         row' \in Collection,
         row'.sourceLines = row'.names \union Parser!Figures',
         row'.sourceLines = row.sourceLines \union {number + 1}
  PROVE  ParserInv'
<1>1. mode' \in Parser!Mode /\ Ambiguous' /\ number \in Nat /\ discarded <= number
  BY DEF ParserInv, ParserTypes, Ambiguous
<1>2. discarded' # number + 1 /\ discarded \in Nat
  BY <1>1 DEF ParserInv, ParserTypes
<1> QED BY <1>1, <1>2, LineRead

\* Figures as one more fragment.
LEMMA FiguresCollected ==
  ASSUME ParserInv, row' = Parser!WithFigures
  PROVE  /\ row' \in Collection
         /\ row'.sourceLines = row'.names \union Parser!Figures'
         /\ row'.sourceLines = row.sourceLines \union {number + 1}
<1> DEFINE x == {number + 1}
<1>1. /\ row.numbers \in Seq(LineSets) /\ row.names \in LineSets
      /\ row.sourceLines \in LineSets /\ x \in LineSets
      /\ row.sourceLines = row.names \union Parser!Figures
  BY DEF ParserInv, ParserTypes, Collected, Collection, LineSets
<1>2. row' = [ names |-> row.names, numbers |-> Append(row.numbers, x),
               sourceLines |-> row.sourceLines \union x ]
  BY DEF Parser!WithFigures, Parser!WithLine, Parser!Here, ParserInv,
     ParserTypes, Collection
<1> HIDE DEF x
<1>0. PICK s \in Seq(LineSets) : s = row.numbers
  BY <1>1
<1>3. row' \in Collection
  <2>1. Append(s, x) \in Seq(LineSets)
    BY <1>1
  <2>2. row.sourceLines \union x \in LineSets
    BY <1>1 DEF LineSets
  <2> QED BY <1>0, <1>1, <1>2, <2>1, <2>2 DEF Collection
<1>4. Parser!Figures' = x \union Parser!Figures
  <2>1. UNION {Append(s, x)[n] : n \in DOMAIN Append(s, x)}
        = x \union UNION {s[n] : n \in DOMAIN s}
    BY <1>1, FiguresOfMore
  <2>2. row'.numbers = Append(s, x)
    BY <1>0, <1>2
  <2> QED BY <1>0, <2>1, <2>2 DEF Parser!Figures
<1> QED BY <1>1, <1>2, <1>3, <1>4 DEF x

\* Figures that are one fragment with those before.
LEMMA StartCollected ==
  ASSUME ParserInv, NEW prefix \in {{}, Parser!Figures \union {Parser!Here}},
         row' = [ names |-> row.names \union prefix,
                  numbers |-> <<Parser!Figures \union {Parser!Here}>>,
                  sourceLines |-> Parser!WithLine(Parser!Here) ]
  PROVE  /\ row' \in Collection
         /\ row'.sourceLines = row'.names \union Parser!Figures'
         /\ row'.sourceLines = row.sourceLines \union {number + 1}
<1> DEFINE x == Parser!Figures \union {number + 1}
<1>1. /\ row.numbers \in Seq(LineSets) /\ row.names \in LineSets
      /\ row.sourceLines \in LineSets /\ number + 1 \in Int
      /\ row.sourceLines = row.names \union Parser!Figures
  BY DEF ParserInv, ParserTypes, Collected, Collection, LineSets
<1>2. Parser!Figures \in LineSets
  BY <1>1, FiguresOfMore DEF Parser!Figures
<1>3. x \in LineSets /\ prefix \in LineSets
  BY <1>1, <1>2 DEF LineSets, Parser!Here
<1>4. row' = [ names |-> row.names \union prefix, numbers |-> <<x>>,
               sourceLines |-> row.sourceLines \union {number + 1} ]
  BY DEF Parser!WithLine, Parser!Here
<1>5. prefix \subseteq x
  BY DEF Parser!Here
<1>6. x = Parser!Figures \union {number + 1}
  OBVIOUS
<1> HIDE DEF x
<1>7. row' \in Collection
  <2>1. <<x>> \in Seq(LineSets)
    BY <1>3
  <2>2. /\ row.names \union prefix \in LineSets
        /\ row.sourceLines \union {number + 1} \in LineSets
    BY <1>1, <1>3 DEF LineSets
  <2> QED BY <1>4, <2>1, <2>2 DEF Collection
<1>8. Parser!Figures' = x
  BY <1>3, <1>4, FiguresOfMore DEF Parser!Figures
<1>9. row.sourceLines \union {number + 1} = (row.names \union prefix) \union x
  BY <1>1, <1>5, <1>6
<1> QED BY <1>4, <1>7, <1>8, <1>9

\* A part of a name.
LEMMA LettersCollected ==
  ASSUME ParserInv, row.numbers = <<>>,
         row' = [row EXCEPT !.names = row.names \union {number + 1},
                            !.sourceLines = row.sourceLines \union {number + 1}]
  PROVE  /\ row' \in Collection
         /\ row'.sourceLines = row'.names \union Parser!Figures'
         /\ row'.sourceLines = row.sourceLines \union {number + 1}
<1>1. /\ row.numbers \in Seq(LineSets) /\ row.names \in LineSets
      /\ row.sourceLines \in LineSets /\ number + 1 \in Int
      /\ row.sourceLines = row.names \union Parser!Figures
      /\ row \in Collection
  BY DEF ParserInv, ParserTypes, Collected, Collection, LineSets
<1>2. row' = [ names |-> row.names \union {number + 1}, numbers |-> row.numbers,
               sourceLines |-> row.sourceLines \union {number + 1} ]
  BY <1>1 DEF Collection
<1>3. row' \in Collection
  BY <1>1, <1>2 DEF Collection, LineSets
<1>4. Parser!Figures = {} /\ Parser!Figures' = {}
  BY <1>2 DEF Parser!Figures
<1> QED BY <1>1, <1>2, <1>3, <1>4

\* Warnings of a line, if there are any.
LEMMA ReportsAreOfTheLine ==
  ASSUME NEW line, NEW about, NEW w \in Parser!Reports(line, about)
  PROVE  w.line = line
BY DEF Parser!Reports

\* A complete row keeps the parser's invariant.
LEMMA MatchKeeps ==
  ASSUME ParserInv, NEW kind, Parser!Match(kind)
  PROVE  ParserInv'
<1>1. /\ ~done /\ number' = number + 1 /\ ~mode.ambiguousTable
      /\ row' = Parser!Nothing /\ discarded' = discarded
      /\ mode' = [mode EXCEPT !.header = FALSE]
  BY DEF Parser!Match, Parser!ReadRow, Parser!Read, Parser!Comes,
     Parser!Cleared
<1>2. mode' \in Parser!Mode /\ ~mode'.ambiguousTable
  BY <1>1 DEF ParserInv, ParserTypes, Parser!Mode
<1>3. \A w \in warnings' : w \in warnings \/ w.line = number + 1
  BY ReportsAreOfTheLine DEF Parser!Match, Parser!Warn, Parser!Here
<1>4. CASE parsed' = parsed
  <2>1. row' = [names |-> {}, numbers |-> <<>>, sourceLines |-> {}]
    BY <1>1 DEF Parser!Nothing
  <2>2. row' \in Collection /\ Parser!Figures' = {}
    BY <2>1 DEF Collection, LineSets, Parser!Figures
  <2> QED BY <1>1, <1>2, <1>3, <1>4, <2>1, <2>2, LineRead DEF Ambiguous
<1>5. CASE parsed' # parsed
  <2> DEFINE S == row.sourceLines \union {number + 1}
  <2>1. parsed' = Append(parsed, Parser!Item(row.names \union Parser!Figures
                                                \union {Parser!Here},
                                             Parser!WithLine(Parser!Here)))
    BY <1>5 DEF Parser!Match
  <2>2. /\ row.names \union Parser!Figures \union {Parser!Here} = S
        /\ Parser!WithLine(Parser!Here) = S
    BY DEF ParserInv, Collected, Parser!WithLine, Parser!Here
  <2>3. S \in LineSets /\ number' # number
    BY <1>1 DEF ParserInv, ParserTypes, Collection, LineSets
  <2> HIDE DEF S
  <2>4. parsed' = Append(parsed, [text |-> S, lines |-> S, since |-> discarded])
    BY <2>1, <2>2 DEF Parser!Item
  <2>5. S \subseteq row.sourceLines \union {number + 1}
    BY DEF S
  <2>6. number' \in {number, number + 1}
    BY <1>1
  <2>7. row' = Parser!Nothing
        /\ (\A w \in warnings' : w \in warnings \/ w.line = number')
    BY <1>1, <1>3
  <2> QED BY <1>1, <1>2, <2>3, <2>4, <2>5, <2>6, <2>7, ItemMade
<1> QED BY <1>4, <1>5

\* The end: with an item of what is left, or without.
LEMMA FinishKeeps ==
  ASSUME ParserInv, ~done, number' \in {number, number + 1}, Parser!Finish
  PROVE  ParserInv'
<1>1. done' /\ UNCHANGED <<mode, row, discarded>>
  BY DEF Parser!Finish
<1>2. /\ mode' \in Parser!Mode /\ number \in Nat /\ number' \in Nat
      /\ number <= number'
  BY <1>1 DEF ParserInv, ParserTypes
<1>3. CASE parsed' = parsed
  <2>1. ParserTypes'
    BY <1>1, <1>2, <1>3 DEF ParserInv, ParserTypes
  <2>2. Collected'
    <3>1. \A i \in row.sourceLines : i \in Int
      BY DEF ParserInv, ParserTypes, Collection, LineSets
    <3>2. \A i \in row.sourceLines : i <= number'
      BY <1>2, <3>1 DEF ParserInv, Collected
    <3> QED BY <1>1, <1>2, <3>2 DEF ParserInv, Collected, Parser!Figures
  <2>3. Apart'
    <3>1. ASSUME NEW a \in DOMAIN parsed, NEW i \in parsed[a].text
          PROVE  i <= number'
      <4>1. parsed[a] \in Parsed
        BY <3>1 DEF ParserInv, ParserTypes
      <4>2. i \in Int
        BY <3>1, <4>1 DEF Parsed, LineSets
      <4> QED BY <1>2, <3>1, <4>2 DEF ParserInv, Apart
    <3> QED BY <1>1, <1>3, <3>1 DEF ParserInv, Apart
  <2>4. Ambiguous' /\ Warned'
    BY <1>1 DEF ParserInv, Ambiguous, Warned
  <2> QED BY <2>1, <2>2, <2>3, <2>4 DEF ParserInv
<1>4. CASE parsed' # parsed
  <2> DEFINE S == row.sourceLines
  <2>1. parsed' = Append(parsed, Parser!Item(row.names \union Parser!Figures, S))
    BY <1>4 DEF Parser!Finish
  <2>2. row.names \union Parser!Figures = S
    BY DEF ParserInv, Collected
  <2>3. S \in LineSets /\ S \subseteq row.sourceLines
        /\ S \subseteq row.sourceLines \union {number + 1}
    BY DEF ParserInv, ParserTypes, Collection
  <2> HIDE DEF S
  <2>4. parsed' = Append(parsed, [text |-> S, lines |-> S, since |-> discarded])
    BY <2>1, <2>2 DEF Parser!Item
  <2>5. row' = row /\ done' /\ (mode' = mode) /\ discarded' = discarded
    BY <1>1
  <2> QED BY <1>2, <2>3, <2>4, <2>5, ItemMade
<1> QED BY <1>3, <1>4

\* No line loses what the parser's invariant says.
LEMMA ParserNext ==
  ASSUME ParserInv, [Parser!Next]_parsing
  PROVE  ParserInv'
<1>0. mode \in Parser!Mode /\ mode.table \in BOOLEAN /\ number \in Nat
  BY DEF ParserInv, ParserTypes, Parser!Mode
<1>1. ASSUME NEW kind, Parser!Skip(kind)
      PROVE  ParserInv'
  BY <1>0, <1>1, LinePassed DEF Parser!Skip, Parser!Read, Parser!Comes,
     Parser!Quiet
<1>2. ASSUME Parser!TableHeader
      PROVE  ParserInv'
  <2>1. mode' \in Parser!Mode
    BY <1>2 DEF Parser!TableHeader, Parser!Mode
  <2> QED BY <1>2, <2>1, RowGivenUp DEF Parser!TableHeader, Parser!Read,
          Parser!Comes, Parser!Quiet, Parser!Discard, Parser!Cleared,
          Parser!Here
<1>3. ASSUME Parser!PriceHeader \/ Parser!QuantityHeader
             \/ Parser!FooterOfHeader \/ Parser!FooterOfTable
             \/ Parser!FooterOfName \/ Parser!InAmbiguousTable
      PROVE  ParserInv'
  <2>1. mode' \in Parser!Mode /\ mode'.ambiguousTable = mode.ambiguousTable
    BY <1>0, <1>3 DEF Parser!PriceHeader, Parser!QuantityHeader,
       Parser!FooterOfHeader, Parser!FooterOfTable, Parser!FooterOfName,
       Parser!InAmbiguousTable, Parser!Mode
  <2>2. ~done /\ number' = number + 1
    BY <1>3 DEF Parser!PriceHeader, Parser!QuantityHeader,
       Parser!FooterOfHeader, Parser!FooterOfTable, Parser!FooterOfName,
       Parser!InAmbiguousTable, Parser!Read, Parser!Comes
  <2>3. UNCHANGED <<row, discarded, parsed, warnings>>
    BY <1>3 DEF Parser!PriceHeader, Parser!QuantityHeader,
       Parser!FooterOfHeader, Parser!FooterOfTable, Parser!FooterOfName,
       Parser!InAmbiguousTable, Parser!Quiet
  <2> QED BY <2>1, <2>2, <2>3, LinePassed
<1>4. ASSUME Parser!EndOfText \/ Parser!Footer
      PROVE  ParserInv'
  BY <1>4, FinishKeeps DEF Parser!EndOfText, Parser!Footer, Parser!Comes
<1>5. ASSUME Parser!Ignored \/ Parser!Unreadable
      PROVE  ParserInv'
  BY <1>0, <1>5, RowGivenUp DEF Parser!Ignored, Parser!Unreadable,
     Parser!ReadRow, Parser!Read, Parser!Comes, Parser!Quiet, Parser!Discard,
     Parser!Cleared, Parser!Here
<1>6. ASSUME Parser!Fragment
      PROVE  ParserInv'
  <2>1. ~done /\ number' = number + 1 /\ ~mode.ambiguousTable
        /\ parsed' = parsed
    BY <1>6 DEF Parser!Fragment, Parser!ReadRow, Parser!Read, Parser!Comes
  <2>2. CASE row' = Parser!WithFigures /\ UNCHANGED <<mode, warnings, discarded>>
    BY <2>1, <2>2, FiguresCollected, LineCollected
  <2>3. CASE /\ Parser!Discard /\ Parser!Warn("columns")
             /\ mode' = [mode EXCEPT !.ambiguousTable = mode.table]
    <3>1. mode' \in Parser!Mode
      BY <1>0, <2>3 DEF Parser!Mode
    <3>2. \A w \in warnings' : w \in warnings \/ w.line = number + 1
      BY <2>3, ReportsAreOfTheLine DEF Parser!Warn, Parser!Here
    <3> QED BY <2>1, <2>3, <3>1, <3>2, RowGivenUp DEF Parser!Discard,
            Parser!Cleared, Parser!Here
  <2> QED BY <1>6, <2>2, <2>3 DEF Parser!Fragment
<1>7. ASSUME NEW kind, Parser!Match(kind)
      PROVE  ParserInv'
  BY <1>7, MatchKeeps
<1>8. ASSUME NEW kind, Parser!Start(kind)
      PROVE  ParserInv'
  <2>1. /\ ~done /\ number' = number + 1 /\ ~mode.ambiguousTable
        /\ UNCHANGED <<mode, discarded, parsed, warnings>>
    BY <1>8 DEF Parser!Start, Parser!ReadRow, Parser!Read, Parser!Comes,
       Parser!Quiet
  <2>2. /\ row' \in Collection
        /\ row'.sourceLines = row'.names \union Parser!Figures'
        /\ row'.sourceLines = row.sourceLines \union {number + 1}
    BY <1>8, StartCollected DEF Parser!Start
  <2> QED BY <2>1, <2>2, LineCollected
<1>9. ASSUME NEW kind, Parser!Times(kind)
      PROVE  ParserInv'
  <2>1. /\ ~done /\ number' = number + 1 /\ ~mode.ambiguousTable
        /\ UNCHANGED <<mode, discarded, parsed, warnings>>
        /\ row' = Parser!WithFigures
    BY <1>9 DEF Parser!Times, Parser!ReadRow, Parser!Read, Parser!Comes,
       Parser!Quiet
  <2> QED BY <2>1, FiguresCollected, LineCollected
<1>10. ASSUME NEW kind, Parser!Letters(kind)
       PROVE  ParserInv'
  <2>1. /\ ~done /\ number' = number + 1 /\ ~mode.ambiguousTable
        /\ UNCHANGED <<mode, discarded, parsed, warnings>>
        /\ row.numbers = <<>>
        /\ row' = [row EXCEPT !.names = row.names \union {number + 1},
                              !.sourceLines = row.sourceLines \union {number + 1}]
    BY <1>10 DEF Parser!Letters, Parser!ReadRow, Parser!Read, Parser!Comes,
       Parser!Quiet, Parser!WithLine, Parser!Here
  <2> QED BY <2>1, LettersCollected, LineCollected
<1>11. ASSUME NEW kind, Parser!LettersAfterFigures(kind)
       PROVE  ParserInv'
  <2>1. /\ ~done /\ number' = number + 1 /\ ~mode.ambiguousTable
        /\ parsed' = parsed /\ Parser!Warn("row")
        /\ mode' = [mode EXCEPT !.ambiguousTable = mode.table]
    BY <1>11 DEF Parser!LettersAfterFigures, Parser!ReadRow, Parser!Read,
       Parser!Comes
  <2>2. mode' \in Parser!Mode
    BY <1>0, <2>1 DEF Parser!Mode
  <2>3. \A w \in warnings' : w \in warnings \/ w.line = number + 1
    BY <2>1, ReportsAreOfTheLine DEF Parser!Warn, Parser!Here
  <2>4. CASE Parser!Discard
    BY <2>1, <2>2, <2>3, <2>4, RowGivenUp DEF Parser!Discard,
       Parser!Cleared, Parser!Here
  <2>5. CASE ~Parser!Discard
    <3>1. /\ row' = [ names |-> {number + 1}, numbers |-> <<>>,
                      sourceLines |-> {number + 1} ]
          /\ discarded' = number
      BY <1>11, <2>5 DEF Parser!LettersAfterFigures, Parser!Here
    <3>2. row' \in Collection /\ Parser!Figures' = {} /\ Ambiguous'
      BY <1>0, <3>1 DEF Collection, LineSets, Parser!Figures, Ambiguous
    <3>3. number # number + 1
      BY <1>0
    <3> QED BY <2>1, <2>2, <2>3, <3>1, <3>2, <3>3, LineRead
  <2> QED BY <2>4, <2>5
<1>12. CASE UNCHANGED parsing
  BY <1>12 DEF parsing, ParserInv, ParserTypes, Collected, Apart, Ambiguous,
     Warned, Parser!Figures
<1> QED BY <1>1, <1>2, <1>3, <1>4, <1>5, <1>6, <1>7, <1>8, <1>9, <1>10,
        <1>11, <1>12 DEF Parser!Next

\* The parser's invariant holds of every run of it.
LEMMA ParserInvariance == Parser!Spec => []ParserInv
<1>1. Parser!vars = parsing
  BY DEF Parser!vars, parsing
<1>2. ParserInv /\ [Parser!Next]_(Parser!vars) => ParserInv'
  BY <1>1, ParserNext DEF Parser!vars, parsing
<1> QED BY ParserInit, <1>2, PTL DEF Parser!Spec

\* No line is in two items, none joins lines from before and after one that
\* separates them, and the lines of an item's confidence are those of its text:
\* names, numbers and source_lines are cleared together, wherever a row ends.
THEOREM ItemsAreAlwaysOfTheirLines ==
  Parser!Spec => []ItemsAreOfTheirLines
<1>1. ASSUME ParserInv
      PROVE  Parser!ItemsAreOfTheirLines
  <2>1. \A a, b \in DOMAIN parsed : a < b =>
          \A i \in parsed[a].text \union parsed[a].lines,
            j \in parsed[b].text \union parsed[b].lines : i < j
    BY <1>1 DEF ParserInv, Apart
  <2>2. ASSUME NEW a \in DOMAIN parsed, NEW i \in parsed[a].text
        PROVE  i > parsed[a].since
    <3>1. parsed[a] \in Parsed
      BY <1>1, <2>2 DEF ParserInv, ParserTypes
    <3>2. i \in Int /\ parsed[a].since \in Int
      BY <2>2, <3>1 DEF Parsed, LineSets
    <3> QED BY <1>1, <2>2, <3>2 DEF ParserInv, Apart
  <2> QED BY <1>1, <2>1, <2>2 DEF Parser!ItemsAreOfTheirLines, ParserInv, Apart
<1> QED BY <1>1, ParserInvariance, PTL DEF ItemsAreOfTheirLines

\* A warning of this line is a new one.
LEMMA WarningIsNew ==
  ASSUME ParserInv, ~done, NEW about, Parser!Warn(about)
  PROVE  warnings' # warnings
<1> DEFINE w == [line |-> Parser!Here, about |-> about]
<1>1. w \in warnings'
  BY DEF Parser!Warn, Parser!Reports
<1>2. w.line = number + 1 /\ number \in Nat
  BY DEF Parser!Here, ParserInv, ParserTypes
<1> HIDE DEF w
<1>3. w \notin warnings
  BY <1>2 DEF ParserInv, Warned
<1> QED BY <1>1, <1>3

\* Appending changes a sequence, and leaves one that is not empty.
LEMMA AppendedIsAnother ==
  ASSUME NEW T, NEW s \in Seq(T), NEW x
  PROVE  Append(s, x) # s /\ Append(s, x) # <<>>
<1>1. Len(s) \in Nat /\ Len(Append(s, x)) = Len(s) + 1 /\ Len(<<>>) = 0
  OBVIOUS
<1> QED BY <1>1

\* Nothing comes of a table that was given up, nor of what was collected
\* before it was, and no figures are lost without a warning: the parser leaves
\* to the owner what it cannot tell.
THEOREM UnreadIsAlwaysReported ==
  Parser!Spec => UnreadIsReported
<1> DEFINE Given == \/ parsed' # parsed
                    \/ warnings' # warnings
                    \/ Parser!TableHeader \/ Parser!Ignored \/ Parser!Unreadable
           Step == /\ mode.ambiguousTable => parsed' = parsed
                   /\ row.numbers # <<>> /\ row'.numbers = <<>> => Given
<1>1. ASSUME ParserInv, Parser!Next
      PROVE  Step
  <2>0. parsed \in Seq(Parsed) /\ row.numbers \in Seq(LineSets)
    BY <1>1 DEF ParserInv, ParserTypes, Collection
  <2>1. ASSUME NEW kind, Parser!Skip(kind)
        PROVE  Step
    BY <2>1 DEF Parser!Skip, Parser!Quiet
  <2>2. ASSUME Parser!TableHeader \/ Parser!Ignored \/ Parser!Unreadable
        PROVE  Step
    BY <2>2 DEF Parser!TableHeader, Parser!Ignored, Parser!Unreadable,
       Parser!Quiet
  <2>3. ASSUME Parser!PriceHeader \/ Parser!QuantityHeader
               \/ Parser!FooterOfHeader \/ Parser!FooterOfTable
               \/ Parser!FooterOfName \/ Parser!InAmbiguousTable
        PROVE  Step
    BY <2>3 DEF Parser!PriceHeader, Parser!QuantityHeader,
       Parser!FooterOfHeader, Parser!FooterOfTable, Parser!FooterOfName,
       Parser!InAmbiguousTable, Parser!Quiet
  <2>4. ASSUME Parser!EndOfText \/ Parser!Footer
        PROVE  Step
    <3>1. Parser!Finish
      BY <2>4 DEF Parser!EndOfText, Parser!Footer
    <3>2. row' = row /\ (mode.ambiguousTable => row.numbers = <<>>)
      BY <1>1, <3>1 DEF Parser!Finish, ParserInv, Ambiguous
    <3>3. mode.ambiguousTable => parsed' = parsed
      BY <3>1, <3>2 DEF Parser!Finish
    <3> QED BY <3>2, <3>3
  <2>5. ASSUME Parser!Fragment
        PROVE  Step
    <3>1. parsed' = parsed /\ ~done
      BY <2>5 DEF Parser!Fragment, Parser!ReadRow, Parser!Read, Parser!Comes
    <3>2. CASE row' = Parser!WithFigures
      <4>1. row \in Collection
        BY <1>1 DEF ParserInv, ParserTypes
      <4>2. row'.numbers = Append(row.numbers, {Parser!Here})
        BY <3>2, <4>1 DEF Parser!WithFigures, Collection
      <4> QED BY <2>0, <3>1, <4>2, AppendedIsAnother
    <3>3. CASE Parser!Warn("columns")
      BY <1>1, <3>1, <3>3, WarningIsNew
    <3> QED BY <2>5, <3>2, <3>3 DEF Parser!Fragment
  <2>6. ASSUME NEW kind, Parser!Match(kind)
        PROVE  Step
    <3>1. ~done /\ ~mode.ambiguousTable
      BY <2>6 DEF Parser!Match, Parser!ReadRow, Parser!Read, Parser!Comes
    <3>2. \/ parsed' = Append(parsed, Parser!Item(row.names \union Parser!Figures
                                                     \union {Parser!Here},
                                                  Parser!WithLine(Parser!Here)))
          \/ Parser!Warn("name")
      BY <2>6 DEF Parser!Match
    <3> QED BY <1>1, <2>0, <3>1, <3>2, AppendedIsAnother, WarningIsNew
  <2>7. ASSUME NEW kind, Parser!Start(kind)
        PROVE  Step
    <3>1. parsed' = parsed
      BY <2>7 DEF Parser!Start, Parser!Quiet
    <3>2. row'.numbers = <<Parser!Figures \union {Parser!Here}>>
      BY <2>7 DEF Parser!Start
    <3>3. row'.numbers # <<>>
      BY <3>2
    <3> QED BY <3>1, <3>3
  <2>8. ASSUME NEW kind, Parser!Times(kind)
        PROVE  Step
    <3>1. parsed' = parsed /\ row \in Collection /\ row' = Parser!WithFigures
      BY <1>1, <2>8 DEF Parser!Times, Parser!Quiet, ParserInv, ParserTypes
    <3>2. row'.numbers = Append(row.numbers, {Parser!Here})
      BY <3>1 DEF Parser!WithFigures, Collection
    <3> QED BY <2>0, <3>1, <3>2, AppendedIsAnother
  <2>9. ASSUME NEW kind, Parser!Letters(kind)
        PROVE  Step
    BY <2>9 DEF Parser!Letters, Parser!Quiet
  <2>10. ASSUME NEW kind, Parser!LettersAfterFigures(kind)
         PROVE  Step
    <3>1. parsed' = parsed /\ ~done /\ Parser!Warn("row")
      BY <2>10 DEF Parser!LettersAfterFigures, Parser!ReadRow, Parser!Read,
         Parser!Comes
    <3> QED BY <1>1, <3>1, WarningIsNew
  <2> HIDE DEF Step
  <2> QED BY <1>1, <2>1, <2>2, <2>3, <2>4, <2>5, <2>6, <2>7, <2>8, <2>9,
          <2>10 DEF Parser!Next
<1>2. ParserInv /\ [Parser!Next]_(Parser!vars) => [Step]_(Parser!vars)
  BY <1>1
<1>3. Parser!Spec => [][Step]_(Parser!vars)
  BY <1>2, ParserInvariance, PTL DEF Parser!Spec
<1> QED BY <1>3 DEF UnreadIsReported, Parser!UnreadIsReported

-----------------------------------------------------------------------------
(***************************************************************************)
(* Categories.  Every action rewrites some rows, each to a row that is     *)
(* right by itself (Right), so the invariant is one of rows; that a choice *)
(* is never overridden needs, besides, that the choices of the rows have   *)
(* been counted (part of Right).                                           *)
(***************************************************************************)
\* What holds of a row when n choices have been made.
Right(entry, n) ==
    /\ entry \in Item
    /\ entry.source = "manual" <=> entry.confirmed > 0
    /\ entry.confirmed <= n
    /\ entry.source = "automatic" /\ entry.input # None =>
          entry.category = entry.suggested
    /\ entry.input # None =>
          /\ entry.input \in {entry.raw, entry.normalized}
          /\ entry.suggested \in {Rule[entry.input], None}

CategoryInv ==
    /\ TypeOK
    /\ \A i \in Items : Present(i) => Right(item[i], choice)

-----------------------------------------------------------------------------
\* A row stays right when another row is chosen for.
LEMMA RightLater ==
  ASSUME NEW n \in Nat, NEW entry, Right(entry, n)
  PROVE  Right(entry, n + 1)
  BY DEF Right, Item

\* What the rules make of a name is right.
LEMMA SuggestedRight ==
  ASSUME NEW n \in Nat, NEW raw \in Names, NEW normalized \in Names \union {None}
  PROVE  Right(Suggested(raw, normalized), n)
<1> DEFINE name == Shown(raw, normalized)
           entry == Suggested(raw, normalized)
<1>1. name \in {raw, normalized} /\ name \in Names
  BY CategoryConstants DEF Shown
<1>2. Rule[name] \in Categories
  BY <1>1, CategoryConstants
<1>3. entry = [ raw |-> raw, normalized |-> normalized, category |-> Rule[name],
                suggested |-> Rule[name], input |-> name, source |-> "automatic",
                confirmed |-> 0 ]
  BY DEF Suggested
<1> HIDE DEF name, entry
<1>4. entry \in Item
  BY <1>1, <1>2, <1>3 DEF Item, Category, Sources
<1>5. QED
  BY <1>1, <1>3, <1>4 DEF Right, entry

\* A choice makes a right row right.
LEMMA ChosenRight ==
  ASSUME choice \in Nat, NEW entry, Right(entry, choice), NEW category \in Category
  PROVE  Right(Chosen(entry, category), choice + 1)
  BY DEF Chosen, Right, Item, Sources

\* A rename keeps a right row right, and keeps what the owner chose.
LEMMA RenamedRight ==
  ASSUME NEW n \in Nat, NEW entry, Right(entry, n),
         NEW raw \in Names \union {Absent},
         NEW normalized \in Names \union {None, Absent}
  PROVE  /\ Right(Renamed(entry, raw, normalized), n)
         /\ entry.source \in {"manual", "legacy"} =>
               Renamed(entry, raw, normalized).category = entry.category
<1> DEFINE name == InputAfter(entry, raw, normalized)
           new == Renamed(entry, raw, normalized)
           newRaw == Patched(raw, entry.raw)
           newNormalized == Patched(normalized, entry.normalized)
           category == IF Kept(entry) THEN entry.category ELSE Rule[name]
<1>1. /\ newRaw \in Names
      /\ newNormalized \in Names \union {None}
  BY CategoryConstants DEF Patched, Right, Item
<1>2. name \in {newRaw, newNormalized} /\ name \in Names
  BY <1>1, CategoryConstants DEF InputAfter, Shown, Patched, Right, Item
<1>3. Rule[name] \in Categories
  BY <1>2, CategoryConstants
<1>4. new = [ raw |-> newRaw, normalized |-> newNormalized,
              category |-> category, suggested |-> Rule[name], input |-> name,
              source |-> SourceAfterRename(entry), confirmed |-> entry.confirmed ]
  BY DEF Renamed
<1>5. /\ SourceAfterRename(entry) \in Sources
      /\ SourceAfterRename(entry) = "manual" <=> entry.source = "manual"
      /\ SourceAfterRename(entry) = "automatic" =>
            entry.source = "automatic" /\ ~Legacy(entry)
  BY DEF SourceAfterRename, Right, Item, Sources
<1>6. category \in Category
  BY <1>3 DEF Category, Right, Item
<1>7. SourceAfterRename(entry) = "automatic" => category = Rule[name]
  BY <1>5 DEF Kept
<1>8. entry.source \in {"manual", "legacy"} => category = entry.category
  BY DEF Kept
<1> HIDE DEF name, new, newRaw, newNormalized, category
<1>9. new \in Item
  BY <1>1, <1>2, <1>3, <1>4, <1>5, <1>6 DEF Item, Right, Category
<1>10. Right(new, n)
  BY <1>2, <1>4, <1>5, <1>7, <1>9 DEF Right
<1>11. QED
  BY <1>4, <1>8, <1>10 DEF new

-----------------------------------------------------------------------------
\* Rows the migration left are right, since nobody classified them.
LEMMA CategoryInit == Init => CategoryInv
<1> SUFFICES ASSUME Init PROVE CategoryInv
  OBVIOUS
<1>1. \A raw \in Names, normalized \in Names \union {None}, c \in Category :
        Right(OldRow(raw, normalized, c), 0)
  BY DEF OldRow, Right, Item, Sources, Category
<1>2. \A i \in Items : item[i] # None => Right(item[i], 0)
  BY <1>1 DEF Init
<1>3. item \in [Items -> Item \union {None}]
  <2>1. \A i \in Items : item[i] \in Item \union {None}
    BY <1>2 DEF Right
  <2>2. QED
    BY <2>1 DEF Init
<1>4. QED
  BY <1>2, <1>3 DEF Init, CategoryInv, TypeOK, Present

\* An action that makes the named rows right ones and may add a choice.
LEMMA RowsStep ==
  ASSUME CategoryInv, NEW rows, NEW S \in SUBSET Items,
         item' = [i \in Items |-> IF i \in S THEN rows[i] ELSE item[i]],
         choice' \in {choice, choice + 1},
         categories' \subseteq Categories,
         \A i \in S : rows[i] = None \/ Right(rows[i], choice')
  PROVE  CategoryInv'
<1>1. choice' \in Nat
  BY DEF CategoryInv, TypeOK
<1>2. \A i \in Items : item[i] # None => Right(item[i], choice')
  BY RightLater DEF CategoryInv, TypeOK, Present
<1>3. \A i \in Items : item'[i] # None => Right(item'[i], choice')
  BY <1>2
<1>4. item' \in [Items -> Item \union {None}]
  BY <1>3 DEF Right
<1>5. QED
  BY <1>1, <1>3, <1>4 DEF CategoryInv, TypeOK, Present

\* The same for one row, which may also be removed.
LEMMA OneRowStep ==
  ASSUME CategoryInv, NEW i \in Items, NEW entry,
         entry = None \/ Right(entry, choice'),
         Becomes(i, entry),
         choice' \in {choice, choice + 1},
         categories' \subseteq Categories
  PROVE  CategoryInv'
<1> DEFINE rows == [j \in {i} |-> entry]
<1>1. item' = [j \in Items |-> IF j \in {i} THEN rows[j] ELSE item[j]]
  BY DEF Becomes, CategoryInv, TypeOK
<1>2. \A j \in {i} : rows[j] = None \/ Right(rows[j], choice')
  OBVIOUS
<1> HIDE DEF rows
<1>3. {i} \in SUBSET Items
  OBVIOUS
<1>4. QED
  BY <1>1, <1>2, <1>3, RowsStep

\* Every row is right after every request, result and removal of a category.
LEMMA CategoryInvariance == Spec => []CategoryInv
<1>1. CategoryInv /\ [Next]_vars => CategoryInv'
  <2> SUFFICES ASSUME CategoryInv, [Next]_vars PROVE CategoryInv'
    OBVIOUS
  <2> USE DEF CategoryInv, TypeOK
  <2>1. ASSUME NEW i \in Items, NEW raw \in Names,
               NEW normalized \in Names \union {None},
               NEW category \in Category \union {Absent},
               Create(i, raw, normalized, category)
        PROVE  CategoryInv'
    <3> DEFINE entry == Suggested(raw, normalized)
    <3>1. Right(entry, choice)
      BY SuggestedRight
    <3>2. CASE category = Absent
      BY <2>1, <3>1, <3>2, OneRowStep DEF Create
    <3>3. CASE category # Absent
      <4>1. category \in Category
        BY <3>3
      <4>2. Right(Chosen(entry, category), choice + 1)
        BY <3>1, <4>1, ChosenRight
      <4>3. Becomes(i, Chosen(entry, category)) /\ choice' = choice + 1
        BY <2>1, <3>3 DEF Create
      <4>4. categories' \subseteq Categories
        BY <2>1 DEF Create
      <4>5. QED
        BY <4>2, <4>3, <4>4, OneRowStep
    <3>4. QED
      BY <3>2, <3>3
  <2>2. ASSUME NEW i \in Items, NEW raw \in Names \union {Absent},
               NEW normalized \in Names \union {None, Absent},
               NEW category \in Category \union {Absent},
               Update(i, raw, normalized, category)
        PROVE  CategoryInv'
    <3> DEFINE rename == raw # Absent \/ normalized # Absent
               renamed == IF rename THEN Renamed(item[i], raw, normalized)
                          ELSE item[i]
    <3>1. Right(item[i], choice)
      BY <2>2 DEF Update
    <3>2. Right(renamed, choice)
      BY <3>1, RenamedRight
    <3>3. CASE category = Absent
      <4>1. Becomes(i, renamed) /\ choice' = choice /\ categories' = categories
        BY <2>2, <3>3 DEF Update
      <4> HIDE DEF renamed
      <4>2. QED
        BY <3>2, <4>1, OneRowStep
    <3>4. CASE category # Absent
      <4>1. /\ Becomes(i, Chosen(renamed, category))
            /\ choice' = choice + 1 /\ categories' = categories
        BY <2>2, <3>4 DEF Update
      <4> HIDE DEF renamed
      <4>2. Right(Chosen(renamed, category), choice + 1)
        BY <3>2, <3>4, ChosenRight
      <4>3. QED
        BY <4>1, <4>2, OneRowStep
    <3>5. QED
      BY <3>3, <3>4
  <2>3. ASSUME NEW i \in Items, Delete(i)
        PROVE  CategoryInv'
    BY <2>3, OneRowStep DEF Delete
  <2>4. ASSUME NEW new \in SUBSET Items,
               NEW raw \in [new -> Names], NEW normalized \in [new -> Names],
               SaveResult(raw, normalized)
        PROVE  CategoryInv'
    <3> DEFINE rows == [i \in Items |->
                          IF i \in new THEN Suggested(raw[i], normalized[i])
                          ELSE None]
    <3>1. item' = [i \in Items |-> IF i \in Items THEN rows[i] ELSE item[i]]
      BY <2>4 DEF SaveResult
    <3>2. \A i \in Items : rows[i] = None \/ Right(rows[i], choice)
      BY SuggestedRight
    <3>3. choice' = choice /\ categories' = categories
      BY <2>4 DEF SaveResult
    <3> HIDE DEF rows
    <3>4. QED
      BY <3>1, <3>2, <3>3, RowsStep
  <2>5. ASSUME NEW c \in Categories, RemoveCategory(c)
        PROVE  CategoryInv'
    <3> DEFINE rows == [i \in Items |->
                          IF Present(i) THEN Without(c, item[i]) ELSE None]
    <3>1. item' = [i \in Items |-> IF i \in Items THEN rows[i] ELSE item[i]]
      BY <2>5 DEF RemoveCategory
    <3>2. ASSUME NEW entry, Right(entry, choice)
          PROVE  Right(Without(c, entry), choice)
      BY <3>2 DEF Right, Without, Item, Category
    <3>3. \A i \in Items : rows[i] = None \/ Right(rows[i], choice)
      BY <3>2
    <3>4. choice' = choice /\ categories' \subseteq Categories
      BY <2>5 DEF RemoveCategory
    <3> HIDE DEF rows
    <3>5. QED
      BY <3>1, <3>3, <3>4, RowsStep
  <2>6. CASE UNCHANGED vars
    BY <2>6 DEF vars, Present, Right
  <2>7. QED
    BY <2>1, <2>2, <2>3, <2>4, <2>5, <2>6 DEF Next
<1>2. QED
  BY CategoryInit, <1>1, PTL DEF Spec

\* Rows keep the shape of receipt_items' category columns.
THEOREM CategoryTypes == Spec => []TypeOK
<1>1. CategoryInv => TypeOK
  BY DEF CategoryInv
<1>2. QED
  BY <1>1, CategoryInvariance, PTL

\* category_confirmed_at is set on exactly the rows marked manual.
THEOREM ManualIsConfirmed == Spec => []ChoicesAreConfirmed
<1>1. CategoryInv => ChoicesAreConfirmed
  BY DEF CategoryInv, Right, ChoicesAreConfirmed
<1>2. QED
  BY <1>1, CategoryInvariance, PTL

\* Rows the rules classified have the category stored as their suggestion.
THEOREM AutomaticIsSuggested == Spec => []AutomaticFollowsRules
<1>1. CategoryInv => AutomaticFollowsRules
  BY DEF CategoryInv, Right, AutomaticFollowsRules
<1>2. QED
  BY <1>1, CategoryInvariance, PTL

\* The stored suggestion is the rules' answer for a name the row has.
THEOREM SuggestionsAreForTheName == Spec => []SuggestionIsCurrent
<1>1. CategoryInv => SuggestionIsCurrent
  BY DEF CategoryInv, Right, SuggestionIsCurrent
<1>2. QED
  BY <1>1, CategoryInvariance, PTL

\* Together: the marks of a row tell where its category comes from.
THEOREM MarksTellTheOrigin == Spec => []MarksTellOrigin
<1>1. ChoicesAreConfirmed /\ AutomaticFollowsRules /\ SuggestionIsCurrent
      => MarksTellOrigin
  BY DEF MarksTellOrigin
<1>2. QED
  BY <1>1, ManualIsConfirmed, AutomaticIsSuggested, SuggestionsAreForTheName, PTL

\* A rename keeps what the owner chose and a choice is a later one, whatever
\* the rule and the order of the requests.
THEOREM OwnersLabelsLast == Spec => OnlyOwnerRelabels
<1> DEFINE Relabelled(i) ==
             /\ Present(i) /\ item'[i] # None
             /\ item[i].source \in {"manual", "legacy"}
             /\ item'[i].category # item[i].category
           Allowed(i) ==
             \/ item'[i].confirmed > item[i].confirmed
             \/ item[i].category \notin categories'
<1>1. ASSUME CategoryInv, Next, NEW i \in Items, Relabelled(i)
      PROVE  Allowed(i)
  <2> item \in [Items -> Item \union {None}] /\ choice \in Nat
    BY <1>1 DEF CategoryInv, TypeOK
  <2>1. Right(item[i], choice)
    BY <1>1 DEF CategoryInv
  <2>2. ASSUME NEW j \in Items, NEW raw \in Names,
               NEW normalized \in Names \union {None},
               NEW category \in Category \union {Absent},
               Create(j, raw, normalized, category)
        PROVE  Allowed(i)
    <3>1. j # i
      BY <1>1, <2>2 DEF Create
    <3>2. item'[i] = item[i]
      BY <2>2, <3>1 DEF Create, Becomes
    <3>3. QED
      BY <1>1, <3>2
  <2>3. ASSUME NEW j \in Items, NEW raw \in Names \union {Absent},
               NEW normalized \in Names \union {None, Absent},
               NEW category \in Category \union {Absent},
               Update(j, raw, normalized, category)
        PROVE  Allowed(i)
    <3> DEFINE rename == raw # Absent \/ normalized # Absent
               renamed == IF rename THEN Renamed(item[i], raw, normalized)
                          ELSE item[i]
    <3>1. CASE j # i
      <4>1. item'[i] = item[i]
        BY <2>3, <3>1 DEF Update, Becomes
      <4>2. QED
        BY <1>1, <4>1
    <3>2. CASE j = i /\ category = Absent
      <4>1. item'[i] = renamed
        BY <2>3, <3>2 DEF Update, Becomes
      <4>2. renamed.category = item[i].category
        BY <1>1, <2>1, RenamedRight
      <4>3. QED
        BY <1>1, <4>1, <4>2
    <3>3. CASE j = i /\ category # Absent
      <4>1. item'[i] = Chosen(renamed, category)
        BY <2>3, <3>3 DEF Update, Becomes
      <4>2. item'[i].confirmed = choice + 1
        BY <4>1 DEF Chosen
      <4>3. item[i].confirmed \in Nat /\ item[i].confirmed <= choice
        BY <2>1 DEF Right, Item
      <4>4. QED
        BY <4>2, <4>3
    <3>4. QED
      BY <3>1, <3>2, <3>3
  <2>4. ASSUME NEW j \in Items, Delete(j)
        PROVE  Allowed(i)
    BY <1>1, <2>4 DEF Delete, Becomes
  <2>5. ASSUME NEW new \in SUBSET Items,
               NEW raw \in [new -> Names], NEW normalized \in [new -> Names],
               SaveResult(raw, normalized)
        PROVE  Allowed(i)
    <3>1. i \in new
      BY <1>1, <2>5 DEF SaveResult
    <3>2. QED
      BY <1>1, <2>5, <3>1 DEF SaveResult
  <2>6. ASSUME NEW c \in Categories, RemoveCategory(c)
        PROVE  Allowed(i)
    <3>1. item'[i] = Without(c, item[i]) /\ categories' = categories \ {c}
      BY <1>1, <2>6 DEF RemoveCategory
    <3>2. item[i].category = c
      BY <1>1, <3>1 DEF Without
    <3>3. QED
      BY <3>1, <3>2
  <2>7. QED
    BY <1>1, <2>2, <2>3, <2>4, <2>5, <2>6 DEF Next
<1>2. CategoryInv /\ [Next]_vars => [\A i \in Items : Relabelled(i) => Allowed(i)]_vars
  BY <1>1
<1>3. QED
  BY <1>2, CategoryInvariance, PTL DEF Spec, OnlyOwnerRelabels

-----------------------------------------------------------------------------
(***************************************************************************)
(* The sums.  A row that the button calculated holds what the button makes *)
(* of its values (RowRight), the verdict of the report is right of the     *)
(* figures it names, whatever the receipt became since (ReportRight), and  *)
(* what is confirmed was validated as it is.                               *)
(***************************************************************************)
RowRight(entry) ==
    /\ entry \in Sums!Item
    /\ entry.calculated =>
          /\ entry.quantity \in Quantities /\ entry.price \in Amounts
          /\ entry.total = Sums!LineTotal(Sums!Product(entry))

ReportRight(about) ==
    /\ about.status \in Sums!Statuses
    /\ about.sum = None => about.status \in {"no_items", "incomplete"}
    /\ about.sum # None /\ about.amount = None =>
          about.status = "missing_total"
    /\ about.sum # None /\ about.amount # None =>
          about.status = IF about.sum = about.amount THEN "matched"
                         ELSE IF Sums!Distance(about.sum, about.amount)
                                 <= Tolerance
                         THEN "within_tolerance" ELSE "mismatch"

SumsInv ==
    /\ items = [i \in Items |-> items[i]]
    /\ \A i \in Items : items[i] = None \/ RowRight(items[i])
    /\ total = None \/ (total \in Nat /\ total > 0)
    /\ ReportRight(report)
    /\ confirmed => Sums!Validated

\* What the button calculates is what the confirmation expects.
LEMMA ButtonRounds ==
  ASSUME NEW n \in Nat
  PROVE  /\ Sums!LineTotal(n) = Sums!RoundHalfUp(n)
         /\ Sums!RoundHalfUp(n) \in Nat
         /\ 1000 * Sums!RoundHalfUp(n) - n <= 500
         /\ n - 1000 * Sums!RoundHalfUp(n) <= 500
<1>1. PICK q \in Nat, r \in 0 .. 999 : q = n \div 1000 /\ r = n % 1000
  OBVIOUS
<1>2. n = 1000 * q + r
  BY <1>1
<1>3. PICK p \in Nat, t \in 0 .. 999 : p = (n + 500) \div 1000 /\ t = (n + 500) % 1000
  OBVIOUS
<1>4. n + 500 = 1000 * p + t
  BY <1>3
<1>5. p = IF r >= 500 THEN q + 1 ELSE q
  BY <1>2, <1>4
<1>6. Sums!LineTotal(n) = p /\ Sums!RoundHalfUp(n) = p
  BY <1>1, <1>3, <1>5 DEF Sums!LineTotal, Sums!RoundHalfUp
<1>7. 1000 * p - n <= 500 /\ n - 1000 * p <= 500
  BY <1>2, <1>5
<1> QED BY <1>6, <1>7

-----------------------------------------------------------------------------
\* The sums of the instance are those of FoldLemmas.
LEMMA SumOfTotals ==
  ASSUME NEW R, IsFiniteSet(R), NEW list, \A i \in R : list[i].total \in Int
  PROVE  Sums!MapThenSumSet(LAMBDA i : list[i].total, R)
         = SumOver([i \in R |-> list[i].total], R)
<1> DEFINE F == [i \in R |-> list[i].total]
           Of(g) == g = [s \in SUBSET R |->
                           IF s = {} THEN 0
                           ELSE list[Choice(s)].total + g[s \ {Choice(s)}]]
           h == CHOOSE g : Of(g)
<1>1. ASSUME NEW g
      PROVE  Of(g) <=> Folding(F, R, g)
  <2>1. \A s \in SUBSET R : s # {} => F[Choice(s)] = list[Choice(s)].total
    BY ChoiceTypes
  <2> QED BY <2>1 DEF Folding
<1>2. \A i \in R : F[i] \in Int
  OBVIOUS
<1>3. Sums!MapThenSumSet(LAMBDA i : list[i].total, R) = h[R]
  BY DEF Sums!MapThenSumSet, Sums!MapThenFoldSet, Choice
<1> HIDE DEF F, Of
<1>4. \E g : Of(g)
  BY <1>1, <1>2, FoldExists
<1>5. Folding(F, R, h)
  BY <1>1, <1>4
<1>6. SumOver(F, R) = h[R]
  BY <1>2, <1>5, SumIsFold
<1> QED BY <1>3, <1>6 DEF F

\* The sum of the items is a sum over a set.
LEMMA SumOfProducts ==
  ASSUME NEW R, IsFiniteSet(R), NEW list,
         \A i \in R : Sums!Product(list[i]) \in Int
  PROVE  Sums!MapThenSumSet(LAMBDA i : Sums!Product(list[i]), R)
         = SumOver([i \in R |-> Sums!Product(list[i])], R)
<1> DEFINE F == [i \in R |-> Sums!Product(list[i])]
           Of(g) == g = [s \in SUBSET R |->
                           IF s = {} THEN 0
                           ELSE Sums!Product(list[Choice(s)]) + g[s \ {Choice(s)}]]
           h == CHOOSE g : Of(g)
<1>1. ASSUME NEW g
      PROVE  Of(g) <=> Folding(F, R, g)
  <2>1. \A s \in SUBSET R : s # {} => F[Choice(s)] = Sums!Product(list[Choice(s)])
    BY ChoiceTypes
  <2> QED BY <2>1 DEF Folding
<1>2. \A i \in R : F[i] \in Int
  OBVIOUS
<1>3. Sums!MapThenSumSet(LAMBDA i : Sums!Product(list[i]), R) = h[R]
  BY DEF Sums!MapThenSumSet, Sums!MapThenFoldSet, Choice
<1> HIDE DEF F, Of
<1>4. \E g : Of(g)
  BY <1>1, <1>2, FoldExists
<1>5. Folding(F, R, h)
  BY <1>1, <1>4
<1>6. SumOver(F, R) = h[R]
  BY <1>2, <1>5, SumIsFold
<1> QED BY <1>3, <1>6 DEF F

\* Rows are finitely many, and counted as the library counts.
LEMMA RowsAreFinite ==
  ASSUME NEW list
  PROVE  /\ IsFiniteSet(Sums!Rows(list)) /\ Sums!Rows(list) \subseteq Items
         /\ Sums!Cardinality(Sums!Rows(list)) = Cardinality(Sums!Rows(list))
<1>1. \A T : Sums!IsFiniteSet(T) <=> IsFiniteSet(T)
  BY DEF Sums!IsFiniteSet, IsFiniteSet
<1>2. IsFiniteSet(Items)
  BY <1>1, ReadingConstants DEF Sums!ArithmeticConstants
<1>3. Sums!Rows(list) \subseteq Items
  BY DEF Sums!Rows
<1>4. Sums!Cardinality(Sums!Rows(list)) = Cardinality(Sums!Rows(list))
  BY <1>1 DEF Sums!Cardinality, Cardinality
<1> QED BY <1>2, <1>3, <1>4, FS_Subset

\* The sum of what is complete is a number.
LEMMA SumIsNumber ==
  ASSUME SumsInv, \A i \in Sums!Rows(items) : items[i].total # None
  PROVE  Sums!SumOfItems(items) \in Int
<1> DEFINE R == Sums!Rows(items)
           F == [i \in R |-> items[i].total]
<1>1. \A i \in R : items[i].total \in Int
  <2> SUFFICES ASSUME NEW i \in R PROVE items[i].total \in Int
    OBVIOUS
  <2>1. i \in Items /\ items[i] # None /\ items[i].total # None
    BY DEF Sums!Rows
  <2>2. items[i] \in Sums!Item
    BY <2>1 DEF SumsInv, RowRight
  <2> QED BY <2>1, <2>2 DEF Sums!Item
<1>2. IsFiniteSet(R)
  BY RowsAreFinite
<1>3. Sums!SumOfItems(items) = SumOver(F, R)
  BY <1>1, <1>2, SumOfTotals DEF Sums!SumOfItems
<1>4. \A i \in R : F[i] \in Int
  BY <1>1
<1> HIDE DEF F, R
<1> QED BY <1>2, <1>3, <1>4, SumType

-----------------------------------------------------------------------------
\* The parser reports rightly on what it found.
LEMMA ReportComesRight ==
  ASSUME SumsInv \/ \A i \in Items : items[i] = None \/ RowRight(items[i]),
         NEW amount
  PROVE  ReportRight(Sums!CheckTotals(items, amount))
<1> DEFINE R == Sums!Rows(items)
           F == [i \in R |-> items[i].total]
           sum == Sums!SumOfItems(items)
           complete == Sums!TotalsComplete(items)
<1>1. /\ complete <=> R # {} /\ \A i \in R : items[i].total # None
      /\ None \notin Int
  BY ReadingConstants DEF Sums!TotalsComplete, Sums!ArithmeticConstants
<1>2. ASSUME complete
      PROVE  sum # None
  <2>1. \A i \in R : items[i].total \in Int
    <3> SUFFICES ASSUME NEW i \in R PROVE items[i].total \in Int
      OBVIOUS
    <3>1. i \in Items /\ items[i] # None /\ items[i].total # None
      BY <1>1, <1>2 DEF Sums!Rows
    <3>2. items[i] \in Sums!Item
      BY <3>1 DEF SumsInv, RowRight
    <3> QED BY <3>1, <3>2 DEF Sums!Item
  <2>2. IsFiniteSet(R)
    BY RowsAreFinite
  <2>3. sum = SumOver(F, R)
    BY <2>1, <2>2, SumOfTotals DEF Sums!SumOfItems
  <2>4. \A i \in R : F[i] \in Int
    BY <2>1
  <2> HIDE DEF F, R, sum
  <2>5. SumOver(F, R) \in Int
    BY <2>2, <2>4, SumType
  <2> QED BY <1>1, <2>3, <2>5
<1>3. Sums!CheckTotals(items, amount)
      = [ sum |-> IF complete THEN sum ELSE None, amount |-> amount,
          status |-> Sums!Verdict(items, amount) ]
  BY DEF Sums!CheckTotals, Sums!ItemsSum
<1> DEFINE verdict == Sums!Verdict(items, amount)
<1>4. /\ R = {} => verdict = "no_items" /\ ~complete
      /\ R # {} /\ ~complete => verdict = "incomplete"
      /\ complete /\ amount = None => verdict = "missing_total"
      /\ complete /\ amount # None =>
            verdict = IF sum = amount THEN "matched"
                      ELSE IF Sums!Distance(sum, amount) <= Tolerance
                      THEN "within_tolerance" ELSE "mismatch"
  BY <1>1 DEF Sums!Verdict
<1> HIDE DEF sum, complete, verdict, R
<1> QED BY <1>2, <1>3, <1>4 DEF ReportRight, Sums!Statuses, verdict

\* A receipt comes with a report that is right of its own figures.
LEMMA SumsInit ==
  ASSUME Sums!Init
  PROVE  SumsInv
<1>1. \A i \in Items : items[i] = None \/ RowRight(items[i])
  <2> SUFFICES ASSUME NEW i \in Items, items[i] # None
               PROVE  RowRight(items[i])
    OBVIOUS
  <2>1. items[i] \in Sums!Parsed
    BY DEF Sums!Init
  <2>2. items[i] \in Sums!Item /\ ~items[i].calculated
    BY <2>1, ReadingConstants DEF Sums!Parsed, Sums!Item,
       Sums!ArithmeticConstants
  <2> QED BY <2>2 DEF RowRight
<1>2. total = None \/ (total \in Nat /\ total > 0)
  BY ReadingConstants DEF Sums!Init, Sums!ArithmeticConstants
<1>3. ReportRight(report)
  BY <1>1, ReportComesRight DEF Sums!Init
<1> QED BY <1>1, <1>2, <1>3 DEF Sums!Init, SumsInv

\* One row becomes right, or goes.
LEMMA OneRowEdited ==
  ASSUME SumsInv, NEW i \in Items, NEW entry, entry = None \/ RowRight(entry),
         Sums!Edited([items EXCEPT ![i] = entry], total)
  PROVE  SumsInv'
<1>1. items' = [items EXCEPT ![i] = entry] /\ total' = total
      /\ report' = report /\ confirmed' = FALSE
  BY DEF Sums!Edited
<1>2. items' = [j \in Items |-> IF j = i THEN entry ELSE items[j]]
  BY <1>1 DEF SumsInv
<1>3. \A j \in Items : items'[j] = IF j = i THEN entry ELSE items[j]
  BY <1>2
<1>4. items' = [j \in Items |-> items'[j]]
  BY <1>2
<1> QED BY <1>1, <1>3, <1>4 DEF SumsInv, RowRight

\* No step of the arithmetic breaks its invariant.
LEMMA SumsNext ==
  ASSUME SumsInv, [Sums!Next]_summing
  PROVE  SumsInv'
<1>0. Quantities \subseteq Nat /\ Amounts \subseteq Nat
  BY ReadingConstants DEF Sums!ArithmeticConstants
<1>1. ASSUME NEW i \in Items, NEW quantity \in Quantities, NEW price \in Amounts,
             Sums!SaveCalculated(i, quantity, price)
      PROVE  SumsInv'
  <2> DEFINE entry == [ quantity |-> quantity, price |-> price,
                        total |-> Sums!LineTotal(quantity * price),
                        calculated |-> TRUE ]
  <2>1. quantity * price \in Nat
    BY <1>0
  <2>2. Sums!LineTotal(quantity * price) \in Nat
    BY <2>1, ButtonRounds
  <2>3. entry \in Sums!Item
    BY <2>2 DEF Sums!Item
  <2>4. RowRight(entry)
    BY <2>3 DEF RowRight, Sums!Product
  <2>5. Sums!Edited([items EXCEPT ![i] = entry], total)
    BY <1>1 DEF Sums!SaveCalculated
  <2> HIDE DEF entry
  <2> QED BY <2>4, <2>5, OneRowEdited
<1>2. ASSUME NEW i \in Items, NEW quantity \in Quantities, NEW price \in Amounts,
             NEW amount \in Amounts,
             Sums!SaveItem(i, quantity, price, amount)
             \/ Sums!AddItem(i, quantity, price, amount)
      PROVE  SumsInv'
  <2> DEFINE entry == [ quantity |-> quantity, price |-> price,
                        total |-> amount, calculated |-> FALSE ]
  <2>1. entry \in Sums!Item
    BY <1>0 DEF Sums!Item
  <2>2. RowRight(entry)
    BY <2>1 DEF RowRight
  <2>3. Sums!Edited([items EXCEPT ![i] = entry], total)
    BY <1>2 DEF Sums!SaveItem, Sums!AddItem, Sums!Typed
  <2> HIDE DEF entry
  <2> QED BY <2>2, <2>3, OneRowEdited
<1>3. ASSUME NEW i \in Items, Sums!RemoveItem(i)
      PROVE  SumsInv'
  BY <1>3, OneRowEdited DEF Sums!RemoveItem
<1>4. ASSUME NEW amount \in (Amounts \ {0}) \union {None}, Sums!SaveTotal(amount)
      PROVE  SumsInv'
  BY <1>0, <1>4 DEF Sums!SaveTotal, Sums!Edited, SumsInv, RowRight
<1>5. CASE Sums!Confirm
  <2>1. Sums!Validated' = Sums!Validated
    BY <1>5 DEF Sums!Confirm, Sums!Validated
  <2> QED BY <1>5, <2>1 DEF Sums!Confirm, SumsInv, RowRight
<1>6. CASE UNCHANGED summing
  <2>1. Sums!Validated' = Sums!Validated
    BY <1>6 DEF summing, Sums!Validated
  <2> QED BY <1>6, <2>1 DEF summing, SumsInv, RowRight
<1> QED BY <1>1, <1>2, <1>3, <1>4, <1>5, <1>6 DEF Sums!Next

\* The arithmetic's invariant holds of every run of it.
LEMMA SumsInvariance == Sums!Spec => []SumsInv
<1>1. Sums!vars = summing
  BY DEF Sums!vars, summing
<1>2. SumsInv /\ [Sums!Next]_(Sums!vars) => SumsInv'
  BY <1>1, SumsNext DEF Sums!vars, summing
<1> QED BY SumsInit, <1>2, PTL DEF Sums!Spec

-----------------------------------------------------------------------------
\* What is known of the rows when each fits.
LEMMA FittingRow ==
  ASSUME SumsInv, NEW i \in Sums!Rows(items), Sums!ItemFits(items[i])
  PROVE  /\ items[i].total \in Int /\ items[i].total # None
         /\ Sums!Product(items[i]) \in Nat
         /\ 1000 * items[i].total - Sums!Product(items[i]) <= 5500
         /\ Sums!Product(items[i]) - 1000 * items[i].total <= 5500
<1> DEFINE t == items[i].total
           n == Sums!Product(items[i])
           m == Sums!RoundHalfUp(n)
<1>1. i \in Items /\ items[i] # None
  BY DEF Sums!Rows
<1>2. items[i] \in Sums!Item
  BY <1>1 DEF SumsInv, RowRight
<1>3. None \notin {items[i].quantity, items[i].price, items[i].total}
  BY DEF Sums!ItemFits
<1>4. t \in Nat /\ t # None /\ items[i].quantity \in Nat /\ items[i].price \in Nat
  BY <1>2, <1>3, ReadingConstants DEF Sums!Item, Sums!ArithmeticConstants
<1>5. n \in Nat
  BY <1>4 DEF Sums!Product
<1>6. Tolerance = 5
  BY ReadingConstants DEF Sums!ArithmeticConstants, Sums!PageTolerance
<1>7. m \in Nat /\ 1000 * m - n <= 500 /\ n - 1000 * m <= 500
  BY <1>5, ButtonRounds
<1>8. (IF m < t THEN t - m ELSE m - t) <= 5
  BY <1>6 DEF Sums!ItemFits, Sums!Distance
<1> HIDE DEF t, n, m
<1>9. t - m <= 5 /\ m - t <= 5
  BY <1>4, <1>7, <1>8
<1>10. 1000 * t - n <= 5500 /\ n - 1000 * t <= 5500
  BY <1>4, <1>5, <1>7, <1>9
<1> QED BY <1>4, <1>5, <1>10 DEF t, n

\* The report of the parser and the red line of the page agree with what the
\* confirmation decides, up to the very cent, and the button of the form
\* calculates what it expects.
THEOREM WarningsAlwaysForetellRefusal ==
  Sums!Spec => []WarningsForetellRefusal
<1>1. ASSUME SumsInv
      PROVE  Sums!WarningsForetellRefusal
  <2> DEFINE itemsFit == \A i \in Sums!Rows(items) : Sums!ItemFits(items[i])
             sum == Sums!SumOfItems(items)
             complete == Sums!TotalsComplete(items)
  <2>0. Tolerance = 5 /\ None \notin Int
    BY ReadingConstants DEF Sums!ArithmeticConstants, Sums!PageTolerance
  <2>1. ASSUME NEW i \in Sums!Rows(items), items[i].calculated
        PROVE  items[i].total = Sums!RoundHalfUp(Sums!Product(items[i]))
    <3>1. RowRight(items[i])
      BY <1>1, <2>1 DEF SumsInv, Sums!Rows
    <3>2. items[i].quantity \in Nat /\ items[i].price \in Nat
      BY <2>1, <3>1, ReadingConstants DEF RowRight, Sums!ArithmeticConstants
    <3>3. Sums!Product(items[i]) \in Nat
      BY <3>2 DEF Sums!Product
    <3> QED BY <2>1, <3>1, <3>3, ButtonRounds DEF RowRight
  <2>2. itemsFit => \A i \in Sums!Rows(items) : items[i].total # None
    BY <1>1, FittingRow
  <2>3. complete => sum \in Int
    BY <1>1, SumIsNumber DEF Sums!TotalsComplete
  <2>4. total = None \/ (total \in Nat /\ total > 0)
    BY <1>1 DEF SumsInv
  <2>5. Sums!Validated <=>
          /\ total # None /\ total > 0 /\ Sums!Rows(items) # {} /\ itemsFit
          /\ Sums!Distance(sum, total) <= Tolerance
    BY DEF Sums!Validated, Sums!SumFits
  <2>6. complete <=> /\ Sums!Rows(items) # {}
                     /\ \A i \in Sums!Rows(items) : items[i].total # None
    BY DEF Sums!TotalsComplete
  <2>7. Sums!Mismatch <=>
          /\ complete /\ total # None
          /\ \/ sum > total + Sums!PageTolerance
             \/ sum < total - Sums!PageTolerance
    BY DEF Sums!Mismatch
  <2>8. ASSUME Sums!ReportIsLive
        PROVE  /\ ~complete => report.status \in {"no_items", "incomplete"}
               /\ complete /\ total = None => report.status = "missing_total"
               /\ complete /\ total # None =>
                     report.status =
                        IF sum = total THEN "matched"
                        ELSE IF Sums!Distance(sum, total) <= Tolerance
                        THEN "within_tolerance" ELSE "mismatch"
    <3>1. /\ report.amount = total
          /\ report.sum = IF complete THEN sum ELSE None
      BY <2>8 DEF Sums!ReportIsLive, Sums!ItemsSum
    <3>2. ReportRight(report)
      BY <1>1 DEF SumsInv
    <3>3. complete => sum # None
      BY <2>0, <2>3
    <3> HIDE DEF sum, complete
    <3> QED BY <3>1, <3>2, <3>3 DEF ReportRight
  <2> HIDE DEF itemsFit, sum, complete
  <2>9. ASSUME sum \in Int, total \in Nat
        PROVE  /\ Sums!Distance(sum, total) <= Tolerance <=>
                    ~(sum > total + Sums!PageTolerance
                      \/ sum < total - Sums!PageTolerance)
               /\ sum = total => Sums!Distance(sum, total) <= Tolerance
    BY <2>0, <2>9 DEF Sums!Distance, Sums!PageTolerance
  <2>10. ASSUME Sums!ReportIsLive, itemsFit,
                report.status \in {"matched", "within_tolerance"}
         PROVE  Sums!Validated
    <3>1. complete /\ total # None
      BY <2>8, <2>10
    <3>2. Sums!Rows(items) # {}
      BY <2>6, <3>1
    <3>3. sum = total \/ Sums!Distance(sum, total) <= Tolerance
      BY <2>8, <2>10, <3>1
    <3> QED BY <2>3, <2>4, <2>5, <2>9, <2>10, <3>1, <3>2, <3>3
  <2>11. ASSUME Sums!ReportIsLive, Sums!Validated,
                report.status \notin {"matched", "within_tolerance"}
         PROVE  FALSE
    <3>1. complete /\ total # None
      BY <2>2, <2>5, <2>6, <2>11
    <3>2. ~(sum = total) /\ ~(Sums!Distance(sum, total) <= Tolerance)
      BY <2>8, <2>11, <3>1
    <3> QED BY <2>5, <2>11, <3>2
  <2>12. Sums!Mismatch => ~Sums!Validated
    BY <2>3, <2>4, <2>5, <2>7, <2>9
  <2>13. total # None /\ total > 0 /\ Sums!Rows(items) # {} /\ itemsFit
         /\ ~Sums!Mismatch => Sums!Validated
    BY <2>2, <2>3, <2>4, <2>5, <2>6, <2>7, <2>9
  <2> QED BY <2>1, <2>10, <2>11, <2>12, <2>13
          DEF Sums!WarningsForetellRefusal, itemsFit
<1> QED BY <1>1, SumsInvariance, PTL DEF WarningsForetellRefusal

\* Rounding and both tolerances add up to no more than they should, however
\* many items a receipt has.
THEOREM ConfirmedTotalIsAlwaysNear ==
  Sums!Spec => []ConfirmedTotalIsNear
<1>1. ASSUME SumsInv, confirmed
      PROVE  Sums!ConfirmedTotalIsNear
  <2> DEFINE R == Sums!Rows(items)
             F == [i \in R |-> items[i].total]
             P == [i \in R |-> Sums!Product(items[i])]
             Near(s) == /\ 1000 * SumOver(F, s) - SumOver(P, s) <= 5500 * Cardinality(s)
                        /\ SumOver(P, s) - 1000 * SumOver(F, s) <= 5500 * Cardinality(s)
             G == {s \in SUBSET R : Near(s)}
  <2>0. Tolerance = 5 /\ None \notin Nat
    BY ReadingConstants DEF Sums!ArithmeticConstants, Sums!PageTolerance
  <2>1. /\ total \in Nat
        /\ \A i \in R : Sums!ItemFits(items[i])
        /\ Sums!Distance(Sums!SumOfItems(items), total) <= 5
    BY <1>1, <2>0 DEF SumsInv, Sums!Validated, Sums!SumFits
  <2>2. IsFiniteSet(R) /\ Cardinality(R) \in Nat
        /\ Sums!Cardinality(R) = Cardinality(R)
    BY RowsAreFinite, FS_CardinalityType
  <2>3. \A i \in R : /\ items[i].total \in Int /\ Sums!Product(items[i]) \in Nat
                     /\ 1000 * items[i].total - Sums!Product(items[i]) <= 5500
                     /\ Sums!Product(items[i]) - 1000 * items[i].total <= 5500
    BY <1>1, <2>1, FittingRow
  <2>4. /\ Sums!SumOfItems(items) = SumOver(F, R)
        /\ Sums!MapThenSumSet(LAMBDA i : Sums!Product(items[i]), R) = SumOver(P, R)
    <3>1. \A i \in R : items[i].total \in Int /\ Sums!Product(items[i]) \in Int
      BY <2>3
    <3> QED BY <2>2, <3>1, SumOfTotals, SumOfProducts DEF Sums!SumOfItems
  <2>5. \A i \in R : /\ F[i] \in Int /\ P[i] \in Int
                     /\ 1000 * F[i] - P[i] <= 5500 /\ P[i] - 1000 * F[i] <= 5500
    BY <2>3
  <2> HIDE DEF R, F, P
  <2>6. \A s \in SUBSET R : /\ IsFiniteSet(s) /\ Cardinality(s) \in Nat
                            /\ SumOver(F, s) \in Int /\ SumOver(P, s) \in Int
    <3> SUFFICES ASSUME NEW s \in SUBSET R
                 PROVE  /\ IsFiniteSet(s) /\ Cardinality(s) \in Nat
                        /\ SumOver(F, s) \in Int /\ SumOver(P, s) \in Int
      OBVIOUS
    <3>1. IsFiniteSet(s) /\ Cardinality(s) \in Nat
      BY <2>2, FS_Subset, FS_CardinalityType
    <3>2. \A i \in s : F[i] \in Int /\ P[i] \in Int
      BY <2>5
    <3> QED BY <3>1, <3>2, SumType
  <2>7. {} \in G
    <3>1. Near({})
      BY SumOfNone, FS_EmptySet
    <3> QED BY <3>1
  <2>8. ASSUME NEW s \in SUBSET R, NEW x \in R \ s, s \in G
        PROVE  s \union {x} \in G
    <3>1. /\ IsFiniteSet(s) /\ Cardinality(s \union {x}) = Cardinality(s) + 1
      BY <2>6, <2>8, FS_AddElement
    <3>2. \A y \in s \union {x} : F[y] \in Int /\ P[y] \in Int
      BY <2>5
    <3>3. /\ SumOver(F, s \union {x}) = SumOver(F, s) + F[x]
          /\ SumOver(P, s \union {x}) = SumOver(P, s) + P[x]
      BY <3>1, <3>2, SumOfOneMore
    <3>4. /\ SumOver(F, s) \in Int /\ SumOver(P, s) \in Int
          /\ F[x] \in Int /\ P[x] \in Int /\ Cardinality(s) \in Nat
          /\ 1000 * F[x] - P[x] <= 5500 /\ P[x] - 1000 * F[x] <= 5500
      BY <2>5, <2>6
    <3>5. Near(s)
      BY <2>8
    <3>6. Near(s \union {x})
      BY <3>1, <3>3, <3>4, <3>5
    <3> QED BY <3>6
  <2>9. R \in G
    <3> HIDE DEF G
    <3> QED BY <2>2, <2>7, <2>8, SubsetInduction
  <2>10. /\ SumOver(F, R) \in Int /\ SumOver(P, R) \in Int /\ Near(R)
    BY <2>6, <2>9
  <2>11. SumOver(F, R) - total <= 5 /\ total - SumOver(F, R) <= 5
    BY <2>1, <2>4, <2>10 DEF Sums!Distance
  <2>12. Sums!Distance(1000 * total, SumOver(P, R))
         <= 1000 * 5 * (Cardinality(R) + 1) + 500 * Cardinality(R)
    BY <2>1, <2>2, <2>10, <2>11 DEF Sums!Distance
  <2> QED BY <2>0, <2>2, <2>4, <2>12 DEF Sums!ConfirmedTotalIsNear, R
<1>2. SumsInv => ConfirmedTotalIsNear
  BY <1>1 DEF ConfirmedTotalIsNear, Sums!ConfirmedTotalIsNear
<1> QED BY <1>2, SumsInvariance, PTL

-----------------------------------------------------------------------------
(***************************************************************************)
(* The whole.  Whichever part runs, the others stand still in states they  *)
(* start from, so a run of the reading is a run of each part.              *)
(***************************************************************************)
THEOREM ReadingRunsItsParts ==
  ReadingSpec => Orientation!Spec /\ Ocr!Spec /\ Parser!Spec /\ Spec /\ Sums!Spec
<1> DEFINE all == <<part, turning, scoring, parsing, categorizing, summing>>
<1>1. /\ Orientation!vars = turning /\ Ocr!vars = scoring
      /\ Parser!vars = parsing /\ vars = categorizing /\ Sums!vars = summing
  BY DEF Orientation!vars, Ocr!vars, Parser!vars, Sums!vars, turning, scoring,
     parsing, categorizing, summing
<1>2. ReadingInit =>
        Orientation!Init /\ Ocr!Init /\ Parser!Init /\ Init /\ Sums!Init
  BY DEF ReadingInit
<1>3. [ReadingNext]_all => [Orientation!Next]_(Orientation!vars)
  BY DEF ReadingNext, Orientation!vars, turning
<1>4. [ReadingNext]_all => [Ocr!Next]_(Ocr!vars)
  BY DEF ReadingNext, Ocr!vars, scoring
<1>5. [ReadingNext]_all => [Parser!Next]_(Parser!vars)
  BY DEF ReadingNext, Parser!vars, parsing
<1>6. [ReadingNext]_all => [Next]_vars
  BY DEF ReadingNext, vars, categorizing
<1>7. [ReadingNext]_all => [Sums!Next]_(Sums!vars)
  BY DEF ReadingNext, Sums!vars, summing
<1> HIDE DEF all
<1>8. ReadingSpec => ReadingInit /\ [][ReadingNext]_all
  BY DEF ReadingSpec, all
<1> QED BY <1>2, <1>3, <1>4, <1>5, <1>6, <1>7, <1>8, PTL
        DEF Orientation!Spec, Ocr!Spec, Parser!Spec, Spec, Sums!Spec

\* What the parts promise by themselves holds of every reading.
THEOREM ReadingIsSafe ==
  ReadingSpec =>
    /\ [](UnreviewedIsUpright /\ BoxesSpanPicture /\ LinesHaveTheirFragment)
    /\ []ItemsAreOfTheirLines
    /\ [](MarksTellOrigin /\ WarningsForetellRefusal /\ ConfirmedTotalIsNear)
    /\ UnreadIsReported /\ OnlyOwnerRelabels
BY ReadingRunsItsParts, UnreviewedIsAlwaysUpright, BoxesAlwaysSpanPicture,
   LinesAlwaysHaveTheirFragment, ItemsAreAlwaysOfTheirLines,
   UnreadIsAlwaysReported, MarksTellTheOrigin, OwnersLabelsLast, WarningsAlwaysForetellRefusal, ConfirmedTotalIsAlwaysNear,
   PTL

=============================================================================
