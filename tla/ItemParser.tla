----------------------------- MODULE ItemParser -----------------------------
(***************************************************************************)
(* How the lines of a recognized receipt become items: one pass over the   *)
(* text that collects the lines of a name and of its figures until they    *)
(* read as a row, and gives up what it cannot read.                        *)
(*                                                                         *)
(* The regular expressions are left out.  A line is of a kind, by what it  *)
(* is alone; what it reads as joined to the figures collected before is    *)
(* chosen among what lines of its kind can be.  The text comes into being  *)
(* as it is read; "ahead" is what a look at the lines ahead has found.     *)
(***************************************************************************)
EXTENDS Naturals, Sequences

CONSTANTS
    MaxLines,     \* bound on the lines of a text
    MaxNumbers    \* fragments of figures after which a row is given up

ParserConstants == MaxLines \in Nat \ {0} /\ MaxNumbers \in Nat \ {0}

(***************************************************************************)
(* skipped: a currency or a tax line; table: the header of a table; price, *)
(* quantity: parts of one; ignored: service lines, promotions and dates;   *)
(* start: a price, a sign and a quantity; figures: has digits and letters  *)
(* only in units; mixed: a name and figures.                               *)
(***************************************************************************)
Kinds == { "blank", "skipped", "table", "price", "quantity", "footer",
           "ignored", "text", "start", "figures", "mixed" }

Lookahead == 4
Lines == 1 .. MaxLines

VARIABLES
    number,       \* the line read last
    ahead,        \* what is known of the lines to come
    mode,         \* the flags of the loop
    row,          \* what is collected of a row
    discarded,    \* the last line at which what was collected was given up
    items,
    warnings,
    done

vars == <<number, ahead, mode, row, discarded, items, warnings, done>>

\* quantityBy: a quantity header is among so many lines, 0 if that is not
\* known; noneBy: none is among so many; start: the next line is a start.
Ahead == [ quantityBy : 0 .. Lookahead, noneBy : 0 .. Lookahead,
           start : BOOLEAN ]

Mode == [table : BOOLEAN, header : BOOLEAN, ambiguousTable : BOOLEAN]

\* names: the lines with a part in the name; numbers: for each fragment of
\* figures, its lines.
Row == [ names : SUBSET Lines, numbers : Seq(SUBSET Lines),
         sourceLines : SUBSET Lines ]

\* text: the lines the item was read from; lines: those its confidence is
\* taken from; since: "discarded" when it was made.
ParsedReceiptItem ==
    [text : SUBSET Lines, lines : SUBSET Lines, since : 0 .. MaxLines]

Warning == [ line : 0 .. MaxLines,
             about : {"columns", "row", "name", "values", "last", "none"} ]

Nothing == [names |-> {}, numbers |-> <<>>, sourceLines |-> {}]

TypeOK ==
    /\ number \in 0 .. MaxLines /\ discarded \in 0 .. MaxLines
    /\ ahead \in Ahead /\ mode \in Mode /\ row \in Row
    /\ items \in Seq(ParsedReceiptItem)
    /\ warnings \subseteq Warning
    /\ done \in BOOLEAN

Init ==
    /\ number = 0 /\ discarded = 0
    /\ ahead = [quantityBy |-> 0, noneBy |-> 0, start |-> FALSE]
    /\ mode = [table |-> FALSE, header |-> FALSE, ambiguousTable |-> FALSE]
    /\ row = Nothing
    /\ items = <<>> /\ warnings = {}
    /\ done = FALSE

-----------------------------------------------------------------------------
Less(n) == IF n = 0 THEN 0 ELSE n - 1

\* What is known after a line of this kind; blank ones do not count.
After(kind) ==
    IF kind = "blank" THEN ahead
    ELSE [ quantityBy |-> IF kind = "quantity" THEN 0
                          ELSE Less(ahead.quantityBy),
           noneBy |-> Less(ahead.noneBy),
           start |-> FALSE ]

\* The next line is of this kind, which agrees with what was seen ahead.
Comes(kind) ==
    /\ ~done /\ number < MaxLines
    /\ number' = number + 1
    /\ kind # "blank" /\ ahead.start => kind = "start"
    /\ kind # "blank" /\ ahead.quantityBy = 1 => kind = "quantity"
    /\ kind = "quantity" => ahead.noneBy = 0

Read(kind) == Comes(kind) /\ ahead' = After(kind) /\ UNCHANGED done

Here == number + 1

\* The figures collected, and whether the item list is as empty as a footer
\* of the header of a receipt finds it.
Figures == UNION {row.numbers[n] : n \in DOMAIN row.numbers}
NoneYet == items = <<>> /\ row.numbers = <<>>

Reports(line, about) == {[line |-> line, about |-> w] : w \in about}

\* slip: only rows that have a name are reported
WarnOfNames(about) ==
    warnings' = warnings \cup (IF row.names = {} THEN {}
                               ELSE Reports(Here, {about}))

Warn(about) == warnings' = warnings \cup Reports(Here, {about})

\* slip: the lines of the last item stay with the next one
LinesStay(r) == [r EXCEPT !.names = {}, !.numbers = <<>>]

\* slip: figures wait for the next name
FiguresStay(r) == [r EXCEPT !.sourceLines = {}]

\* names.clear(), numbers.clear(), source_lines.clear()
Cleared(r) == Nothing

Discard == row' = Cleared(row) /\ discarded' = Here
Quiet == UNCHANGED <<items, warnings>>

Skip(kind) ==
    /\ Read(kind)
    /\ Quiet /\ UNCHANGED <<mode, row, discarded>>

TableHeader ==
    /\ Read("table")
    /\ mode' = [table |-> TRUE, header |-> FALSE, ambiguousTable |-> FALSE]
    /\ Discard /\ Quiet

PriceHeader ==
    /\ Read("price")
    /\ mode' = [mode EXCEPT !.header = TRUE]
    /\ Quiet /\ UNCHANGED <<row, discarded>>

QuantityHeader ==
    /\ Read("quantity")
    /\ mode' = [mode EXCEPT !.table = TRUE, !.header = TRUE]
    /\ Quiet /\ UNCHANGED <<row, discarded>>

\* A total ahead of the items may belong to a header that is read in pieces,
FooterOfHeader ==
    /\ Read("footer")
    /\ mode.header /\ NoneYet
    /\ mode' = [mode EXCEPT !.header = FALSE]
    /\ Quiet /\ UNCHANGED <<row, discarded>>

\* or to one whose quantity column is among the lines that follow,
FooterOfTable ==
    /\ Comes("footer")
    /\ ~mode.header /\ NoneYet
    /\ ahead' = [After("footer") EXCEPT !.quantityBy = IF @ = 0 THEN Lookahead
                                                       ELSE @]
    /\ mode' = [mode EXCEPT !.table = TRUE]
    /\ Quiet /\ UNCHANGED <<row, discarded, done>>

\* or be part of a name whose figures come next.
FooterOfName ==
    /\ Comes("footer")
    /\ items = <<>> /\ row.names # {}
    /\ NoneYet => ~mode.header /\ After("footer").quantityBy = 0
    /\ ahead' = [After("footer") EXCEPT !.start = TRUE,
                    !.noneBy = IF NoneYet THEN Lookahead ELSE @]
    /\ Quiet /\ UNCHANGED <<mode, row, discarded, done>>

\* slip: a service line between the lines of a row is passed over
IgnoredKeeping ==
    /\ Read("ignored")
    /\ discarded' = Here
    /\ Quiet /\ UNCHANGED <<mode, row>>

Ignored ==
    /\ Read("ignored")
    /\ Discard /\ Quiet /\ UNCHANGED mode

\* Nothing is read of a table that was given up.
InAmbiguousTable ==
    /\ mode.ambiguousTable
    /\ \E kind \in {"text", "start", "figures", "mixed"} : Read(kind)
    /\ Quiet /\ UNCHANGED <<mode, row, discarded>>

ReadRow(kind) == Read(kind) /\ ~mode.ambiguousTable

-----------------------------------------------------------------------------
\* slip: the line that completes a row is not one of its lines
Earlier(line) == row.sourceLines

\* The lines of the row with this one.
WithLine(line) == row.sourceLines \cup {line}

Item(text, lines) == [text |-> text, lines |-> lines, since |-> discarded]

\* A row is complete.  What stands before it in the joined line is part of the
\* name, unless it is figures of a row that only its sum completes.  _item: a
\* name without letters, or too long, is none; a value that is missing or out
\* of range is left to the owner.
Match(kind) ==
    /\ kind \in {"figures", "mixed"} /\ ReadRow(kind)
    /\ \/ /\ items' = Append(items, Item(row.names \cup Figures \cup {Here},
                                         WithLine(Here)))
          /\ \E about \in {{}, {"values"}} :
                warnings' = warnings \cup Reports(Here, about)
       \/ UNCHANGED items /\ Warn("name")
    /\ row' = Cleared(row)
    /\ mode' = [mode EXCEPT !.header = FALSE]
    /\ UNCHANGED discarded

\* A price and a quantity without their sum: the fragments become one, and
\* what stands before it goes to the name.
Start(kind) ==
    /\ \/ kind \in {"start", "mixed"}
       \/ kind \in {"figures", "text"} /\ row.numbers # <<>>
    /\ ReadRow(kind)
    /\ \E prefix \in {{}, Figures \cup {Here}} :
          row' = [ names |-> row.names \cup prefix,
                   numbers |-> <<Figures \cup {Here}>>,
                   sourceLines |-> WithLine(Here) ]
    /\ Quiet /\ UNCHANGED <<mode, discarded>>

WithFigures == [ row EXCEPT !.numbers = Append(@, {Here}),
                            !.sourceLines = WithLine(Here) ]

\* Figures of a row that has a name.
Times(kind) ==
    /\ kind \in {"figures", "mixed"} /\ ReadRow(kind)
    /\ row.names # {}
    /\ row' = WithFigures
    /\ Quiet /\ UNCHANGED <<mode, discarded>>

Fragment ==
    /\ ReadRow("figures")
    /\ mode.table \/ row.names # {}
    /\ IF Len(row.numbers) < MaxNumbers
       THEN row' = WithFigures /\ UNCHANGED <<mode, warnings, discarded>>
       ELSE /\ Discard /\ Warn("columns")
            /\ mode' = [mode EXCEPT !.ambiguousTable = mode.table]
    /\ UNCHANGED items

\* A name begins or goes on.
Letters(kind) ==
    /\ kind \in {"text", "figures", "mixed"} /\ ReadRow(kind)
    /\ row.numbers = <<>>
    /\ row' = [row EXCEPT !.names = @ \cup {Here}, !.sourceLines = WithLine(Here)]
    /\ Quiet /\ UNCHANGED <<mode, discarded>>

\* After figures that were no row a name begins or, in a table, nothing does:
\* its columns can no longer be told apart.
LettersAfterFigures(kind) ==
    /\ kind \in {"text", "figures", "mixed"} /\ ReadRow(kind)
    /\ row.numbers # <<>>
    /\ Warn("row")
    /\ IF mode.table
       THEN Discard
       ELSE /\ row' = [names |-> {Here}, numbers |-> <<>>, sourceLines |-> {Here}]
            /\ discarded' = number
    /\ mode' = [mode EXCEPT !.ambiguousTable = mode.table]
    /\ UNCHANGED items

\* Digits that are neither figures of a row nor a name.
Unreadable ==
    /\ ReadRow("figures")
    /\ Discard /\ Quiet /\ UNCHANGED mode

-----------------------------------------------------------------------------
\* What is left is reported.
Left == (IF row.numbers = <<>> THEN {} ELSE {"last"})
        \cup (IF items' = <<>> THEN {"none"} ELSE {})

\* The text ends, or a footer ends it: in a table, a name with figures that end
\* in a price is an item without its other values.
Finish ==
    /\ done' = TRUE
    /\ \/ /\ UNCHANGED items
          /\ warnings' = warnings \cup Reports(0, Left)
       \/ /\ mode.table /\ row.names # {} /\ row.numbers # <<>>
          /\ \/ /\ items' = Append(items, Item(row.names \cup Figures,
                                               row.sourceLines))
                /\ warnings' = warnings \cup Reports(0, Left)
                                        \cup Reports(number', {"values"})
             \/ /\ UNCHANGED items
                /\ warnings' = warnings \cup Reports(0, Left)
                                        \cup Reports(number', {"name"})
    /\ UNCHANGED <<mode, row, discarded>>

EndOfText ==
    /\ ~done
    /\ ahead.quantityBy = 0 /\ ~ahead.start
    /\ UNCHANGED <<number, ahead>>
    /\ Finish

Footer ==
    /\ Comes("footer") /\ ahead' = After("footer")
    /\ NoneYet => ~mode.header /\ ahead'.quantityBy = 0
    /\ Finish

Next ==
    \/ \E kind \in {"blank", "skipped"} : Skip(kind)
    \/ TableHeader \/ PriceHeader \/ QuantityHeader
    \/ FooterOfHeader \/ FooterOfTable \/ FooterOfName \/ Footer \/ EndOfText
    \/ Ignored \/ InAmbiguousTable \/ Fragment \/ Unreadable
    \/ \E kind \in Kinds : \/ Match(kind) \/ Start(kind) \/ Times(kind)
                           \/ Letters(kind) \/ LettersAfterFigures(kind)

Spec == Init /\ [][Next]_vars

-----------------------------------------------------------------------------
\* Every item is read from lines of its own.  No line is in two items, whose
\* order is that of their lines; none joins lines from before and after one
\* that separates them (a service line, the header of a table, a row that was
\* given up); and its confidence is that of exactly the lines of its text.
ItemsAreOfTheirLines ==
    /\ \A a, b \in DOMAIN items : a < b =>
          \A i \in items[a].text \cup items[a].lines,
            j \in items[b].text \cup items[b].lines : i < j
    /\ \A a \in DOMAIN items :
          /\ \A i \in items[a].text : i > items[a].since
          /\ items[a].lines = items[a].text

\* What cannot be read is not guessed and not passed over: no item comes of a
\* table of which a row could not be read, not from what was collected before
\* either, and figures are only given up with a warning, or at a line that
\* cannot belong to an item.
UnreadIsReported ==
    [][ /\ mode.ambiguousTable => items' = items
        /\ row.numbers # <<>> /\ row'.numbers = <<>> =>
              \/ items' # items
              \/ warnings' # warnings
              \/ TableHeader \/ Ignored \/ Unreadable ]_vars
=============================================================================
