------------------------- MODULE MCAnalyticsTotals --------------------------
(***************************************************************************)
(* An instance of AnalyticsTotals for TLC: three months of 3, 2 and 3 days *)
(* of four ticks, and every zone that moves its clocks by at most half a   *)
(* day, or once by a whole one, and over no midnight.  Receipts are        *)
(* counted in one that sets its clocks back by half a day; they are of     *)
(* local midnights and of days that are not those of UTC.                  *)
(***************************************************************************)
EXTENDS AnalyticsTotals, TLC

SmallMonths == <<0, 3, 5, 8>>

Shifts == [at : 0 .. 31, before : -1 .. 1, after : -1 .. 1]
Skips == [at : 0 .. 31, before : {-2}, after : {2}]

SmallZones ==
    {zone \in Shifts \cup Skips :
        \A day \in FirstDay .. EndOfDays : Regular(zone, Midnight(day))}

OneZone == {[at |-> 21, before |-> 1, after |-> -1]}
FewInstants == {18, 19, 25}

Line(category, product, price) ==
    [category |-> category, product |-> product, price |-> price]

FewLists ==
    { <<Line(1, 1, 1)>>,
      <<Line(None, 2, 1)>>,
      <<Line(None, 2, 2)>>,
      <<Line(1, 1, 1), Line(1, 2, 1)>>,
      <<Line(1, 1, 1), Line(None, 1, 1)>> }

FewStores == {1, None}

ReceiptSymmetry == Permutations(Receipts)
=============================================================================
