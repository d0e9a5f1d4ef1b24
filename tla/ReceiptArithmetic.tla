-------------------------- MODULE ReceiptArithmetic --------------------------
(***************************************************************************)
(* Whether the sums of a receipt fit together, as three parts of the       *)
(* program decide it: the parser when it reports on a result, the page     *)
(* that shows the receipt, and the confirmation, which alone refuses.      *)
(* Amounts are in hundredths, quantities in thousandths, as the columns    *)
(* and the forms hold them; a product is in hundred-thousandths.           *)
(***************************************************************************)
EXTENDS Integers, FiniteSets, FiniteSetsExt

CONSTANTS
    Items,            \* ids of items
    None,
    Quantities,       \* the values tried, in thousandths
    Amounts,          \* and in hundredths
    Tolerance         \* PARSING_TOTAL_TOLERANCE

Statuses == { "no_items", "incomplete", "missing_total", "matched",
              "within_tolerance", "mismatch" }

\* What ReceiptPage compares with, whatever is configured.
PageTolerance == 5

\* The page foretells the confirmation for the default setting only.
ArithmeticConstants ==
    /\ Quantities \subseteq Nat \ {0}
    /\ Amounts \subseteq Nat
    /\ Tolerance = PageTolerance
    /\ None \notin Int \cup Statuses
    /\ IsFiniteSet(Items)

VARIABLES
    items,        \* the rows of receipt_items
    total,        \* total_amount
    report,       \* parsing_report: the figures of the parser, and its verdict
    confirmed

vars == <<items, total, report, confirmed>>

\* calculated: total_price is what the button of the form filled in.
Item == [ quantity : Quantities \cup {None}, price : Amounts \cup {None},
          total : Nat \cup {None}, calculated : BOOLEAN ]

\* The sum and the total it is about, which no edit changes.
Report == [ sum : Nat \cup {None}, amount : Amounts \cup {None},
            status : Statuses ]

TypeOK ==
    /\ items \in [Items -> Item \cup {None}]
    /\ total \in Amounts \cup {None}
    /\ report \in Report
    /\ confirmed \in BOOLEAN

Distance(a, b) == IF a < b THEN b - a ELSE a - b

Product(item) == item.quantity * item.price

\* slip: fractions of a hundredth are cut off
RoundDown(n) == n \div 1000

\* quantize(Decimal("0.01"), ROUND_HALF_UP) of what is not negative.
RoundHalfUp(n) ==
    IF n % 1000 >= 500 THEN n \div 1000 + 1 ELSE n \div 1000

\* lineTotal of the page, in BigInt.
LineTotal(n) == (n + 500) \div 1000

\* The items there are.
Rows(list) == {i \in Items : list[i] # None}

SumOfItems(list) == MapThenSumSet(LAMBDA i : list[i].total, Rows(list))

TotalsComplete(list) ==
    /\ Rows(list) # {}
    /\ \A i \in Rows(list) : list[i].total # None

\* items_sum
ItemsSum(list) == IF TotalsComplete(list) THEN SumOfItems(list) ELSE None

-----------------------------------------------------------------------------
Verdict(list, amount) ==
    CASE Rows(list) = {} -> "no_items"
      [] Rows(list) # {} /\ ~TotalsComplete(list) -> "incomplete"
      [] TotalsComplete(list) /\ amount = None -> "missing_total"
      [] TotalsComplete(list) /\ amount # None ->
            IF SumOfItems(list) = amount THEN "matched"
            ELSE IF Distance(SumOfItems(list), amount) <= Tolerance
            THEN "within_tolerance" ELSE "mismatch"

\* check_receipt_totals
CheckTotals(list, amount) ==
    [ sum |-> ItemsSum(list), amount |-> amount,
      status |-> Verdict(list, amount) ]

\* The loop of validate_receipt_arithmetic.
ItemFits(item) ==
    /\ None \notin {item.quantity, item.price, item.total}
    /\ Distance(RoundHalfUp(Product(item)), item.total) <= Tolerance

\* slip: a difference as large as the tolerance is refused
SumFitsBelow(list, amount) == Distance(SumOfItems(list), amount) < Tolerance

\* slip: the difference keeps its sign
SumFitsBelowTotal(list, amount) == SumOfItems(list) - amount <= Tolerance

SumFits(list, amount) == Distance(SumOfItems(list), amount) <= Tolerance

Validated ==
    /\ total # None /\ total > 0
    /\ Rows(items) # {}
    /\ \A i \in Rows(items) : ItemFits(items[i])
    /\ SumFits(items, total)

\* What the page shows in red; it shows nothing while a sum is missing.
Mismatch ==
    /\ TotalsComplete(items) /\ total # None
    /\ \/ SumOfItems(items) > total + PageTolerance
       \/ SumOfItems(items) < total - PageTolerance

-----------------------------------------------------------------------------
\* A result of the parser, whose values may be missing; total_amount is
\* positive or missing.
Parsed == [ quantity : Quantities \cup {None}, price : Amounts \cup {None},
            total : Amounts \cup {None}, calculated : {FALSE} ]

\* store_result: the items are those of the parser, which the report is about.
\* The total of the receipt may be another than the parsed one: one that was
\* there already is kept, and one the owner cleared stays missing.
Init ==
    /\ items \in [Items -> Parsed \cup {None}]
    /\ \E amount \in (Amounts \ {0}) \cup {None} :
          report = CheckTotals(items, amount)
    /\ total \in (Amounts \ {0}) \cup {None}
    /\ confirmed = FALSE

\* No edit touches the report: it stays what the parser said.
Edited(list, amount) ==
    /\ items' = list
    /\ total' = amount
    /\ confirmed' = FALSE
    /\ UNCHANGED report

\* The form of an item, which needs all three values, is filled in and saved;
\* the button may have calculated the last of them.
Typed(i, quantity, price, amount) ==
    [items EXCEPT ![i] = [ quantity |-> quantity, price |-> price,
                           total |-> amount, calculated |-> FALSE ]]

SaveItem(i, quantity, price, amount) ==
    /\ items[i] # None
    /\ Edited(Typed(i, quantity, price, amount), total)

\* The form of a new item has no button.
AddItem(i, quantity, price, amount) ==
    /\ items[i] = None
    /\ Edited(Typed(i, quantity, price, amount), total)

SaveCalculated(i, quantity, price) ==
    /\ items[i] # None
    /\ Edited([items EXCEPT ![i] = [ quantity |-> quantity, price |-> price,
                                     total |-> LineTotal(quantity * price),
                                     calculated |-> TRUE ]],
              total)

RemoveItem(i) ==
    /\ items[i] # None
    /\ Edited([items EXCEPT ![i] = None], total)

SaveTotal(amount) == Edited(items, amount)

Confirm ==
    /\ ~confirmed /\ Validated
    /\ confirmed' = TRUE
    /\ UNCHANGED <<items, total, report>>

Next ==
    \/ \E i \in Items, quantity \in Quantities, price \in Amounts :
          \/ SaveCalculated(i, quantity, price)
          \/ \E amount \in Amounts :
                \/ SaveItem(i, quantity, price, amount)
                \/ AddItem(i, quantity, price, amount)
    \/ \E i \in Items : RemoveItem(i)
    \/ \E amount \in (Amounts \ {0}) \cup {None} : SaveTotal(amount)
    \/ Confirm

Spec == Init /\ [][Next]_vars

-----------------------------------------------------------------------------
\* The report is about the sum and the total the receipt has now.
ReportIsLive == report.sum = ItemsSum(items) /\ report.amount = total

\* Nobody is told that the sums fit and then refused for them, or the other
\* way round.  The page agrees with the confirmation at the boundary after
\* any edits, and what its button calculates is to the hundredth what is
\* expected.  The stored report may be overtaken by edits, or be about another
\* total than the receipt's; it agrees with the confirmation whenever the
\* figures it names are those of the receipt, also when edits led back there.
WarningsForetellRefusal ==
    LET itemsFit == \A i \in Rows(items) : ItemFits(items[i])
        fine == report.status \in {"matched", "within_tolerance"}
    IN  /\ \A i \in Rows(items) :
              items[i].calculated =>
                  items[i].total = RoundHalfUp(Product(items[i]))
        /\ ReportIsLive /\ fine /\ itemsFit => Validated
        /\ ReportIsLive /\ ~fine => ~Validated
        /\ Mismatch => ~Validated
        /\ total # None /\ total > 0 /\ Rows(items) # {} /\ itemsFit
           /\ ~Mismatch => Validated

\* A confirmed total is what was bought costs, give or take half a hundredth
\* and the tolerance per item, and the tolerance once more.
ConfirmedTotalIsNear ==
    confirmed =>
        LET n == Cardinality(Rows(items))
        IN  Distance(1000 * total,
                     MapThenSumSet(LAMBDA i : Product(items[i]), Rows(items)))
            <= 1000 * Tolerance * (n + 1) + 500 * n
=============================================================================
