CONSTANTS
    DayTicks = 4
    MonthStarts <- SmallMonths
    Zones <- SmallZones
    QueryZones <- OneZone
    None = None
    LastShort = 2
    LastLong = 4
    MaxPeriodDays = 4
    Receipts = {r1, r2}
    Instants <- FewInstants
    ItemLists <- FewLists
    Stores <- FewStores
    Amounts = {1, 2}
    Uncategorized = 1
    WeekDays = 2
    MaxLimit = 2
SPECIFICATION TotalsSpec
SYMMETRY ReceiptSymmetry
INVARIANTS
    PeriodIsItsDays ComparisonIsFair PrintedTimeIsUnique
    QueriesAgree
