CONSTANTS
    Angles = {0, 90}
    Confidences = {4, 5}
    MinConfidence = 5
    MaxSide = 6
    MaxPixels = 30
    Texts <- MCTexts
    Scores = {1, 2}
    Invalid = Invalid
    MaxFragments = 3
    MaxLines = 6
    MaxNumbers = 2
    Items = {i1, i2}
    Quantities = {500, 999}
    Amounts = {1, 6, 12}
    Tolerance = 5
    milk = milk
    chips = chips
    groceries = groceries
    snacks = snacks
    Names = {milk, chips}
    Categories = {groceries, snacks}
    Rule <- MCRule
    Absent = Absent
    MaxChoice = 2
    None = None
SPECIFICATION ReadingSpec
SYMMETRY ItemSymmetry
INVARIANTS
    BoxesSpanPicture UnreviewedIsUpright
    LinesHaveTheirFragment ItemsAreOfTheirLines
    MarksTellOrigin WarningsForetellRefusal ConfirmedTotalIsNear
PROPERTIES
    UnreadIsReported OnlyOwnerRelabels
CHECK_DEADLOCK FALSE
