CONSTANTS
    Receipts = {r1, r2, r3}
    Processes = {p1, p2}
SPECIFICATION Spec
SYMMETRY ObjectSymmetry
INVARIANTS NoImageForgotten ReceiptHasImage
PROPERTY CleanRunRemovesAll
CHECK_DEADLOCK FALSE
