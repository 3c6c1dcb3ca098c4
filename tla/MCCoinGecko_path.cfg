CONSTANTS
    SegChar = "v"
    MaxPathLen = 3
    Ids <- MCIds
    Symbols <- MCSymbols
    Key = "k"
    Prices = {p1, p2}
    None = None

SPECIFICATION Spec

CHECK_DEADLOCK FALSE

INVARIANT RequestPathHasNoEmptySegment
