CONSTANTS
    HexChars <- MCHexChars
    OtherChars <- MCOtherChars
    Phrase <- MCPhrase
    SeedBytes = 1
    MaxKeyLen = 6
    Width = 8

SPECIFICATION Spec

INVARIANT FileKeyMatchesReference
CHECK_DEADLOCK FALSE
