CONSTANTS
    b1 = b1  b2 = b2  f1 = f1  r1 = r1
    Self = Self  NoHash = NoHash
    MainChain <- MCMainChain
    ForkHashes <- MCForkHashes
    Others <- MCOthers
    MaxStores = 1
    MaxOtherSuggestions = 1
    MaxStakeChanges = 0
    MaxFaults = 0

SPECIFICATION Spec
CHECK_DEADLOCK FALSE

PROPERTY UnknownBlocksReported
