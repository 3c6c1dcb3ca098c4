CONSTANTS
    u1 = u1  u2 = u2  u3 = u3  u4 = u4  h1 = h1  h2 = h2
    n1 = n1  n2 = n2  p1 = p1  p2 = p2
    NoName = NoName  NoPid = NoPid  NoRelease = NoRelease
    NoFile = NoFile  Garbled = Garbled
    URIs <- MCURIs
    Names <- MCNames
    Pids <- MCPids
    BinName <- MCBinName
    Releases <- MCReleases
    Payload <- MCPayload
    ErrorBody <- MCErrorBody
    ChainValues <- MCChainValues
    MaxChainUpdates = 3
    MaxSignals = 1
    MaxFaults = 2
    RetryLimit = 2
    WorkerHonoursSigterm = TRUE
    WorkerMayCrash = FALSE

SPECIFICATION Spec

INVARIANT AtMostOneWorker
INVARIANT HandleMatchesRelease
PROPERTY LiveBinaryUntouched
PROPERTY EventuallyUpToDate
PROPERTY SignalLeadsToExit
