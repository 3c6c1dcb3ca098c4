CONSTANTS
    v1 = v1
    v2 = v2
    Vaults <- MCVaults
    MaxSubErrors = 1
    MaxFaults = 1
    LookupMayFail = FALSE

SPECIFICATION Spec

CHECK_DEADLOCK FALSE

PROPERTY EveryDecodedRegistrationDelivered
