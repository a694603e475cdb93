SPECIFICATION FairSpec
CONSTANTS
    zero = zero
    one = one
    big = big
    Content <- MCContent
    CrcOf <- MCCrcOf
    SizeOf <- MCSizeOf
    Nothing = Nothing
    Torn = Torn
    MaxRetries = 3
    MaxEdits = 2
    Faults = {"edit", "remove", "linkDown", "clientCrash", "serverCrash", "shortRead", "nameTaken", "infoFails", "dbFails", "saveFails"}
INVARIANTS
    TypeOK
    InStep
    CrcIsCurrent
    SavedIsAccepted
    SuccessWasServed
    VerifiedIsSaved
    RowPerAttempt
    NobodyWaitsInVain
    IInv
PROPERTIES
    KeepsPromise
    KeepsLifecycle
    Termination
