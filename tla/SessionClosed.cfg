SPECIFICATION Spec
CONSTANTS
    zero = zero
    one = one
    big = big
    Content <- MCSameSize
    CrcOf <- MCCrcOf
    SizeOf <- MCSizeOf
    Nothing = Nothing
    Torn = Torn
    MaxRetries = 2
    MaxEdits = 0
    Faults = {}
INVARIANT FinishedIsClosed
