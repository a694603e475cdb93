SPECIFICATION FairSpec
CONSTANTS
    zero = zero
    one = one
    big = big
    Content <- MCSameSize
    CrcOf <- MCCrcOf
    SizeOf <- MCSizeOf
    Nothing = Nothing
    Torn = Torn
    MaxRetries = 3
    MaxEdits = 2
    Faults = {"edit"}
PROPERTY RetriesAbsorbEdits
