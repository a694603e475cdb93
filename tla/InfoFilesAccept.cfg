SPECIFICATION Spec
CONSTANTS
    Letters <- MCLetters
    Texts <- MCTexts
    Ids <- MCIds
    Key <- MCKey
    Garbage <- MCGarbage
    PortLimit = 4
    LongestLine = 2
CHECK_DEADLOCK FALSE
INVARIANT NextRunAccepts
