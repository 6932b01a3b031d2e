SPECIFICATION Spec
CONSTANTS
    Lower <- MCLower
    Size <- MCSize
    Value <- MCValue
    Hex <- MCHex
    Addresses <- MCAddresses
    Urls <- MCUrls
    Captured <- MCCaptured
    Answers <- MCAnswers
    MinHostname = 4
    MaxHostname = 9
    MaxLabel = 5
    MinAddress = 2
    MaxAddress = 3
    MaxPort = 500
    IntSpan = 10000
    MaxRedirects = 1
    MaxTail = 3
    Null = Null
INVARIANT PartsKept
CHECK_DEADLOCK FALSE
