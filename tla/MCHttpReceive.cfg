SPECIFICATION FairSpec
CONSTANTS
    HeaderLists <- HeaderSections
    Malformed = {"?"}
    MaxBody = 4
    MaxChunk = 3
    MaxHeaders = 6
INVARIANTS
    BodyDelivered
    HeadersComplete
    ParserDefined
    HeadFits
    IInv
PROPERTIES
    ReceiveReturns
