SPECIFICATION FairSpec
CONSTANTS
    tracked = tracked
    clean = clean
    page = page
    Urls = {tracked, clean, page}
    Cleaned <- CleanedUrls
    Blocks = {b1, b2, b3, b4}
    MaxRedirects = 3
    Null = Null
    Freed = Freed
INVARIANTS
    IInv
    MemorySafe
    Ownership
    ResultIsAnswered
PROPERTIES
    UnshortReturns
