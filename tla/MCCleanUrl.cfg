SPECIFICATION Spec
CONSTANTS
    Rulesets <- MCRulesets
    Calls <- MCCalls
    Quoted <- MCQuoted
    AnyUrl = AnyUrl
    Vocabulary <- MCVocabulary
    Null = Null
    MaxText = 6
INVARIANTS
    IInv
    FieldsAsPromised
    RedirectionsFollowed
    RebuiltFits
    Stable
CHECK_DEADLOCK FALSE
