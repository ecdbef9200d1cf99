SPECIFICATION Spec
CONSTANTS
    FixedDomains = {"job", "resource"}
    MaxParameters = 2
    Unset = Unset
    Ids <- MCIds
    PlainIds <- MCPlainIds
    Patterns <- MCPatterns
    Values <- MCValues
INVARIANTS
    OneTypePerId
    FixedValuesCurrent
    FindersAgree
    QueriesExpand
    DumpIsWhatIsFound
