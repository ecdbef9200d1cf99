SPECIFICATION RuleSetSpec
CONSTANTS
    FixedDomains = {"job", "resource"}
    MaxParameters = 2
    Unset = Unset
    LuaName <- MCLuaName
    InvalidIds = {"", "Gold"}
    RootSequences <- MCRootSequences
    Sources <- MCSources
INVARIANTS
    DerivedFromTables
    LastFileWins
    GroupsResolve
    GeneratedEffectsResolve
    NamesReplaceReferences
    RestoredUnlessJobs
