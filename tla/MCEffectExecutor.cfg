SPECIFICATION ExecutorSpec
CONSTANTS
    Scopes <- MCScopes
    World = "world"
    MapScopes <- MCMapScopes
    Civs <- MCCivs
    Reach <- MCReach
    Variables <- MCVariables
    CoreTurn = "turn"
    CoreClass = "class"
    Effects <- MCEffects
    RuleSets <- MCIndependent
    Session = "session"
    Targets <- MCTargets
    Deps <- MCDeps
    Reads <- MCReads
    Writes <- MCWrites
    Possible <- MCPossible
    Script <- MCScript
    Given <- MCGiven
    Amounts = {1, 2}
    MaxTurn = 3
    NoRuleSet = NoRuleSet
INVARIANTS
    StampsFollowTurn
    TurnCarried
PROPERTIES
    ImplementsTurns
    OnlySessionWakes
    CreatedScopesWake
