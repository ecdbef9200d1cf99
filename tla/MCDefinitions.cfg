SPECIFICATION Spec
CONSTANTS
    Scopes <- MCScopes
    World = "world"
    MapScopes <- MCMapScopes
    Civs <- MCCivs
    Cities <- MCCities
    Improvements <- MCImprovements
    Classes <- MCClasses
    Above <- MCAbove
    RuleSets = {r1, r2}
    NoRuleSet = NoRuleSet
INVARIANTS
    StaleOnlyIfMissed
PROPERTIES
    ReadingIsTransparent
