SPECIFICATION Spec
CONSTANTS
    Civs = {c1, c2}
    ImprovementClasses <- MCImprovementClasses
    JobClasses <- MCJobClasses
    Groups <- MCGroups
    Cells = {x}
    Slots = {0, 1}
    RuleSets <- MCStable
    MaxId = 3
    NoScope = NoScope
    NoRuleSet = NoRuleSet
    NoCiv = NoCiv
    NoName = NoName
INVARIANTS
    CivilizationsRegistered
SYMMETRY CivSymmetry
