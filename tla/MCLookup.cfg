SPECIFICATION Spec
CONSTANTS
    Class = Class
    Group = Group
    Civ = Civ
    Number = Number
    Label = Label
    a = a
    b = b
    Scopes <- MCScopes
    Links <- MCLinks
    NumericNames = {Number}
    Variables <- MCVariables
    Queries <- MCQueries
    Placeholder = Placeholder
    Wildcard = Wildcard
    Writable <- MCWritable
    Adds <- MCAdds
    Mults <- MCMults
    Levels <- MCLevels
    Values = {x, y}
    Minimum <- MCMinimum
    Maximum = 5
    DefaultValue = DefaultValue
    EmptyString = EmptyString
    MaxModifiers = 2
    MaxTurn = 1
SYMMETRY MCSymmetry
INVARIANTS
    NumberIsSum
    StringIsHighest
    QueriesAgree
    ChangesAreSeen
CHECK_DEADLOCK FALSE
