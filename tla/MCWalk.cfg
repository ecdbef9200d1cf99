SPECIFICATION WalkSpec
CONSTANTS
    Scopes = {1, 2, 3, 4}
    LinkLists <- MCLinkLists
INVARIANTS
    VisitsReachableOnce
    VisitsInOrder
PROPERTIES
    WalkEnds
CHECK_DEADLOCK FALSE
