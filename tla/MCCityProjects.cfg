SPECIFICATION Spec
CONSTANTS
    Workforce = Workforce
    hut = hut
    mill = mill
    road = road
    wood = wood
    stone = stone
    Projects <- MCProjects
    Resources <- MCResources
    Cost <- MCCost
    Pools <- MCPools
INVARIANTS
    WorkforceMovesResources
    FinishedOncePaid
    ServedInOrder
