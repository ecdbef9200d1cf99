SPECIFICATION Spec
CONSTANTS
    Null = Null
    main = main
    cave = cave
    alpha = alpha
    Plans <- MCPlans
    RegionIds <- MCRegionIds
    CityIds <- MCCityIds
    Bases <- MCBases
    MaxPlanes = 2
    MaxCities = 1
INVARIANTS
    RegionIndexExact
    MapRestored
    DuplicatesOnlyAfterLoad
    PlacesOverlapOnlyIfClose
