--------------------------------- MODULE Map ---------------------------------
(***************************************************************************)
(* The map of a world (core/terra, core/region): planes of regions, regions *)
(* of cells, how they are made, found, saved and loaded.                   *)
(*                                                                         *)
(* Every one of them has a scope.  World, planes and regions give theirs   *)
(* an id; a cell does not, and a scope without id is named after its       *)
(* address in memory.  An address belongs to one object at a time, and the *)
(* allocator may give it to another when that object is gone; a loaded     *)
(* scope has the id it was saved with, whatever its address is now.        *)
(***************************************************************************)
EXTENDS Surfaces, Functions

CONSTANTS
    Plans,              \* planes asked for: id or Null, two corners, radius and external
                        \* radius of regions
    RegionIds,          \* ids of regions made outside a plane
    CityIds,
    Null,
    Bases,              \* where the allocator may begin
    MaxPlanes,          \* bound
    MaxCities           \* bound: regions with a city at a time

ASSUME PlansAssumption ==
    \A plan \in Plans : /\ plan.corners \in (Int \X Int) \X (Int \X Int)
                        /\ plan.radius \in Int /\ plan.external \in Int
ASSUME BasesAssumption == Bases \subseteq Nat

VARIABLES
    world,
    saved,              \* the last save, and what it was a save of (history)
    loaded,             \* the world was loaded
    extended,           \* history: planes or regions were made after a load
    restored            \* history: the last step was a load

vars == <<world, saved, loaded, extended, restored>>

NoPlanes == [id \in {} |-> Null]
NotSaved == [scopes |-> {}, nextId |-> 0, planes |-> NoPlanes, view |-> Null]

WorldScope == <<"world", "root">>
PlaneScope(id) == <<"plane", id>>
RegionScope(id) == <<"region", id>>
CellScope(address) == <<"cell", address>>
NoScope == <<"none", Null>>

-----------------------------------------------------------------------------
(* Objects in memory.                                                      *)

PlacesOf(plane) == ToSet(Foreach(plane.shape))
RegionAt(plane, place) == plane.regions[GetCell(plane.shape, place)]
CellAt(region, place) == region.cells[GetCell(region.shape, place)]

Cells(planes) ==
    UNION {ToSet(region.cells) :
              region \in UNION {ToSet(planes[id].regions) : id \in DOMAIN planes}}
LiveAddresses(planes) == {cell.address : cell \in Cells(planes)}

\* Memory for n objects: where it begins is the allocator's choice.
CanAllocate(base, n, live) == (base..(base + n - 1)) \cap live = {}

\* Fault: the id is made from the last digits of the address.
NewCellByDigits(address) ==
    [address |-> address, scope |-> CellScope(address % 16), parent |-> NoScope]

NewCell(address) == [address |-> address, scope |-> CellScope(address), parent |-> NoScope]

\* Region::InitNonpersistent: cells of the box outside the shape have no parent.
WithParent(region) ==
    LET inside == {GetCell(region.shape, place) : place \in ToSet(Foreach(region.shape))}
    IN  [region EXCEPT !.cells = [i \in DOMAIN @ |->
            IF i \in inside THEN [@[i] EXCEPT !.parent = RegionScope(region.id)] ELSE @[i]]]

NewRegion(id, radius, base) ==
    LET shape == Hexagon(radius)
    IN  WithParent([id |-> id, parent |-> NoScope, cityId |-> Null, shape |-> shape,
                    cells |-> [i \in 1..DataSize(shape) |-> NewCell(base + i - 1)]])

\* Plane::InitNonpersistent: parents of regions, and the index of regions by id.
WithIndex(plane) ==
    LET inside == {GetCell(plane.shape, place) : place \in PlacesOf(plane)}
    IN  [plane EXCEPT
            !.regions = [i \in DOMAIN @ |->
                IF i \in inside THEN [@[i] EXCEPT !.parent = PlaneScope(plane.id)] ELSE @[i]],
            !.index = [id \in {plane.regions[i].id : i \in inside} |->
                CHOOSE i \in inside : plane.regions[i].id = id]]

EffectiveRadius(radius) == IF radius <= 0 THEN 5 ELSE radius
EffectiveExternal(external, radius) ==
    IF external < radius THEN radius + (radius \div 2) + 1 ELSE external

\* Regions are numbered in the order Foreach comes to them.
NewPlane(id, corners, radius, external, nextId, base) ==
    LET shape == Rhombus(Box(corners[1], corners[2]))
        visits == Foreach(shape)
        Turn(i) == CHOOSE n \in DOMAIN visits : GetCell(shape, visits[n]) = i
        size == DataSize(Hexagon(radius))
        regions == [i \in 1..DataSize(shape) |->
            NewRegion(<<"rgn", nextId + Turn(i) - 1>>, radius, base + (i - 1) * size)]
    IN  WithIndex([id |-> id, parent |-> NoScope, shape |-> shape,
                   externalRadius |-> external, regions |-> regions, index |-> <<>>])

-----------------------------------------------------------------------------
(* Finding.                                                                *)

GetRegionById(plane, id) ==
    IF id \in DOMAIN plane.index THEN {plane.regions[plane.index[id]]} ELSE {}

HasRegion(plane, id) == id \in DOMAIN plane.index

\* World::GetRegionById: the first plane that has it.
RegionsFound(planes, id) ==
    UNION {GetRegionById(planes[p], id) : p \in DOMAIN planes}

\* Fault: only q is scaled.
TotalPlaceByQ(plane, place, cell) ==
    <<Q(place) * plane.externalRadius + Q(cell), R(place) + R(cell)>>

\* The place of a cell when all regions of a plane are laid out in one system.
TotalPlace(plane, place, cell) ==
    <<Q(place) * plane.externalRadius + Q(cell), R(place) * plane.externalRadius + R(cell)>>

\* The square of the distance, or the number that is given instead of one.
GetDistanceBetweenCells(plane, place1, cell1, place2, cell2) ==
    LET Missing(place) == ~ShapeContains(plane.shape, place)
        Outside(place, cell) == ~ShapeContains(RegionAt(plane, place).shape, cell)
        a == TotalPlace(plane, place1, cell1)
        b == TotalPlace(plane, place2, cell2)
        delta == <<Q(a) - Q(b), R(a) - R(b)>>
    IN  IF Missing(place1) \/ Missing(place2) THEN -1
        ELSE IF Outside(place1, cell1) THEN -1
        ELSE IF Outside(place2, cell2) THEN -2
        ELSE Q(delta) * Q(delta) + R(delta) * R(delta) + S(delta) * S(delta)

-----------------------------------------------------------------------------
(* Saving and loading.                                                     *)

\* Scopes that World::VisitScopes comes to; ids are those of World::SerializeTo.
VisitedRegions(planes) ==
    UNION {{RegionAt(planes[id], place) : place \in PlacesOf(planes[id])} : id \in DOMAIN planes}
VisitedCells(planes) ==
    UNION {{CellAt(region, place) : place \in ToSet(Foreach(region.shape))} :
              region \in VisitedRegions(planes)}
VisitedScopes(planes) ==
    {WorldScope} \cup {PlaneScope(id) : id \in DOMAIN planes}
      \cup {RegionScope(region.id) : region \in VisitedRegions(planes)}
      \cup {cell.scope : cell \in VisitedCells(planes)}

\* TopologicallySortScopePtrs finds no two scopes of one id.
NoDuplicates(planes) ==
    Cardinality({cell.scope : cell \in VisitedCells(planes)})
        = Cardinality({cell.address : cell \in VisitedCells(planes)})

\* Fault: only the cells that are visited are written.
SaveVisitedRegion(region) ==
    LET visits == Foreach(region.shape)
    IN  [id |-> region.id, cityId |-> region.cityId, shape |-> region.shape,
         cells |-> [i \in DOMAIN visits |-> CellAt(region, visits[i]).scope]]

\* All elements of the array, in the order of the array.
SaveRegion(region) ==
    [id |-> region.id, cityId |-> region.cityId, shape |-> region.shape,
     cells |-> [i \in DOMAIN region.cells |-> region.cells[i].scope]]

SavePlane(plane) ==
    [id |-> plane.id, externalRadius |-> plane.externalRadius, shape |-> plane.shape,
     regions |-> [i \in DOMAIN plane.regions |-> SaveRegion(plane.regions[i])]]

\* A cell whose scope is not among those saved keeps the one it was made with.
LoadCell(scope, scopes, address) ==
    IF scope \in scopes THEN [NewCell(address) EXCEPT !.scope = scope] ELSE NewCell(address)

LoadRegion(proto, scopes, base) ==
    LET blank == NewRegion(proto.id, proto.shape.radius, base)
    IN  WithParent([blank EXCEPT
            !.cityId = proto.cityId,
            !.cells = [i \in DOMAIN @ |->
                IF i \in DOMAIN proto.cells THEN LoadCell(proto.cells[i], scopes, base + i - 1)
                ELSE @[i]]])

\* How many addresses the first regions take.
Offsets(regions) ==
    LET offset[i \in 0..Len(regions)] ==
            IF i = 0 THEN 0 ELSE offset[i - 1] + DataSize(regions[i].shape)
    IN  offset

LoadPlane(proto, scopes, base) ==
    LET offset == Offsets(proto.regions)
    IN  [WithIndex([id |-> proto.id, parent |-> NoScope, shape |-> proto.shape,
                    externalRadius |-> proto.externalRadius,
                    regions |-> [i \in DOMAIN proto.regions |->
                        LoadRegion(proto.regions[i], scopes, base + offset[i - 1])],
                    index |-> <<>>])
         EXCEPT !.parent = WorldScope]

PlaneSize(proto) == Offsets(proto.regions)[Len(proto.regions)]

\* What a save is to bring back: which region is where, whose city it has, and
\* which scope each of its cells has.
View(w) ==
    [nextId |-> w.nextId,
     planes |-> [id \in DOMAIN w.planes |->
        LET plane == w.planes[id]
        IN  [externalRadius |-> plane.externalRadius,
             regions |-> [place \in PlacesOf(plane) |->
                LET region == RegionAt(plane, place)
                IN  [id |-> region.id, cityId |-> region.cityId,
                     cells |-> [c \in ToSet(Foreach(region.shape)) |-> CellAt(region, c).scope]]]]]]

-----------------------------------------------------------------------------
(* What is done to a map.                                                  *)

Init ==
    /\ world = [nextId |-> 0, planes |-> NoPlanes]
    /\ saved = NotSaved
    /\ loaded = FALSE
    /\ extended = FALSE
    /\ restored = FALSE

\* Asked for a plane that exists, AddPlane gives that one and changes nothing.
AddPlane(plan, base) ==
    LET id == plan.id
        planeId == IF id = Null THEN <<"plane", world.nextId>> ELSE id
        nextId == IF id = Null THEN world.nextId + 1 ELSE world.nextId
        radius == EffectiveRadius(plan.radius)
        plane == NewPlane(planeId, plan.corners, radius,
                          EffectiveExternal(plan.external, radius), nextId, base)
    IN  /\ id \notin DOMAIN world.planes
        /\ Cardinality(DOMAIN world.planes) < MaxPlanes
        /\ CanAllocate(base, PlaneSize(plane), LiveAddresses(world.planes))
        /\ world' = [nextId |-> nextId + Len(plane.regions),
                     planes |-> [other \in DOMAIN world.planes \cup {planeId} |->
                         IF other = planeId THEN [plane EXCEPT !.parent = WorldScope]
                         ELSE world.planes[other]]]
        /\ extended' = (extended \/ loaded)
        /\ restored' = FALSE
        /\ UNCHANGED <<saved, loaded>>

\* Fault: the replaced region stays in the index.
IndexWithReplaced(plane, i, id) == (id :> i) @@ plane.index

\* The index when the region at i becomes that of the id.
IndexWithout(plane, i, id) ==
    LET others == DOMAIN plane.index \ {plane.regions[i].id}
    IN  [other \in others \cup {id} |-> IF other \in others THEN plane.index[other] ELSE i]

\* The new region is not given a parent.
SetRegion(planeId, place, id, radius, base) ==
    LET plane == world.planes[planeId]
        i == GetCell(plane.shape, place)
        region == NewRegion(id, radius, base)
        changed == [plane EXCEPT !.regions[i] = region, !.index = IndexWithout(plane, i, id)]
    IN  /\ RegionsFound(world.planes, id) = {}
        /\ CanAllocate(base, Len(region.cells), LiveAddresses(world.planes))
        /\ world' = [world EXCEPT !.planes[planeId] = changed]
        /\ extended' = (extended \/ loaded)
        /\ restored' = FALSE
        /\ UNCHANGED <<saved, loaded>>

Cities(planes) == {region \in VisitedRegions(planes) : region.cityId # Null}

\* A region with a city accepts no other before it has been given Null.
SetCityId(planeId, place, cityId) ==
    LET i == GetCell(world.planes[planeId].shape, place)
    IN  /\ world.planes[planeId].regions[i].cityId = Null \/ cityId = Null
        /\ cityId # Null => Cardinality(Cities(world.planes)) < MaxCities
        /\ world' = [world EXCEPT !.planes[planeId].regions[i].cityId = cityId]
        /\ restored' = FALSE
        /\ UNCHANGED <<saved, loaded, extended>>

\* Saving a world with two scopes of one id throws and leaves everything as it was.
Save ==
    /\ NoDuplicates(world.planes)
    /\ saved' = [scopes |-> VisitedScopes(world.planes),
                 nextId |-> world.nextId,
                 planes |-> [id \in DOMAIN world.planes |-> SavePlane(world.planes[id])],
                 view |-> View(world)]
    /\ restored' = FALSE
    /\ UNCHANGED <<world, loaded, extended>>

\* In the same process, where the former world still has its memory, or in another.
Load(bases) ==
    /\ saved # NotSaved
    /\ \E live \in {{}, LiveAddresses(world.planes)} :
          \A id \in DOMAIN saved.planes :
              LET used == (bases[id])..(bases[id] + PlaneSize(saved.planes[id]) - 1)
              IN  /\ used \cap live = {}
                  /\ \A other \in DOMAIN saved.planes \ {id} : bases[other] \notin used
    /\ world' = [nextId |-> saved.nextId,
                 planes |-> [id \in DOMAIN saved.planes |->
                     LoadPlane(saved.planes[id], saved.scopes, bases[id])]]
    /\ loaded' = TRUE
    /\ extended' = FALSE
    /\ restored' = TRUE
    /\ UNCHANGED saved

Next ==
    \/ \E plan \in Plans, base \in Bases : AddPlane(plan, base)
    \/ \E planeId \in DOMAIN world.planes : \E place \in PlacesOf(world.planes[planeId]) :
          \/ \E id \in RegionIds, base \in Bases : SetRegion(planeId, place, id, 1, base)
          \/ \E cityId \in CityIds \cup {Null} : SetCityId(planeId, place, cityId)
    \/ Save
    \/ \E bases \in [DOMAIN saved.planes -> Bases] : Load(bases)

Spec == Init /\ [][Next]_vars

-----------------------------------------------------------------------------
(* Properties.                                                             *)

\* Type correctness.
MapTypeOK ==
    /\ world.nextId \in Nat
    /\ \A id \in DOMAIN world.planes :
          LET plane == world.planes[id]
          IN  /\ plane.id = id
              /\ Len(plane.regions) = DataSize(plane.shape)
              /\ \A i \in DOMAIN plane.regions :
                    Len(plane.regions[i].cells) = DataSize(plane.regions[i].shape)
    /\ {loaded, extended, restored} \subseteq BOOLEAN

\* A region is found under its id where it is, and under no other id: whatever
\* regions were replaced, loaded or numbered, the index of Plane names the regions on
\* the surface, the surface has one at each place of its shape, and ids are never
\* shared by two of them.
RegionIndexExact ==
    \A id \in DOMAIN world.planes :
        LET plane == world.planes[id]
        IN  /\ ToSet(Foreach(plane.shape)) = Places(plane.shape)
            /\ \A place \in Places(plane.shape) :
                  RegionsFound(world.planes, RegionAt(plane, place).id) = {RegionAt(plane, place)}
            /\ \A other \in DOMAIN plane.index :
                  \E place \in Places(plane.shape) : RegionAt(plane, place).id = other

\* Loading brings back what was saved: the region of each place, with its id, city and
\* the scopes of its cells, and every scope is below the one that contains it, also
\* those of regions that had no parent when they were saved.
MapRestored ==
    restored =>
        /\ View(world) = saved.view
        /\ \A id \in DOMAIN world.planes :
              LET plane == world.planes[id]
              IN  /\ plane.parent = WorldScope
                  /\ \A place \in PlacesOf(plane) :
                        LET region == RegionAt(plane, place)
                        IN  /\ region.parent = PlaneScope(id)
                            /\ \A cell \in Places(region.shape) :
                                  CellAt(region, cell).parent = RegionScope(region.id)

\* A map can always be saved, unless planes or regions were made after it was loaded:
\* only then can a new cell be given an address that another's id was made from.
DuplicatesOnlyAfterLoad == ~extended => NoDuplicates(world.planes)

\* Two cells of a plane are at distance zero only if they are the same cell, provided
\* the external radius is larger than both their regions' radii together; neighbouring
\* regions that are larger than that share places.
PlacesOverlapOnlyIfClose ==
    \A id \in DOMAIN world.planes :
        LET plane == world.planes[id]
            Distance(p1, c1, p2, c2) == GetDistanceBetweenCells(plane, p1, c1, p2, c2)
            Zeros(p1, p2) ==
                {c \in Places(RegionAt(plane, p1).shape) \X Places(RegionAt(plane, p2).shape) :
                    Distance(p1, c[1], p2, c[2]) = 0}
        IN  \A p1, p2 \in Places(plane.shape) :
                LET together == RegionAt(plane, p1).shape.radius + RegionAt(plane, p2).shape.radius
                    neighbours == <<Q(p2) - Q(p1), R(p2) - R(p1)>> \in {<<0, 1>>, <<1, 0>>}
                    roomy == plane.externalRadius > together
                IN  /\ p1 = p2 => \A c \in Zeros(p1, p2) : c[1] = c[2]
                    /\ p1 # p2 /\ roomy => Zeros(p1, p2) = {}
                    /\ neighbours /\ ~roomy => Zeros(p1, p2) # {}
=============================================================================
