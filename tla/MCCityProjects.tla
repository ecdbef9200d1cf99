--------------------------- MODULE MCCityProjects ---------------------------
(***************************************************************************)
(* Three projects: one needs a resource only, one both resources and more  *)
(* workforce than those take to move, one workforce only.  Turns offer too *)
(* little or enough of each, nothing, or a debt.                           *)
(***************************************************************************)
EXTENDS CityProjects

CONSTANTS hut, mill, road, wood, stone

Amounts(w, s, f) == (wood :> w) @@ (stone :> s) @@ (Workforce :> f)

MCProjects == {hut, mill, road}
MCResources == <<wood, stone>>
MCCost == (hut :> Amounts(2, 0, 0)) @@ (mill :> Amounts(1, 1, 3)) @@ (road :> Amounts(0, 0, 2))
MCPools == {Amounts(1, 0, 1), Amounts(1, 1, 2), Amounts(2, -1, 2), Amounts(3, 1, 0),
            Amounts(3, 2, 6)}
=============================================================================
