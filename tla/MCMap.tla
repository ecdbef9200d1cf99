-------------------------------- MODULE MCMap --------------------------------
(***************************************************************************)
(* A world of up to two planes of two regions each, with cells of radius   *)
(* one: a plane takes 18 addresses, and memory holds two planes.  A plane  *)
(* that is loaded while the former world is alive takes other addresses    *)
(* than the ids of its cells say.                                          *)
(***************************************************************************)
EXTENDS Map

CONSTANTS main, cave, alpha

MCPlans == {
    [id |-> main, corners |-> <<<<0, 1>>, <<0, 0>>>>, radius |-> 1, external |-> 3],
    [id |-> Null, corners |-> <<<<-1, 0>>, <<0, 0>>>>, radius |-> 1, external |-> -1]}
MCRegionIds == {cave}
MCCityIds == {alpha}
MCBases == {0, 18}
=============================================================================
