---------------------------- MODULE MCDefinitions ----------------------------
(***************************************************************************)
(* A small tree of scopes for Definitions: a cell, a civilization with a   *)
(* class and a city, an improvement, and rulesets that replace each other. *)
(***************************************************************************)
EXTENDS Definitions

MCMapScopes == {"world", "cell"}
MCCivs == {"civ"}
MCCities == {"city"}
MCImprovements == {"farm"}
MCClasses == {"class"}
MCScopes == {"world", "cell", "civ", "city", "farm", "class"}

MCAbove ==
    [world |-> {"world"}, cell |-> {"world", "cell"}, civ |-> {"world", "civ"},
     city |-> {"world", "civ", "city"}, class |-> {"world", "civ", "class"},
     farm |-> {"world", "cell", "farm"}]
=============================================================================
