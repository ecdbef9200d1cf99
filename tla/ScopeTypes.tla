----------------------------- MODULE ScopeTypes -----------------------------
(***************************************************************************)
(* The kinds of scope and which of them may refer to which                 *)
(* (core/types/scope_type.hpp).  A scope has at most one parent and any     *)
(* number of tag links; both are checked against a table of types.         *)
(***************************************************************************)
EXTENDS Naturals

\* The types something in the code creates; PLANE_CLASS is declared but never made.
ScopeType ==
    {"WORLD", "PLANE", "REGION", "CELL", "CIV", "CITY", "IMPROVEMENT", "JOB",
     "IMPROVEMENT_CLASS", "IMPROVEMENT_GROUP", "JOB_CLASS", "JOB_GROUP"}

\* The table of parents: a pair <<child, parent>> of types.
ParentTable ==
    {<<"PLANE", "WORLD">>, <<"REGION", "PLANE">>, <<"CELL", "REGION">>,
     <<"CIV", "WORLD">>, <<"CITY", "CIV">>, <<"IMPROVEMENT", "CELL">>,
     <<"JOB", "IMPROVEMENT">>, <<"IMPROVEMENT_CLASS", "CIV">>,
     <<"IMPROVEMENT_GROUP", "CIV">>, <<"JOB_CLASS", "CIV">>, <<"JOB_GROUP", "CIV">>}

\* The table of tag links.
TagTable ==
    {<<"IMPROVEMENT", "IMPROVEMENT_CLASS">>, <<"IMPROVEMENT", "CITY">>,
     <<"IMPROVEMENT_CLASS", "IMPROVEMENT_GROUP">>,
     <<"IMPROVEMENT_GROUP", "IMPROVEMENT_GROUP">>,
     <<"JOB", "JOB_CLASS">>, <<"JOB_CLASS", "JOB_GROUP">>, <<"JOB_GROUP", "JOB_GROUP">>}

CanLinkScopes(from, to) == <<from, to>> \in ParentTable
CanTagLinkScopes(from, to) == <<from, to>> \in TagTable

-----------------------------------------------------------------------------
\* A type refers only to types of a smaller rank, groups of one type excepted:
\* what a walk over parents and tags can still climb.
Rank ==
    [t \in ScopeType |->
        CASE t = "WORLD" -> 0
          [] t \in {"PLANE", "CIV"} -> 1
          [] t \in {"REGION", "CITY", "IMPROVEMENT_GROUP", "JOB_GROUP"} -> 2
          [] t \in {"CELL", "IMPROVEMENT_CLASS", "JOB_CLASS"} -> 3
          [] t = "IMPROVEMENT" -> 4
          [] t = "JOB" -> 5]

GroupTypes == {"IMPROVEMENT_GROUP", "JOB_GROUP"}
ClassTypes == {"IMPROVEMENT_CLASS", "JOB_CLASS"}
\* Scopes named by the world's id counter.
NumberedTypes == {"CITY", "IMPROVEMENT", "JOB"}
=============================================================================
