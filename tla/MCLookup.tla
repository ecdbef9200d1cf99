------------------------------- MODULE MCLookup -------------------------------
(***************************************************************************)
(* A class of improvements, a group it inherits from, and the civilization *)
(* both belong to, which the class therefore reaches twice.  A numeric     *)
(* variable and one of strings have two parameters each.                   *)
(***************************************************************************)
EXTENDS Lookup

CONSTANTS Class, Group, Civ, Number, Label, a, b

MCScopes == {Class, Group, Civ}
MCLinks == (Class :> <<Civ, Group>>) @@ (Group :> <<Civ>>) @@ (Civ :> <<>>)
MCVariables == {<<Number, a, a>>, <<Label, a, a>>, <<Label, b, a>>}
MCQueries ==
    {<<n, Wildcard, x>> : n \in {Number, Label}, x \in {a, Wildcard}}
        \cup {<<Label, a, Wildcard>>}

\* Two keys for a string in the group, and a second one of the name there only; numbers
\* add up whatever their keys are, and the group has none.
MCWritable ==
    {p \in Scopes \X AllVariables \X {1, 2} :
        /\ IsNumeric(p[2]) => p[1] # Group
        /\ p[2][2] = b => p[1] = Group
        /\ p[3] = 2 => p[1] = Group /\ ~IsNumeric(p[2]) /\ p[2][2] # b}

MCAdds == {0, 2}
MCMults == {-1, 0}
MCMinimum == -1
MCLevels == {-1, 0, 1}

\* Strings are only compared for equality.
MCSymmetry == Permutations(Values)
=============================================================================
