--------------------------- MODULE MCEffectExecutor ---------------------------
(***************************************************************************)
(* A small world for EffectExecutor: a cell and a farm that is built on it, *)
(* a civilization, and rulesets with an effect of the farm's class, effects *)
(* of the turn and an effect that depends on what another one changes.     *)
(***************************************************************************)
EXTENDS EffectExecutor

MCScopes == {"world", "cell", "civ", "farm"}
MCMapScopes == {"world", "cell"}
MCCivs == {"civ"}
MCReach ==
    [world |-> {"world"}, cell |-> {"world", "cell"}, civ |-> {"world", "civ"},
     farm |-> {"world", "cell", "farm"}]

MCVariables == {"turn", "class", "heat", "food"}
MCEffects == {"warm", "grow", "cook", "tax"}

MCTargets == [warm |-> {"cell"}, grow |-> {"farm"}, cook |-> {"farm"}, tax |-> {"civ"}]
MCDeps == [warm |-> {"turn"}, grow |-> {"class"}, cook |-> {"heat"}, tax |-> {"turn"}]
MCReads == [warm |-> {"heat"}, grow |-> {}, cook |-> {"heat"}, tax |-> {}]
MCWrites == [warm |-> {"heat"}, grow |-> {"food"}, cook |-> {"food"}, tax |-> {"food"}]

RECURSIVE SumOf(_, _)
SumOf(f, S) == IF S = {} THEN 0 ELSE LET x == CHOOSE x \in S : TRUE IN f[x] + SumOf(f, S \ {x})

\* The value of variable v in a view: the sum of its modifiers.
ValueIn(view, v) ==
    LET ps == {p \in DOMAIN view : p[2] = v}
    IN  SumOf([x \in ps \X Keys |-> view[x[1]][x[2]]], ps \X Keys)

MCPossible(e, view) ==
    e = "warm" => ValueIn(view, "heat") < 2

MCScript(e, view) ==
    CASE e = "warm" -> [heat |-> [kind |-> "change", amount |-> 1]]
      [] e = "grow" -> [food |-> [kind |-> "set", amount |-> 1]]
      [] e = "cook" -> IF ValueIn(view, "heat") = 1
                       THEN [food |-> [kind |-> "set", amount |-> 2]]
                       ELSE <<>>
      [] e = "tax" -> [food |-> [kind |-> "set", amount |-> -1]]

MCGiven == {<<"cell", "heat">>, <<"civ", "food">>}

\* No effect of either reads what another one changes; cook depends on what warm
\* changed while the other ruleset was in force.
MCIndependent == {{"warm", "grow", "tax"}, {"grow", "cook"}}

ASSUME \A r \in MCIndependent : Independent(r)
=============================================================================
