-------------------------------- MODULE Turns --------------------------------
(***************************************************************************)
(* What the turns of a game promise.                                       *)
(*                                                                         *)
(* A scope has variables; a variable has modifiers, one per key, and the   *)
(* turn in which one of them was last set (core/variables).  A scope sees  *)
(* the variables of all scopes it reaches through parents and tags.  An    *)
(* effect of the ruleset runs a script for scopes of a type.  A turn runs  *)
(* the effects of which a dependency was modified in the turn, and then    *)
(* begins the next turn.                                                   *)
(*                                                                         *)
(* Here all effects of a turn see the state the turn found and change it   *)
(* at once; EffectExecutor has them one after another, as the code does.   *)
(* What a script computes and which values a predicate accepts are         *)
(* parameters.                                                             *)
(***************************************************************************)
EXTENDS Integers

CONSTANTS
    Scopes, World,          \* scopes that may exist; the scope of the world
    MapScopes, Civs,        \* those of the map, and those of civilizations
    Reach,                  \* what each scope reaches, itself included
    Variables,
    CoreTurn, CoreClass,    \* the two variables the session writes itself
    Effects, RuleSets,      \* a ruleset is a set of effects
    Session,                \* the key of modifiers no effect has set
    Targets,                \* scopes of the effect's type, and of the id its selector names
    Deps,                   \* variables that wake the effect
    Reads, Writes,          \* variables its scripts read and modify
    Possible(_, _),         \* class selector and predicate, given what the scope sees
    Script(_, _),           \* the operation on each variable it modifies, given the same
    Given,                  \* bound: places map generation and debug tools modify
    Amounts,                \* bound: the values they, and classes, have
    MaxTurn,                \* bound: turns of a game
    NoRuleSet

Keys == Effects \cup {Session}
Places == Scopes \X Variables

ASSUME ScopesAssumption ==
    /\ World \in MapScopes /\ MapScopes \subseteq Scopes
    /\ Civs \subseteq Scopes \ MapScopes
    /\ Reach \in [Scopes -> SUBSET Scopes]
    /\ \A s \in Scopes : s \in Reach[s]
    /\ Reach[World] = {World}
ASSUME EffectsAssumption ==
    /\ RuleSets \subseteq SUBSET Effects /\ NoRuleSet \notin RuleSets
    /\ Session \notin Effects
    /\ {CoreTurn, CoreClass} \subseteq Variables /\ CoreTurn # CoreClass
    /\ Targets \in [Effects -> SUBSET Scopes]
    /\ Deps \in [Effects -> SUBSET Variables]
    /\ Reads \in [Effects -> SUBSET Variables]
    /\ Writes \in [Effects -> SUBSET (Variables \ {CoreTurn, CoreClass})]
ASSUME NumbersAssumption ==
    /\ MaxTurn \in Nat /\ Amounts \subseteq Int
    /\ Given \subseteq Scopes \X (Variables \ {CoreTurn, CoreClass})

VARIABLES
    mods,           \* modifiers, by place and key; no modifier counts as 0
    stamp,          \* modification_time_ of each variable
    present,        \* scopes that exist
    registered,     \* scopes the session knows
    worldSet, ruleset,
    turn            \* current_turn_

data == <<mods, stamp>>
scopes == <<present, registered>>
vars == <<mods, stamp, present, registered, worldSet, ruleset, turn>>

Ready == worldSet /\ ruleset # NoRuleSet

TypeOK ==
    /\ mods \in [Places -> [Keys -> Int]]
    /\ stamp \in [Places -> 0 .. MaxTurn]
    /\ MapScopes \subseteq present /\ present \subseteq Scopes
    /\ registered \subseteq present
    /\ worldSet \in BOOLEAN
    /\ ruleset \in RuleSets \cup {NoRuleSet}
    /\ turn \in 0 .. MaxTurn

\* A new world: map generation leaves its modifiers without a time.
Init ==
    /\ mods = [p \in Places |-> [k \in Keys |-> 0]]
    /\ stamp = [p \in Places |-> 0]
    /\ present = MapScopes
    /\ registered = {}
    /\ worldSet = FALSE
    /\ ruleset = NoRuleSet
    /\ turn = 0

-----------------------------------------------------------------------------
(* Variables.                                                              *)

\* UpdateModificationTime: no time is 0, and time does not go back.
Stamped(old, time) == IF time # 0 /\ time >= old THEN time ELSE old

\* The modifier of key k at place p is set, at the given time.
SetModifier(m, p, k, amount) == [m EXCEPT ![p][k] = amount]

\* What an effect's scripts see from scope s when the modifiers are m.
View(e, s, m) == [p \in Reach[s] \X Reads[e] |-> m[p]]

\* Fault: also what was modified in the turn before counts.
RecentOrLast(e, s, st, t) ==
    \E p \in Reach[s] \X Deps[e] : st[p] >= t - 1

\* Fault: what was modified in the turn itself does not count.
RecentOnlyLater(e, s, st, t) ==
    \E p \in Reach[s] \X Deps[e] : st[p] > t

\* A dependency of e, seen from s, was modified no earlier than turn t.
Recent(e, s, st, t) ==
    \E p \in Reach[s] \X Deps[e] : st[p] >= t

\* The effects a turn runs, each with the scope it runs for.
Due ==
    {x \in ruleset \X registered :
        /\ x[2] \in Targets[x[1]]
        /\ Recent(x[1], x[2], stamp, turn)
        /\ Possible(x[1], View(x[1], x[2], mods))}

\* The value operation op gives a modifier that was old.
Applied(op, old) == IF op.kind = "change" THEN old + op.amount ELSE op.amount

\* The places e modifies when it runs for s and sees view: none if its script fails.
Modifies(e, s, view) == {s} \X DOMAIN Script(e, view)

\* The modifiers m after that.
AfterScript(e, s, view, m) ==
    [p \in Places |->
        IF p \in Modifies(e, s, view)
        THEN [m[p] EXCEPT ![e] = Applied(Script(e, view)[p[2]], @)]
        ELSE m[p]]

\* The times st after the places in P were modified in this turn.
StampsAfter(P, st) == [p \in Places |-> IF p \in P THEN Stamped(st[p], turn) ELSE st[p]]

-----------------------------------------------------------------------------
(* The session between turns.                                              *)

\* The turn counter is also a modifier of the world.
SetCurrentTurn(value, m, st) ==
    /\ turn' = value
    /\ mods' = SetModifier(m, <<World, CoreTurn>>, Session, value)
    /\ stamp' = [st EXCEPT ![<<World, CoreTurn>>] = Stamped(@, value)]

\* Fault: the counter is not read back from the world.
PrepareWithoutTurn == UNCHANGED <<turn, mods, stamp>>

\* The counter is read back from the world, once world and ruleset are set: the
\* session's is the only modifier it has, as no effect writes it.
Prepare ==
    IF worldSet' /\ ruleset' # NoRuleSet
    THEN SetCurrentTurn(mods[<<World, CoreTurn>>][Session], mods, stamp)
    ELSE UNCHANGED <<turn, mods, stamp>>

SetWorld ==
    /\ ~worldSet
    /\ worldSet' = TRUE
    /\ registered' = present
    /\ UNCHANGED <<present, ruleset>>
    /\ Prepare

SetRuleSet(r) ==
    /\ ruleset' = r
    /\ UNCHANGED <<present, registered, worldSet>>
    /\ Prepare

\* A civilization is created; the session does not register it.
CreateCivilization(c) ==
    /\ worldSet
    /\ c \in Civs \ present
    /\ present' = present \cup {c}
    /\ UNCHANGED <<mods, stamp, registered, worldSet, ruleset, turn>>

\* The scope is placed in the world and registered, by one call of the caller.
PlaceAndRegister(s) ==
    /\ present' = present \cup {s}
    /\ registered' = registered \cup {s}

\* A city, an improvement or a class is created: SetCoreClass gives it its class
\* in the current turn.
CreateScope(s, class) ==
    /\ worldSet
    /\ s \in Scopes \ (Civs \cup present)
    /\ Reach[s] \ {s} \subseteq present
    /\ PlaceAndRegister(s)
    /\ mods' = SetModifier(mods, <<s, CoreClass>>, Session, class)
    /\ stamp' = [stamp EXCEPT ![<<s, CoreClass>>] = Stamped(@, turn)]
    /\ UNCHANGED <<worldSet, ruleset, turn>>

\* Map generation and the debug tools modify variables and give no time.
AddModifier(p, amount) ==
    /\ p[1] \in present
    /\ mods' = SetModifier(mods, p, Session, amount)
    /\ UNCHANGED <<stamp, present, registered, worldSet, ruleset, turn>>

\* A new session, for the world as it was saved.
Reload ==
    /\ worldSet
    /\ registered' = {}
    /\ worldSet' = FALSE
    /\ ruleset' = NoRuleSet
    /\ turn' = 0
    /\ UNCHANGED <<mods, stamp, present>>

BetweenTurns ==
    \/ SetWorld
    \/ \E r \in RuleSets : SetRuleSet(r)
    \/ \E c \in Civs : CreateCivilization(c)
    \/ \E s \in Scopes, class \in Amounts : CreateScope(s, class)
    \/ \E p \in Given, amount \in Amounts : AddModifier(p, amount)
    \/ Reload

-----------------------------------------------------------------------------
(* A turn, all at once.                                                    *)

AdvanceNextTurn ==
    /\ Ready
    /\ turn < MaxTurn
    /\ SetCurrentTurn(
           turn + 1,
           [p \in Places |-> [k \in Keys |->
               IF <<k, p[1]>> \in Due
               THEN AfterScript(k, p[1], View(k, p[1], mods), mods)[p][k]
               ELSE mods[p][k]]],
           StampsAfter((UNION {Modifies(x[1], x[2], View(x[1], x[2], mods)) : x \in Due}), stamp))
    /\ UNCHANGED <<present, registered, worldSet, ruleset>>

Next == BetweenTurns \/ AdvanceNextTurn

Spec == Init /\ [][Next]_vars

-----------------------------------------------------------------------------
(* What makes turns right.                                                 *)

\* No variable of the world was modified later than now: what >= compares to
\* the current turn can only be equal to it (EffectExecutor::Execute).
StampsFollowTurn == Ready => \A p \in Places : stamp[p] <= turn

\* The session's counter is the one the world carries, after any number of
\* saves, loads and changes of ruleset (Session::Prepare).
TurnCarried == Ready => turn = mods[<<World, CoreTurn>>][Session]

=============================================================================
