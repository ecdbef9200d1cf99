----------------------------- MODULE Definitions -----------------------------
(***************************************************************************)
(* Which variable definitions a scope works with (core/scope/scope.inl,    *)
(* core/session/session.inl).                                              *)
(*                                                                         *)
(* The session gives the definitions of its ruleset to the scope of the    *)
(* world.  Any other scope asks its parent when it first needs them and    *)
(* keeps the answer.  When the ruleset is replaced in a running game the   *)
(* session drops what the scopes it knows have kept.                       *)
(*                                                                         *)
(* Scopes are created as in Session, one at a time; that the ruleset names *)
(* the groups and classes they are made for plays no part here.            *)
(***************************************************************************)
EXTENDS Naturals

CONSTANTS
    Scopes,                     \* scopes that may exist
    World,                      \* the scope of the world
    MapScopes,                  \* those of the map, the world among them
    Civs, Cities, Improvements,
    Classes,                    \* scopes of classes and groups
    Above,                      \* of each scope: itself, its parent, the parent's parent ...
    RuleSets,                   \* a ruleset stands for its definitions
    NoRuleSet

ASSUME KindsAssumption ==
    /\ Scopes = MapScopes \cup Civs \cup Cities \cup Improvements \cup Classes
    /\ World \in MapScopes
    /\ (Civs \cup Cities \cup Improvements \cup Classes) \cap MapScopes = {}
    /\ (Cities \cup Improvements \cup Classes) \cap Civs = {}
    /\ (Improvements \cup Classes) \cap Cities = {}
    /\ Improvements \cap Classes = {}
    /\ NoRuleSet \notin RuleSets

\* Parents form a tree with the world at its root.
ASSUME TreeAssumption ==
    /\ Above \in [Scopes -> SUBSET Scopes]
    /\ \A s \in Scopes : {s, World} \subseteq Above[s]
    /\ \A s \in Scopes : \A t \in Above[s] :
          /\ Above[t] \subseteq Above[s]
          /\ s \in Above[t] => s = t
    /\ \A s \in Scopes : \A T \in SUBSET Above[s] :
          T # {} => \E a \in T : T \subseteq Above[a]
    /\ \A s \in MapScopes : Above[s] \subseteq MapScopes
    /\ \A s \in Civs : Above[s] \subseteq MapScopes \cup {s}
    /\ \A s \in Cities \cup Classes : Above[s] \subseteq MapScopes \cup Civs \cup {s}
    /\ \A s \in Improvements : Above[s] \subseteq MapScopes \cup {s}

VARIABLES
    live,           \* scopes somebody holds
    orphans,        \* those that have no parent yet
    registered,     \* scopes the session knows
    cached,         \* cached_definitions_ of each scope, NoRuleSet when there are none
    worldSet, ruleset,
    missed          \* history: scopes the session did not know when the ruleset was last set

session == <<worldSet, ruleset>>
vars == <<live, orphans, registered, cached, session, missed>>

DefinitionsTypeOK ==
    /\ MapScopes \subseteq live /\ live \subseteq Scopes
    /\ orphans \subseteq live \cap Improvements
    /\ registered \subseteq live
    /\ cached \in [Scopes -> RuleSets \cup {NoRuleSet}]
    /\ worldSet \in BOOLEAN
    /\ ruleset \in RuleSets \cup {NoRuleSet}
    /\ missed \subseteq live

Init ==
    /\ live = MapScopes
    /\ orphans = {}
    /\ registered = {}
    /\ cached = [s \in Scopes |-> NoRuleSet]
    /\ worldSet = FALSE
    /\ ruleset = NoRuleSet
    /\ missed = {}

\* The scopes a walk over parents meets.
Chain(s) == IF s \in orphans THEN {s} ELSE Above[s]

-----------------------------------------------------------------------------
(* The cache.                                                              *)

\* Those of the chain that have definitions.
Holders(s) == {a \in Chain(s) : cached[a] # NoRuleSet}

\* The one the walk stops at, if there is one: a set of at most one scope.
Nearest(s) == {a \in Holders(s) : Holders(s) \subseteq Above[a]}

\* Fault: the scopes above it keep the answer as well.
WholeChain(s) == IF Nearest(s) = {} THEN {} ELSE Chain(s)

\* The scopes the walk meets up to there.
Asking(s) == {t \in Chain(s) : Nearest(s) \cap Above[t] # {}}

\* What s would be given.
Effective(s) ==
    IF Nearest(s) = {} THEN NoRuleSet ELSE cached[CHOOSE a \in Nearest(s) : TRUE]

\* Any use of a variable: the scopes that had to ask keep the answer.
GetVariableDefinitions(s) ==
    /\ cached' = [t \in Scopes |-> IF t \in Asking(s) THEN Effective(s) ELSE cached[t]]
    /\ UNCHANGED <<live, orphans, registered, session, missed>>

\* Fault: what scopes have kept is not dropped.
PrepareWorldOnly ==
    IF worldSet' /\ ruleset' # NoRuleSet
    THEN /\ cached' = [cached EXCEPT ![World] = ruleset']
         /\ missed' = live \ registered'
    ELSE UNCHANGED <<cached, missed>>

\* Once there are both: known scopes forget, the world's scope gets the new ones.
Prepare ==
    IF worldSet' /\ ruleset' # NoRuleSet
    THEN /\ cached' = [s \in Scopes |->
                IF s = World THEN ruleset'
                ELSE IF s \in registered' THEN NoRuleSet ELSE cached[s]]
         /\ missed' = live \ registered'
    ELSE UNCHANGED <<cached, missed>>

-----------------------------------------------------------------------------
(* The session.                                                            *)

\* What the world visits: all that is not in the hands of a caller alone.
Held == live \ (orphans \cup (Cities \ registered))

SetWorld ==
    /\ ~worldSet
    /\ worldSet' = TRUE
    /\ registered' = live
    /\ UNCHANGED <<live, orphans, ruleset>>
    /\ Prepare

SetRuleSet(r) ==
    /\ ruleset' = r
    /\ UNCHANGED <<live, orphans, registered, worldSet>>
    /\ Prepare

\* A civilization or a city: known to its caller only.
CreateScope(s) ==
    /\ worldSet
    /\ s \in (Civs \cup Cities) \ live
    /\ Above[s] \ {s} \subseteq live
    /\ live' = live \cup {s}
    /\ UNCHANGED <<orphans, registered, cached, session, missed>>

\* An improvement: its parent comes with its place.
CreateImprovement(s) ==
    /\ worldSet
    /\ s \in Improvements \ live
    /\ live' = live \cup {s}
    /\ orphans' = orphans \cup {s}
    /\ UNCHANGED <<registered, cached, session, missed>>

\* A class or a group is registered by the call that creates it.
CreateClass(s) ==
    /\ worldSet /\ ruleset # NoRuleSet
    /\ s \in Classes \ live
    /\ Above[s] \ {s} \subseteq live
    /\ live' = live \cup {s}
    /\ registered' = registered \cup {s}
    /\ UNCHANGED <<orphans, cached, session, missed>>

AddImprovement(s) ==
    /\ s \in orphans
    /\ orphans' = orphans \ {s}
    /\ UNCHANGED <<live, registered, cached, session, missed>>

AddScope(s) ==
    /\ worldSet
    /\ s \in live \ registered
    /\ registered' = registered \cup {s}
    /\ UNCHANGED <<live, orphans, cached, session, missed>>

\* The world is saved and loaded: new objects, a new session.
Reload ==
    /\ worldSet
    /\ live' = Held
    /\ orphans' = {}
    /\ registered' = {}
    /\ cached' = [s \in Scopes |-> NoRuleSet]
    /\ worldSet' = FALSE
    /\ ruleset' = NoRuleSet
    /\ missed' = {}

ReadDefinitions == \E s \in live : GetVariableDefinitions(s)

Next ==
    \/ ReadDefinitions
    \/ SetWorld
    \/ \E r \in RuleSets : SetRuleSet(r)
    \/ \E s \in Scopes :
          \/ CreateScope(s) \/ CreateImprovement(s) \/ CreateClass(s)
          \/ AddImprovement(s)
          \/ AddScope(s)
    \/ Reload

Spec == Init /\ [][Next]_vars

-----------------------------------------------------------------------------
(* What makes the cache right.                                             *)

\* A scope works with other definitions than the ruleset's only if it, or a scope it
\* asks, was unknown to the session when the ruleset was set (Session::Prepare).
StaleOnlyIfMissed ==
    worldSet /\ ruleset # NoRuleSet =>
        \A s \in live \ orphans : Effective(s) # ruleset => Above[s] \cap missed # {}

\* To read definitions changes nobody's: what a scope has kept is what its parent
\* would answer, current or not (Scope::GetVariableDefinitions).
ReadingIsTransparent ==
    [][ReadDefinitions => \A s \in live : Effective(s)' = Effective(s)]_vars

=============================================================================
