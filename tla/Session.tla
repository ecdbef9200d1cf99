------------------------------- MODULE Session -------------------------------
(***************************************************************************)
(* The scopes of a game and who knows them.                                *)
(*                                                                         *)
(* A scope is an object with an id, a type, at most one parent and tag     *)
(* links to other scopes (core/scope).  Three parts of the program hold    *)
(* references to scopes:                                                   *)
(*   - the world and its civilizations and cells (core/terra, core/region): *)
(*     what they hold is what is saved;                                    *)
(*   - the session's registry (core/session): what it holds takes part in  *)
(*     turns and has its caches cleared;                                   *)
(*   - the caller, who gets new scopes back and must place and register    *)
(*     them.                                                               *)
(* The operations are the public calls of Session, Cell::AddImprovement    *)
(* and a save followed by a load into a new session.  Loading an older     *)
(* save leads where reloading led at that moment, so no snapshot is kept.  *)
(* A rejected call that changes nothing is not an action.                  *)
(***************************************************************************)
EXTENDS ScopeTypes, FiniteSets

CONSTANTS
    Civs,                  \* ids a civilization may have
    ImprovementClasses,    \* ids of improvement classes
    JobClasses,            \* ids of job classes
    Groups,                \* ids of groups, improvement and job groups alike
    Cells,                 \* the cells of the map
    Slots,                 \* improvement slots of a cell
    RuleSets,              \* rulesets that may be set, one after another
    MaxId,                 \* bound: how many ids the world gives out
    NoScope, NoRuleSet, NoCiv, NoName

Classes == ImprovementClasses \cup JobClasses

\* A ruleset as Session reads it: the type of each group, the groups each
\* group inherits from, and the groups of each class.
RuleSetType ==
    [type: [Groups -> GroupTypes], inherits: [Groups -> SUBSET Groups],
     groups: [Classes -> SUBSET Groups]]

\* Every reference names a group of the type it must have.
ValidReferences(r) ==
    /\ \A g \in Groups : \A h \in r.inherits[g] : r.type[h] = r.type[g]
    /\ \A k \in ImprovementClasses : \A g \in r.groups[k] : r.type[g] = "IMPROVEMENT_GROUP"
    /\ \A k \in JobClasses : \A g \in r.groups[k] : r.type[g] = "JOB_GROUP"

\* No cycle of groups: in any set of groups one inherits from none of them.
ValidGraph(r) ==
    \A S \in SUBSET Groups : S # {} => \E g \in S : r.inherits[g] \cap S = {}

ValidateGroups(r) == ValidReferences(r) /\ ValidGraph(r)

ASSUME RuleSetsAssumption ==
    /\ RuleSets \subseteq RuleSetType
    /\ \A r \in RuleSets : ValidateGroups(r)
ASSUME NamesAssumption ==
    /\ NoRuleSet \notin RuleSets
    /\ ImprovementClasses \cap JobClasses = {}
    /\ MaxId \in Nat

-----------------------------------------------------------------------------
(* Scopes.  An object is named by its type and the parts of its id.        *)

WorldScope  == <<"WORLD", NoCiv, NoName>>
PlaneScope  == <<"PLANE", NoCiv, NoName>>     \* one plane of one region
RegionScope == <<"REGION", NoCiv, NoName>>
CellScope(x) == <<"CELL", NoCiv, x>>
CivScope(c)  == <<"CIV", c, NoName>>
NumberedScope(t, n) == <<t, NoCiv, n>>
\* Fault: the id of a class does not name its civilization.
SharedClassScope(t, c, k) == <<t, CHOOSE d \in Civs : TRUE, k>>
ClassScope(t, c, k) == <<t, c, k>>
GroupScope(t, c, g) == <<t, c, g>>

MapScopes == {WorldScope, PlaneScope, RegionScope} \cup {CellScope(x) : x \in Cells}

Scopes ==
    MapScopes \cup {CivScope(c) : c \in Civs}
    \cup (NumberedTypes \X {NoCiv} \X (0 .. MaxId - 1))
    \cup ({"IMPROVEMENT_CLASS"} \X Civs \X ImprovementClasses)
    \cup ({"JOB_CLASS"} \X Civs \X JobClasses)
    \cup (GroupTypes \X Civs \X Groups)

ASSUME SentinelAssumption == NoScope \notin Scopes

TypeOf(s) == s[1]

\* The id of a scope.  The ids of the two types of groups share one form.
Id(s) == IF TypeOf(s) \in GroupTypes THEN <<"GROUP", s[2], s[3]>> ELSE s

\* s could not be kept beside what S holds under the same id.
Collides(s, S) == \E t \in S : t # s /\ Id(t) = Id(s)

MapParent(s) ==
    CASE TypeOf(s) = "WORLD"  -> NoScope
      [] TypeOf(s) = "PLANE"  -> WorldScope
      [] TypeOf(s) = "REGION" -> PlaneScope
      [] TypeOf(s) = "CELL"   -> RegionScope

VARIABLES
    live,           \* scope objects somebody holds
    parent,         \* parent_ of each
    tags,           \* tag_scopes_ of each
    nextId,         \* the world's ControlObject
    civs,           \* World::civilizations_
    childByType,    \* Civilization::child_scopes_ of each civilization
    children,       \* Civilization::all_child_scopes_
    improvements,   \* Cell::improvements_
    worldSet,       \* the session has the world
    ruleset,        \* the session's ruleset
    registered      \* Session::scopes_by_id_ and scopes_by_type_

world == <<civs, childByType, children, improvements>>
session == <<worldSet, ruleset, registered>>
vars == <<live, parent, tags, nextId, world, session>>

TypeOK ==
    /\ live \subseteq Scopes
    /\ parent \in [live -> Scopes \cup {NoScope}]
    /\ tags \in [live -> SUBSET Scopes]
    /\ nextId \in 0 .. MaxId
    /\ civs \subseteq Civs
    /\ childByType \in [Civs -> SUBSET Scopes]
    /\ children \in [Civs -> SUBSET Scopes]
    /\ improvements \in [Cells \X Slots -> Scopes \cup {NoScope}]
    /\ worldSet \in BOOLEAN
    /\ ruleset \in RuleSets \cup {NoRuleSet}
    /\ registered \subseteq live

\* A world with its map and, perhaps, some civilizations; a session with nothing.
Init ==
    /\ civs \in SUBSET Civs
    /\ live = MapScopes \cup {CivScope(c) : c \in civs}
    /\ parent = [s \in live |-> IF s \in MapScopes THEN MapParent(s) ELSE WorldScope]
    /\ tags = [s \in live |-> {}]
    /\ nextId = 0
    /\ childByType = [c \in Civs |-> {}]
    /\ children = [c \in Civs |-> {}]
    /\ improvements = [p \in Cells \X Slots |-> NoScope]
    /\ worldSet = FALSE
    /\ ruleset = NoRuleSet
    /\ registered = {}

\* The objects in new come to life with these parents and tags.
NewScopes(new, ParentOf(_), TagsOf(_)) ==
    /\ live' = live \cup new
    /\ parent' = [s \in live \cup new |-> IF s \in new THEN ParentOf(s) ELSE parent[s]]
    /\ tags' = [s \in live \cup new |-> IF s \in new THEN TagsOf(s) ELSE tags[s]]

\* What World::VisitScopes reaches.
VisitScopes ==
    MapScopes \cup {CivScope(c) : c \in civs}
    \cup (UNION {children[c] : c \in civs})
    \cup {improvements[p] : p \in {q \in Cells \X Slots : improvements[q] # NoScope}}

-----------------------------------------------------------------------------
(* The session gets its world and its ruleset.                             *)

SetWorld ==
    /\ ~worldSet
    /\ worldSet' = TRUE
    /\ registered' = registered \cup {s \in VisitScopes : ~Collides(s, registered)}
    /\ UNCHANGED <<live, parent, tags, nextId, world, ruleset>>

SetRuleSet(r) ==
    /\ ruleset' = r
    /\ UNCHANGED <<live, parent, tags, nextId, world, worldSet, registered>>

\* Fault: the city is not promoted into its civilization.
AddScopeOnly(s) ==
    /\ s \in live \ registered
    /\ registered' = registered \cup {s}
    /\ UNCHANGED <<live, parent, tags, nextId, world, worldSet, ruleset>>

\* Registers a scope; a city also becomes a child of its civilization.
AddScope(s) ==
    /\ s \in live \ registered
    /\ ~Collides(s, registered)
    /\ IF worldSet /\ TypeOf(s) = "CITY" /\ parent[s] \in {CivScope(c) : c \in civs}
       THEN /\ ~Collides(s, children[parent[s][2]])
            /\ childByType' = [childByType EXCEPT ![parent[s][2]] = @ \cup {s}]
            /\ children' = [children EXCEPT ![parent[s][2]] = @ \cup {s}]
       ELSE UNCHANGED <<childByType, children>>
    /\ registered' = registered \cup {s}
    /\ UNCHANGED <<live, parent, tags, nextId, civs, improvements, worldSet, ruleset>>

-----------------------------------------------------------------------------
(* Civilizations and cities.                                               *)

\* The id is nextId; MaxId bounds the model.
GetNextId ==
    /\ nextId < MaxId
    /\ nextId' = nextId + 1

CreateCivilizationScope(c) ==
    /\ worldSet
    /\ c \notin civs
    /\ civs' = civs \cup {c}
    /\ NewScopes({CivScope(c)}, LAMBDA s : WorldScope, LAMBDA s : {})
    /\ UNCHANGED <<nextId, childByType, children, improvements, session>>

\* The id is taken before the civilization is looked up.
CreateCityScope(c) ==
    /\ worldSet
    /\ GetNextId
    /\ IF c \in civs
       THEN NewScopes({NumberedScope("CITY", nextId)}, LAMBDA s : CivScope(c), LAMBDA s : {})
       ELSE UNCHANGED <<live, parent, tags>>
    /\ UNCHANGED <<world, session>>

-----------------------------------------------------------------------------
(* Class and group scopes, created for a civilization when first needed.   *)

GroupTypeOf(classType) ==
    IF classType = "IMPROVEMENT_CLASS" THEN "IMPROVEMENT_GROUP" ELSE "JOB_GROUP"

HasChildScope(c, s) == s \in childByType[c]

ExistingGroups(c, t) == {g \in Groups : HasChildScope(c, GroupScope(t, c, g))}

\* Fault: what a missing group inherits from is not created.
DirectGroups(c, t, roots) == roots \ ExistingGroups(c, t)

\* The groups of type t that linking to roots has to create: an existing group
\* is taken as it is, a missing one needs all it inherits from.
MissingGroups(c, t, roots) ==
    LET Missing == Groups \ ExistingGroups(c, t)
        Closed(S) == /\ roots \cap Missing \subseteq S
                     /\ \A g \in S : ruleset.inherits[g] \cap Missing \subseteq S
    IN  {g \in Missing : \A S \in SUBSET Missing : Closed(S) => g \in S}

\* The tags of a class or group scope that is created under the current ruleset.
LinksOf(s) ==
    IF TypeOf(s) \in ClassTypes
    THEN {GroupScope(GroupTypeOf(TypeOf(s)), s[2], g) : g \in ruleset.groups[s[3]]}
    ELSE {GroupScope(TypeOf(s), s[2], g) : g \in ruleset.inherits[s[3]]}

\* Fault: lazily created scopes are not registered.
AddUnregisteredChildScopes(c, new) ==
    /\ childByType' = [childByType EXCEPT ![c] = @ \cup new]
    /\ children' = [children EXCEPT ![c] = @ \cup new]
    /\ UNCHANGED registered

\* The scopes in new become children of civilization c and are registered.
AddChildScopes(c, new) ==
    /\ childByType' = [childByType EXCEPT ![c] = @ \cup new]
    /\ children' = [children EXCEPT ![c] = @ \cup new]
    /\ registered' = registered \cup new

\* The class scope s is created with every group it needs; result, with the
\* tags resultTags, is the orphan the caller asked for.
CreateClassAnd(c, s, result, resultTags) ==
    LET t == GroupTypeOf(TypeOf(s))
        groups == {GroupScope(t, c, g) : g \in MissingGroups(c, t, ruleset.groups[s[3]])}
        new == groups \cup {s}
    IN  /\ ruleset # NoRuleSet
        /\ \A n \in new : ~Collides(n, children[c] \cup registered)
        /\ AddChildScopes(c, new)
        /\ NewScopes(new \cup {result},
                     LAMBDA n : IF n = result THEN NoScope ELSE CivScope(c),
                     LAMBDA n : IF n = result THEN resultTags ELSE LinksOf(n))

\* Group g cannot be added: Civilization::AddChildScope has put it in the map of
\* its type when it meets another scope with its id.  The groups in done were
\* completed before (any part of the missing ones closed under inheritance: the
\* order of a group's list is not modelled), the class is dropped.
FailToCreateClass(c, s) ==
    LET t == GroupTypeOf(TypeOf(s))
        missing == MissingGroups(c, t, ruleset.groups[s[3]])
    IN  /\ ruleset # NoRuleSet
        /\ \E g \in missing : \E done \in SUBSET (missing \ {g}) :
            LET completed == {GroupScope(t, c, d) : d \in done}
                failed == GroupScope(t, c, g)
            IN  /\ \A d \in done \cup {g} : ruleset.inherits[d] \subseteq done \cup ExistingGroups(c, t)
                /\ \A d \in completed : ~Collides(d, children[c] \cup registered)
                /\ Collides(failed, children[c])
                /\ childByType' = [childByType EXCEPT ![c] = @ \cup completed \cup {failed}]
                /\ children' = [children EXCEPT ![c] = @ \cup completed]
                /\ registered' = registered \cup completed
                /\ NewScopes(completed \cup {failed}, LAMBDA n : CivScope(c), LAMBDA n : LinksOf(n))

-----------------------------------------------------------------------------
(* Improvements and jobs.                                                  *)

CityOfCivilization(city) ==
    /\ city \in registered
    /\ TypeOf(city) = "CITY"
    /\ parent[city] \in {CivScope(c) : c \in civs}

\* The civilization's class scope exists and is linked to.
CreateImprovementOfKnownClass(city, k) ==
    LET c == parent[city][2]
        class == ClassScope("IMPROVEMENT_CLASS", c, k)
    IN  /\ HasChildScope(c, class)
        /\ NewScopes({NumberedScope("IMPROVEMENT", nextId)},
                     LAMBDA n : NoScope, LAMBDA n : {city, class})
        /\ UNCHANGED <<world, session>>

\* It does not, and is created together with its groups.
CreateImprovementOfNewClass(city, k) ==
    LET c == parent[city][2]
        class == ClassScope("IMPROVEMENT_CLASS", c, k)
    IN  /\ ~HasChildScope(c, class)
        /\ CreateClassAnd(c, class, NumberedScope("IMPROVEMENT", nextId), {city, class})
        /\ UNCHANGED <<civs, improvements, worldSet, ruleset>>

FailToCreateImprovementClass(city, k) ==
    LET c == parent[city][2]
        class == ClassScope("IMPROVEMENT_CLASS", c, k)
    IN  /\ ~HasChildScope(c, class)
        /\ FailToCreateClass(c, class)
        /\ UNCHANGED <<civs, improvements, worldSet, ruleset>>

FailForLackOfRuleSet(city, k) ==
    /\ ruleset = NoRuleSet
    /\ ~HasChildScope(parent[city][2], ClassScope("IMPROVEMENT_CLASS", parent[city][2], k))
    /\ UNCHANGED <<live, parent, tags, world, session>>

\* The id is taken before the class is looked up, and lost when that fails.
CreateImprovementScope(city, k) ==
    /\ worldSet
    /\ CityOfCivilization(city)
    /\ GetNextId
    /\ \/ CreateImprovementOfKnownClass(city, k)
       \/ CreateImprovementOfNewClass(city, k)
       \/ FailToCreateImprovementClass(city, k)
       \/ FailForLackOfRuleSet(city, k)

CreateJobOfKnownClass(c, k) ==
    LET class == ClassScope("JOB_CLASS", c, k)
    IN  /\ HasChildScope(c, class)
        /\ GetNextId
        /\ NewScopes({NumberedScope("JOB", nextId)}, LAMBDA n : NoScope, LAMBDA n : {class})
        /\ UNCHANGED <<world, session>>

CreateJobOfNewClass(c, k) ==
    LET class == ClassScope("JOB_CLASS", c, k)
    IN  /\ ~HasChildScope(c, class)
        /\ GetNextId
        /\ CreateClassAnd(c, class, NumberedScope("JOB", nextId), {class})
        /\ UNCHANGED <<civs, improvements, worldSet, ruleset>>

\* Here the class comes first, and a failure costs no id.
FailToCreateJobClass(c, k) ==
    LET class == ClassScope("JOB_CLASS", c, k)
    IN  /\ ~HasChildScope(c, class)
        /\ FailToCreateClass(c, class)
        /\ UNCHANGED <<nextId, civs, improvements, worldSet, ruleset>>

CreateJobScope(c, k) ==
    /\ worldSet
    /\ c \in civs
    /\ \/ CreateJobOfKnownClass(c, k)
       \/ CreateJobOfNewClass(c, k)
       \/ FailToCreateJobClass(c, k)

\* Fault: the cell's other slots are not looked at.
SlotIsFree(x, slot, s) ==
    /\ parent[s] \in {NoScope, CellScope(x)}
    /\ improvements[<<x, slot>>] = NoScope

\* The improvement is an orphan or restored, the slot is free, and no other slot
\* of the cell has it.
CanPlace(x, slot, s) ==
    /\ parent[s] \in {NoScope, CellScope(x)}
    /\ improvements[<<x, slot>>] = NoScope
    /\ \A other \in Slots : improvements[<<x, other>>] # s

AddImprovement(x, slot, s) ==
    /\ s \in live
    /\ CanLinkScopes(TypeOf(s), "CELL")
    /\ CanPlace(x, slot, s)
    /\ parent' = [parent EXCEPT ![s] = CellScope(x)]
    /\ improvements' = [improvements EXCEPT ![<<x, slot>>] = s]
    /\ UNCHANGED <<live, tags, nextId, civs, childByType, children, session>>

-----------------------------------------------------------------------------
(* Saving and loading.                                                     *)

Referred(s) == tags[s] \cup (IF parent[s] = NoScope THEN {} ELSE {parent[s]})

\* In any set of scopes one refers to none of them: there is no cycle.  Only groups
\* can refer to their own type (ScopeTypes!Rank), so only they are looked at.
Acyclic(S) ==
    \A T \in SUBSET {s \in S : TypeOf(s) \in GroupTypes} :
        T # {} => \E s \in T : \A t \in Referred(s) : \A u \in T : Id(t) # Id(u)

\* TopologicallySortScopePtrs throws nothing: ids are unique, what a scope refers
\* to is there under its id, and there is no cycle.
Sortable(S) ==
    /\ \A s \in S : ~Collides(s, S)
    /\ \A s \in S : \A t \in Referred(s) : \E u \in S : Id(u) = Id(t)
    /\ Acyclic(S)

\* A saved reference is an id; loading finds the scope saved under it.
Resolve(t) == CHOOSE u \in VisitScopes : Id(u) = Id(t)

\* ParseFrom finds every reference to be of a type it may have.
Loadable ==
    \A s \in VisitScopes :
        /\ parent[s] # NoScope => CanLinkScopes(TypeOf(s), TypeOf(Resolve(parent[s])))
        /\ \A t \in tags[s] : CanTagLinkScopes(TypeOf(s), TypeOf(Resolve(t)))

\* Fault: the counter is not saved.
ForgottenNextId == 0

\* The counter is part of the saved world.
RestoredNextId == nextId

\* Fault: the session outlives the game it was for.
KeptRegistry == registered

\* A new session knows no scopes.
EmptyRegistry == {}

\* The world is saved and loaded, and a new session is started for it.  When
\* saving or loading throws, the game goes on with what it has.
Reload ==
    IF Sortable(VisitScopes) /\ Loadable
    THEN /\ live' = VisitScopes
         /\ parent' = [s \in VisitScopes |->
                         IF parent[s] = NoScope THEN NoScope ELSE Resolve(parent[s])]
         /\ tags' = [s \in VisitScopes |-> {Resolve(t) : t \in tags[s]}]
         /\ childByType' = [c \in Civs |-> IF c \in civs THEN children[c] ELSE {}]
         /\ worldSet' = FALSE
         /\ ruleset' = NoRuleSet
         /\ registered' = EmptyRegistry
         /\ nextId' = RestoredNextId
         /\ UNCHANGED <<civs, children, improvements>>
    ELSE UNCHANGED vars

-----------------------------------------------------------------------------
Next ==
    \/ SetWorld
    \/ \E r \in RuleSets : SetRuleSet(r)
    \/ worldSet /\ \E s \in live : AddScope(s)     \* callers get scopes once the world is set
    \/ \E c \in Civs : CreateCivilizationScope(c) \/ CreateCityScope(c)
    \/ \E city \in registered, k \in ImprovementClasses : CreateImprovementScope(city, k)
    \/ \E c \in Civs, k \in JobClasses : CreateJobScope(c, k)
    \/ \E x \in Cells, slot \in Slots, s \in live : AddImprovement(x, slot, s)
    \/ Reload

Spec == Init /\ [][Next]_vars

-----------------------------------------------------------------------------
(* What makes the bookkeeping right.                                       *)

\* Rulesets that replace one another agree on the type of every group.  The
\* code relies on it and does not check it.
StableGroupTypes == \A r, q \in RuleSets : r.type = q.type

\* A numbered scope carries an id the counter has already given out, so that
\* no id is given out twice, reloads included (Session::Create*Scope).
FreshIds == \A s \in live : TypeOf(s) \in NumberedTypes => s[3] < nextId

\* In a session with a world, a registered scope's references are registered as
\* well: its classes and groups take part in turns and have their caches cleared.
\* A civilization created through the session is the exception (see README).
RegistryClosed ==
    worldSet => \A s \in registered : \A t \in Referred(s) :
                    t \in registered \/ TypeOf(t) = "CIV"

\* Whatever sequence of calls, failed ones included, came before: the world can be
\* saved and what was saved can be loaded (World SerializeTo and ParseFrom).
SaveLoads == Sortable(VisitScopes) /\ Loadable

\* Saving alone succeeds even when rulesets disagree on the type of a group.
SaveSucceeds == Sortable(VisitScopes)

\* An improvement is tagged with one city and one class, and the city belongs to
\* the civilization the class belongs to (Session::CreateImprovementScope).
OwnerMatchesClass ==
    \A s \in live : TypeOf(s) = "IMPROVEMENT" =>
        \E city, class \in live :
            /\ tags[s] = {city, class}
            /\ TypeOf(city) = "CITY" /\ TypeOf(class) = "IMPROVEMENT_CLASS"
            /\ parent[city] = CivScope(class[2])
            /\ parent[class] = parent[city]

\* A registered city is held by its civilization, or it would vanish with the
\* next save although turns reached it (Session::AddScope).
CitiesHeld ==
    \A s \in registered : TypeOf(s) = "CITY" /\ worldSet => s \in children[parent[s][2]]

\* An improvement is in exactly the one cell that is its parent (Cell::AddImprovement).
PlacedOnce ==
    \A s \in live : TypeOf(s) = "IMPROVEMENT" =>
        LET places == {p \in Cells \X Slots : improvements[p] = s}
        IN  /\ \A p \in places : parent[s] = CellScope(p[1])
            /\ Cardinality(places) = IF parent[s] = NoScope THEN 0 ELSE 1

\* Creating a civilization registers it.
CivilizationsRegistered == worldSet => \A c \in civs : CivScope(c) \in registered

=============================================================================
