---------------------------- MODULE SessionProofs ----------------------------
(***************************************************************************)
(* What holds of Session for every value of its constants, whatever         *)
(* rulesets are set: types, fresh ids, and who owns what.  Saving a game    *)
(* never fails, whatever calls failed before; and what was saved can be     *)
(* loaded, provided the rulesets set one after another agree on the type of *)
(* every group.  With that, a session also knows what the scopes it knows   *)
(* refer to.                                                                *)
(***************************************************************************)
EXTENDS Session, FiniteSetTheorems, TLAPS

-----------------------------------------------------------------------------
(* Type correctness.  That what the session registers is alive needs that  *)
(* what the world holds is.                                                *)

Held ==
    /\ MapScopes \cup {CivScope(c) : c \in civs} \subseteq live
    /\ \A c \in Civs : childByType[c] \cup children[c] \subseteq live
    /\ \A c \in Civs \ civs : childByType[c] = {} /\ children[c] = {}
    /\ \A p \in Cells \X Slots : improvements[p] \in live \cup {NoScope}

TypeInv == TypeOK /\ Held

\* Every name the operations make up is the name of a scope.
LEMMA ScopeNames ==
    /\ MapScopes \subseteq Scopes
    /\ \A c \in Civs : CivScope(c) \in Scopes
    /\ \A t \in NumberedTypes, n \in 0 .. MaxId - 1 : NumberedScope(t, n) \in Scopes
    /\ \A c \in Civs, k \in ImprovementClasses : ClassScope("IMPROVEMENT_CLASS", c, k) \in Scopes
    /\ \A c \in Civs, k \in JobClasses : ClassScope("JOB_CLASS", c, k) \in Scopes
    /\ \A t \in GroupTypes, c \in Civs, g \in Groups : GroupScope(t, c, g) \in Scopes
  BY DEF Scopes, CivScope, NumberedScope, ClassScope, GroupScope

\* The names of what a map holds are names of scopes of the map.
LEMMA MapNames ==
    /\ WorldScope \in MapScopes /\ PlaneScope \in MapScopes /\ RegionScope \in MapScopes
    /\ \A x \in Cells : CellScope(x) \in MapScopes
  BY DEF MapScopes

\* The world visits only scopes that are alive.
LEMMA VisitedLive == TypeInv => VisitScopes \subseteq live
  BY DEF TypeInv, TypeOK, Held, VisitScopes

\* The counter stays within its bound.
LEMMA NextIdInRange ==
  ASSUME nextId \in 0 .. MaxId, GetNextId
  PROVE  nextId \in 0 .. MaxId - 1 /\ nextId' \in 0 .. MaxId
  BY NamesAssumption DEF GetNextId

\* The first state is well-typed.
LEMMA InitType == Init => TypeInv
<1> SUFFICES ASSUME Init PROVE TypeInv
  OBVIOUS
<1> USE ScopeNames, MapNames, NamesAssumption DEF Init
<1>1. live \subseteq Scopes
  OBVIOUS
<1>2. parent \in [live -> Scopes \cup {NoScope}]
  <2>1. \A s \in MapScopes : MapParent(s) \in Scopes \cup {NoScope}
    BY DEF MapScopes, MapParent, TypeOf, WorldScope, PlaneScope, RegionScope, CellScope
  <2> QED BY <2>1
<1>3. tags \in [live -> SUBSET Scopes] /\ registered \subseteq live
  OBVIOUS
<1>4. nextId \in 0 .. MaxId
  OBVIOUS
<1>5. /\ childByType \in [Civs -> SUBSET Scopes] /\ children \in [Civs -> SUBSET Scopes]
      /\ improvements \in [Cells \X Slots -> Scopes \cup {NoScope}]
  OBVIOUS
<1>6. Held
  BY DEF Held
<1> QED BY <1>1, <1>2, <1>3, <1>4, <1>5, <1>6 DEF TypeInv, TypeOK

\* The tags a new class or group scope is given are scopes.
LEMMA LinksAreScopes ==
  ASSUME ruleset \in RuleSets, NEW s,
         s \in ({"IMPROVEMENT_CLASS"} \X Civs \X ImprovementClasses)
               \cup ({"JOB_CLASS"} \X Civs \X JobClasses) \cup (GroupTypes \X Civs \X Groups)
  PROVE  LinksOf(s) \subseteq Scopes
<1>1. ruleset \in RuleSetType
  BY RuleSetsAssumption
<1>2. CASE TypeOf(s) \in ClassTypes
  <2>1. /\ s[2] \in Civs /\ s[3] \in Classes
        /\ GroupTypeOf(TypeOf(s)) \in GroupTypes
    BY <1>2 DEF TypeOf, GroupTypeOf, GroupTypes, ClassTypes, Classes
  <2>2. ruleset.groups[s[3]] \subseteq Groups
    BY <1>1, <2>1 DEF RuleSetType
  <2> QED BY <1>2, <2>1, <2>2, ScopeNames DEF LinksOf
<1>3. CASE TypeOf(s) \notin ClassTypes
  <2>1. /\ s[2] \in Civs /\ s[3] \in Groups /\ TypeOf(s) \in GroupTypes
    BY <1>3 DEF TypeOf, ClassTypes
  <2>2. ruleset.inherits[s[3]] \subseteq Groups
    BY <1>1, <2>1 DEF RuleSetType
  <2> QED BY <1>3, <2>1, <2>2, ScopeNames DEF LinksOf
<1> QED BY <1>2, <1>3

\* A class scope is created with its groups, or fails on the way: the types hold
\* after either.
LEMMA CreateClassType ==
  ASSUME TypeInv, NEW c \in civs, NEW s, NEW result \in Scopes, NEW resultTags \in SUBSET Scopes,
         s \in ({"IMPROVEMENT_CLASS"} \X {c} \X ImprovementClasses)
               \cup ({"JOB_CLASS"} \X {c} \X JobClasses),
         nextId' \in 0 .. MaxId,
         CreateClassAnd(c, s, result, resultTags) \/ FailToCreateClass(c, s),
         UNCHANGED <<civs, improvements, worldSet, ruleset>>
  PROVE  TypeInv'
<1> DEFINE t == GroupTypeOf(TypeOf(s))
           missing == MissingGroups(c, t, ruleset.groups[s[3]])
<1>1. c \in Civs /\ ruleset \in RuleSets
  BY NamesAssumption DEF TypeInv, TypeOK, CreateClassAnd, FailToCreateClass
<1>2. t \in GroupTypes /\ missing \subseteq Groups
  BY DEF GroupTypeOf, GroupTypes, MissingGroups
<1>3. s \in Scopes /\ LinksOf(s) \subseteq Scopes
  BY <1>1, LinksAreScopes DEF Scopes
<1>4. \A g \in missing : /\ GroupScope(t, c, g) \in Scopes
                         /\ LinksOf(GroupScope(t, c, g)) \subseteq Scopes
  <2> SUFFICES ASSUME NEW g \in missing
               PROVE  /\ GroupScope(t, c, g) \in Scopes
                      /\ LinksOf(GroupScope(t, c, g)) \subseteq Scopes
    OBVIOUS
  <2>1. GroupScope(t, c, g) \in GroupTypes \X Civs \X Groups
    BY <1>1, <1>2 DEF GroupScope
  <2> QED BY <1>1, <2>1, LinksAreScopes DEF Scopes
<1>5. CivScope(c) \in Scopes
  BY <1>1, ScopeNames
<1> HIDE DEF missing, t
<1>6. CASE CreateClassAnd(c, s, result, resultTags)
  <2> DEFINE groups == {GroupScope(t, c, g) : g \in missing}
             new == groups \cup {s}
  <2>1. new \subseteq Scopes /\ \A n \in new : LinksOf(n) \subseteq Scopes
    BY <1>3, <1>4
  <2>2. /\ AddChildScopes(c, new)
        /\ live' = live \cup (new \cup {result})
        /\ parent' = [n \in live \cup (new \cup {result}) |->
                        IF n \in new \cup {result}
                        THEN IF n = result THEN NoScope ELSE CivScope(c) ELSE parent[n]]
        /\ tags' = [n \in live \cup (new \cup {result}) |->
                        IF n \in new \cup {result}
                        THEN IF n = result THEN resultTags ELSE LinksOf(n) ELSE tags[n]]
    BY <1>6 DEF CreateClassAnd, NewScopes, missing, t
  <2> HIDE DEF new
  <2> QED BY <1>1, <1>5, <2>1, <2>2 DEF TypeInv, TypeOK, Held, AddChildScopes
<1>7. CASE FailToCreateClass(c, s)
  <2> PICK g \in missing, done \in SUBSET missing :
        LET completed == {GroupScope(t, c, d) : d \in done}
            failed == GroupScope(t, c, g)
        IN  /\ childByType' = [childByType EXCEPT ![c] = @ \cup completed \cup {failed}]
            /\ children' = [children EXCEPT ![c] = @ \cup completed]
            /\ registered' = registered \cup completed
            /\ live' = live \cup (completed \cup {failed})
            /\ parent' = [n \in live \cup (completed \cup {failed}) |->
                            IF n \in completed \cup {failed} THEN CivScope(c) ELSE parent[n]]
            /\ tags' = [n \in live \cup (completed \cup {failed}) |->
                            IF n \in completed \cup {failed} THEN LinksOf(n) ELSE tags[n]]
    BY ZenonT(30), <1>7 DEF FailToCreateClass, NewScopes, missing, t
  <2> DEFINE completed == {GroupScope(t, c, d) : d \in done}
             failed == GroupScope(t, c, g)
  <2>1. completed \cup {failed} \subseteq Scopes
        /\ \A n \in completed \cup {failed} : LinksOf(n) \subseteq Scopes
    BY <1>4
  <2> HIDE DEF completed, failed
  <2> QED BY <1>1, <1>5, <2>1 DEF TypeInv, TypeOK, Held, completed, failed
<1> QED BY <1>6, <1>7

\* Every step leaves the state well-typed.
LEMMA NextType == TypeInv /\ [Next]_vars => TypeInv'
<1> SUFFICES ASSUME TypeInv, [Next]_vars PROVE TypeInv'
  OBVIOUS
<1> USE DEF TypeInv, TypeOK, Held
<1>1. CASE SetWorld
  BY <1>1, VisitedLive DEF SetWorld, world
<1>2. ASSUME NEW r \in RuleSets, SetRuleSet(r) PROVE TypeInv'
  BY <1>2 DEF SetRuleSet, world
<1>3. ASSUME NEW s \in live, AddScope(s) PROVE TypeInv'
  <2>1. CASE parent[s] \in {CivScope(c) : c \in civs}
    <3>1. parent[s][2] \in civs
      BY <2>1 DEF CivScope
    <3> QED BY <1>3, <2>1, <3>1 DEF AddScope
  <2>2. CASE parent[s] \notin {CivScope(c) : c \in civs}
    BY <1>3, <2>2 DEF AddScope
  <2> QED BY <2>1, <2>2
<1>4. ASSUME NEW c \in Civs, CreateCivilizationScope(c) PROVE TypeInv'
  BY <1>4, ScopeNames, MapNames DEF CreateCivilizationScope, NewScopes, session
<1>5. ASSUME NEW c \in Civs, CreateCityScope(c) PROVE TypeInv'
  <2>1. nextId \in 0 .. MaxId - 1 /\ nextId' \in 0 .. MaxId
    BY <1>5, NextIdInRange DEF CreateCityScope
  <2>2. NumberedScope("CITY", nextId) \in Scopes /\ CivScope(c) \in Scopes
    BY <2>1, ScopeNames DEF NumberedTypes
  <2>3. CASE c \in civs
    <3> DEFINE city == NumberedScope("CITY", nextId)
    <3>1. /\ live' = live \cup {city}
          /\ parent' = [s \in live \cup {city} |-> IF s \in {city} THEN CivScope(c) ELSE parent[s]]
          /\ tags' = [s \in live \cup {city} |-> IF s \in {city} THEN {} ELSE tags[s]]
          /\ UNCHANGED <<civs, childByType, children, improvements, worldSet, ruleset, registered>>
      BY <1>5, <2>3 DEF CreateCityScope, NewScopes, session, world
    <3> HIDE DEF city
    <3>2. city \in Scopes
      BY <2>2 DEF city
    <3>3. TypeOK'
      BY <2>1, <2>2, <3>1, <3>2
    <3>4. Held'
      BY <3>1
    <3> QED BY <3>3, <3>4
  <2>4. CASE c \notin civs
    BY <1>5, <2>1, <2>4 DEF CreateCityScope, session, world
  <2> QED BY <2>3, <2>4
<1>6. ASSUME NEW city \in registered, NEW k \in ImprovementClasses, CreateImprovementScope(city, k)
      PROVE  TypeInv'
  <2>1. nextId \in 0 .. MaxId - 1 /\ nextId' \in 0 .. MaxId
    <3>1. GetNextId
      BY <1>6 DEF CreateImprovementScope
    <3> QED BY <3>1, NextIdInRange
  <2> DEFINE c == parent[city][2]
             class == ClassScope("IMPROVEMENT_CLASS", c, k)
             result == NumberedScope("IMPROVEMENT", nextId)
  <2>2. c \in civs /\ city \in Scopes /\ class \in Scopes /\ result \in Scopes
    <3>1. c \in civs
      BY <1>6 DEF CreateImprovementScope, CityOfCivilization, CivScope
    <3> QED BY <3>1, <2>1, ScopeNames DEF NumberedTypes
  <2>3. class \in {"IMPROVEMENT_CLASS"} \X {c} \X ImprovementClasses
    BY DEF ClassScope
  <2>4. \/ CreateImprovementOfKnownClass(city, k)
        \/ CreateImprovementOfNewClass(city, k)
        \/ FailToCreateImprovementClass(city, k)
        \/ FailForLackOfRuleSet(city, k)
    BY <1>6 DEF CreateImprovementScope
  <2>5. CASE CreateImprovementOfKnownClass(city, k)
    BY <2>1, <2>2, <2>5 DEF CreateImprovementOfKnownClass, NewScopes, session, world
  <2>6. CASE CreateImprovementOfNewClass(city, k) \/ FailToCreateImprovementClass(city, k)
    <3>1. \/ CreateClassAnd(c, class, result, {city, class}) \/ FailToCreateClass(c, class)
      BY <2>6 DEF CreateImprovementOfNewClass, FailToCreateImprovementClass
    <3>2. UNCHANGED <<civs, improvements, worldSet, ruleset>>
      BY <2>6 DEF CreateImprovementOfNewClass, FailToCreateImprovementClass
    <3> HIDE DEF TypeInv, c, class, result
    <3> QED BY <2>1, <2>2, <2>3, <3>1, <3>2, CreateClassType
  <2>7. CASE FailForLackOfRuleSet(city, k)
    BY <2>1, <2>7 DEF FailForLackOfRuleSet, session, world
  <2> QED BY <2>4, <2>5, <2>6, <2>7
<1>7. ASSUME NEW c \in Civs, NEW k \in JobClasses, CreateJobScope(c, k) PROVE TypeInv'
  <2> DEFINE class == ClassScope("JOB_CLASS", c, k)
             result == NumberedScope("JOB", nextId)
  <2>1. nextId' \in 0 .. MaxId
    <3>1. GetNextId \/ UNCHANGED nextId
      BY <1>7 DEF CreateJobScope, CreateJobOfKnownClass, CreateJobOfNewClass, FailToCreateJobClass
    <3> QED BY <3>1, NextIdInRange
  <2>2. class \in Scopes /\ class \in {"JOB_CLASS"} \X {c} \X JobClasses
    BY ScopeNames DEF ClassScope
  <2>3. GetNextId => result \in Scopes
    BY ScopeNames, NamesAssumption DEF GetNextId, NumberedTypes
  <2>4. CASE CreateJobOfKnownClass(c, k)
    BY <2>1, <2>2, <2>3, <2>4 DEF CreateJobOfKnownClass, NewScopes, session, world
  <2>5. CASE CreateJobOfNewClass(c, k)
    <3>1. CreateClassAnd(c, class, result, {class})
              /\ UNCHANGED <<civs, improvements, worldSet, ruleset>>
      BY <2>5 DEF CreateJobOfNewClass
    <3>2. c \in civs /\ result \in Scopes
      BY <1>7, <2>3, <2>5 DEF CreateJobScope, CreateJobOfNewClass
    <3> HIDE DEF TypeInv, class, result
    <3> QED BY <2>1, <2>2, <3>1, <3>2, CreateClassType
  <2>6. CASE FailToCreateJobClass(c, k)
    <3>1. FailToCreateClass(c, class) /\ UNCHANGED <<civs, improvements, worldSet, ruleset>>
      BY <2>6 DEF FailToCreateJobClass
    <3>2. c \in civs
      BY <1>7 DEF CreateJobScope
    <3> HIDE DEF TypeInv, class
    <3> QED BY <2>1, <2>2, <3>1, <3>2, CreateClassType
  <2> QED BY <1>7, <2>4, <2>5, <2>6 DEF CreateJobScope
<1>8. ASSUME NEW x \in Cells, NEW slot \in Slots, NEW s \in live, AddImprovement(x, slot, s)
      PROVE  TypeInv'
  BY <1>8, MapNames DEF AddImprovement, session
<1>9. CASE Reload
  <2>1. CASE Sortable(VisitScopes) /\ Loadable
    <3>1. VisitScopes \subseteq live
      BY VisitedLive
    <3>2. \A s \in VisitScopes : \A t \in Referred(s) : Resolve(t) \in VisitScopes
      BY <2>1 DEF Sortable, Resolve
    <3>3. \A s \in VisitScopes : parent[s] # NoScope => Resolve(parent[s]) \in VisitScopes
      BY <3>1, <3>2 DEF Referred
    <3>4. \A s \in VisitScopes : \A t \in tags[s] : Resolve(t) \in VisitScopes
      BY <3>1, <3>2 DEF Referred
    <3>5. /\ live' = VisitScopes
          /\ parent' = [s \in VisitScopes |->
                          IF parent[s] = NoScope THEN NoScope ELSE Resolve(parent[s])]
          /\ tags' = [s \in VisitScopes |-> {Resolve(t) : t \in tags[s]}]
          /\ childByType' = [c \in Civs |-> IF c \in civs THEN children[c] ELSE {}]
          /\ worldSet' = FALSE /\ ruleset' = NoRuleSet /\ registered' = {}
          /\ nextId' = nextId
          /\ UNCHANGED <<civs, children, improvements>>
      BY <1>9, <2>1 DEF Reload, RestoredNextId, EmptyRegistry
    <3>6. TypeOK'
      <4>1. VisitScopes \subseteq Scopes
        BY <3>1
      <4>2. parent' \in [live' -> Scopes \cup {NoScope}] /\ tags' \in [live' -> SUBSET Scopes]
        BY <4>1, <3>3, <3>4, <3>5
      <4>3. childByType' \in [Civs -> SUBSET Scopes]
        BY <3>5
      <4> HIDE DEF Held
      <4> QED BY <4>1, <4>2, <4>3, <3>5
    <3>7. Held'
      <4>1. MapScopes \cup {CivScope(c) : c \in civs} \subseteq VisitScopes
        BY DEF VisitScopes
      <4>2. \A c \in Civs : children[c] \subseteq VisitScopes
        BY DEF VisitScopes
      <4>3. \A p \in Cells \X Slots : improvements[p] \in VisitScopes \cup {NoScope}
        BY DEF VisitScopes
      <4>4. \A c \in Civs : childByType'[c] \subseteq children[c]
        BY <3>5
      <4>5. \A c \in Civs \ civs : children[c] = {}
        OBVIOUS
      <4> HIDE DEF TypeInv, TypeOK, VisitScopes
      <4> QED BY <4>1, <4>2, <4>3, <4>4, <4>5, <3>5
    <3> QED BY <3>6, <3>7
  <2>2. CASE ~(Sortable(VisitScopes) /\ Loadable)
    BY <1>9, <2>2 DEF Reload, vars, world, session
  <2> QED BY <2>1, <2>2
<1>10. CASE UNCHANGED vars
  BY <1>10 DEF vars, world, session
<1> QED BY <1>1, <1>2, <1>3, <1>4, <1>5, <1>6, <1>7, <1>8, <1>9, <1>10 DEF Next

\* The state of the world, the session and every scope is always well formed; in
\* particular the session registers only scopes that exist (Session, World,
\* Civilization, Cell).
THEOREM TypeCorrect == Spec => []TypeOK
<1>1. Init => TypeInv
  BY InitType
<1>2. TypeInv /\ [Next]_vars => TypeInv'
  BY NextType
<1>3. TypeInv => TypeOK
  BY DEF TypeInv
<1> QED BY <1>1, <1>2, <1>3, PTL DEF Spec

-----------------------------------------------------------------------------
(* Ids.                                                                    *)

\* Whatever lives on keeps its number below the counter; what is new owes it.
LEMMA FreshStep ==
  ASSUME TypeInv, TypeInv', FreshIds, GetNextId \/ UNCHANGED nextId,
         \A s \in live' \ live : TypeOf(s) \in NumberedTypes => s[3] < nextId'
  PROVE  FreshIds'
<1> SUFFICES ASSUME NEW s \in live', s \in live, TypeOf(s) \in NumberedTypes PROVE s[3] < nextId'
  BY DEF FreshIds
<1>1. s[3] \in 0 .. MaxId - 1 /\ s[3] < nextId
  BY DEF TypeInv, TypeOK, FreshIds, Scopes, MapScopes, WorldScope, PlaneScope, RegionScope,
         CellScope, CivScope, NumberedTypes, GroupTypes, TypeOf
<1>2. nextId \in Nat /\ nextId' \in Nat /\ nextId <= nextId'
  BY DEF TypeInv, TypeOK, GetNextId
<1> QED BY <1>1, <1>2

\* The only numbered scope a step brings to life has the number it takes.
LEMMA NewClassScopes ==
  ASSUME NEW c, NEW s, TypeOf(s) \in ClassTypes, NEW result, NEW resultTags,
         CreateClassAnd(c, s, result, resultTags) \/ FailToCreateClass(c, s)
  PROVE  \A n \in live' \ live : TypeOf(n) \in NumberedTypes => n = result
<1> DEFINE t == GroupTypeOf(TypeOf(s))
<1>1. t \in GroupTypes /\ GroupTypes \cap NumberedTypes = {} /\ ClassTypes \cap NumberedTypes = {}
  BY DEF GroupTypeOf, GroupTypes, NumberedTypes, ClassTypes
<1>2. \A g : TypeOf(GroupScope(t, c, g)) = t
  BY DEF TypeOf, GroupScope
<1> HIDE DEF t
<1>3. CASE CreateClassAnd(c, s, result, resultTags)
  <2>1. \A n \in live' \ live : n = result \/ n = s \/ \E g : n = GroupScope(t, c, g)
    BY <1>3 DEF CreateClassAnd, NewScopes, t
  <2> QED BY <1>1, <1>2, <2>1
<1>4. CASE FailToCreateClass(c, s)
  <2>1. \A n \in live' \ live : \E g : n = GroupScope(t, c, g)
    BY <1>4 DEF FailToCreateClass, NewScopes, t
  <2> QED BY <1>1, <1>2, <2>1
<1> QED BY <1>3, <1>4

\* No step uses an id that was given before: numbers only grow, and a load restores the counter.
LEMMA NextFresh == TypeInv /\ FreshIds /\ [Next]_vars => FreshIds'
<1> SUFFICES ASSUME TypeInv, FreshIds, [Next]_vars PROVE FreshIds'
  OBVIOUS
<1>1. TypeInv'
  BY NextType
<1>2. ASSUME NEW n \in live' \ live, TypeOf(n) \in NumberedTypes
      PROVE  GetNextId /\ \E type : n = NumberedScope(type, nextId)
  <2>1. ASSUME NEW c \in Civs, CreateCivilizationScope(c) \/ CreateCityScope(c)
        PROVE  GetNextId /\ \E type : n = NumberedScope(type, nextId)
    BY <1>2, <2>1
    DEF CreateCivilizationScope, CreateCityScope, NewScopes, CivScope, TypeOf, NumberedTypes
  <2>2. ASSUME NEW city \in registered, NEW k \in ImprovementClasses,
        CreateImprovementScope(city, k)
        PROVE  GetNextId /\ \E type : n = NumberedScope(type, nextId)
    <3> DEFINE class == ClassScope("IMPROVEMENT_CLASS", parent[city][2], k)
               result == NumberedScope("IMPROVEMENT", nextId)
    <3>1. GetNextId
      BY <2>2 DEF CreateImprovementScope
    <3>2. CASE CreateImprovementOfKnownClass(city, k)
      BY <1>2, <3>1, <3>2 DEF CreateImprovementOfKnownClass, NewScopes
    <3>3. CASE CreateImprovementOfNewClass(city, k) \/ FailToCreateImprovementClass(city, k)
      <4>1. \/ CreateClassAnd(parent[city][2], class, result, {city, class})
            \/ FailToCreateClass(parent[city][2], class)
        BY <3>3 DEF CreateImprovementOfNewClass, FailToCreateImprovementClass
      <4>2. TypeOf(class) \in ClassTypes
        BY DEF TypeOf, ClassScope, ClassTypes
      <4>3. n = result
        BY <1>2, <4>1, <4>2, NewClassScopes
      <4> QED BY <3>1, <4>3
    <3>4. CASE FailForLackOfRuleSet(city, k)
      BY <1>2, <3>4 DEF FailForLackOfRuleSet
    <3> QED BY <2>2, <3>2, <3>3, <3>4 DEF CreateImprovementScope
  <2>3. ASSUME NEW c \in Civs, NEW k \in JobClasses, CreateJobScope(c, k)
        PROVE  GetNextId /\ \E type : n = NumberedScope(type, nextId)
    <3> DEFINE class == ClassScope("JOB_CLASS", c, k)
               result == NumberedScope("JOB", nextId)
    <3>1. TypeOf(class) \in ClassTypes
      BY DEF TypeOf, ClassScope, ClassTypes
    <3>2. CASE CreateJobOfKnownClass(c, k)
      BY <1>2, <3>2 DEF CreateJobOfKnownClass, NewScopes
    <3>3. CASE CreateJobOfNewClass(c, k)
      <4>1. CreateClassAnd(c, class, result, {class}) /\ GetNextId
        BY <3>3 DEF CreateJobOfNewClass
      <4>2. n = result
        BY <1>2, <3>1, <4>1, NewClassScopes
      <4> QED BY <4>1, <4>2
    <3>4. CASE FailToCreateJobClass(c, k)
      <4>1. FailToCreateClass(c, class)
        BY <3>4 DEF FailToCreateJobClass
      <4>2. \A result2 : n = result2
        BY <1>2, <3>1, <4>1, NewClassScopes
      <4>3. n = TRUE /\ n = FALSE
        BY <4>2
      <4> QED BY <4>3
    <3> QED BY <2>3, <3>2, <3>3, <3>4 DEF CreateJobScope
  <2>4. CASE Reload
    BY <1>2, <2>4, VisitedLive DEF Reload, vars
  <2> QED
    BY <1>2, <2>1, <2>2, <2>3, <2>4
    DEF Next, SetWorld, SetRuleSet, AddScope, AddImprovement, vars
<1>3. GetNextId \/ UNCHANGED nextId
  BY DEF Next, SetWorld, SetRuleSet, AddScope, CreateCivilizationScope, CreateCityScope,
     CreateImprovementScope, CreateJobScope, CreateJobOfKnownClass, CreateJobOfNewClass,
     FailToCreateJobClass, AddImprovement, Reload, RestoredNextId, vars, world
<1>4. \A s \in live' \ live : TypeOf(s) \in NumberedTypes => s[3] < nextId'
  <2>1. \A type : NumberedScope(type, nextId)[3] = nextId
    BY DEF NumberedScope
  <2>2. GetNextId => nextId < nextId'
    BY DEF GetNextId, TypeInv, TypeOK
  <2> QED BY <1>2, <2>1, <2>2
<1> QED BY <1>1, <1>3, <1>4, FreshStep

\* No id is given to two cities, improvements or jobs: each carries one the counter has
\* left behind, whatever was lost, saved and loaded (ControlObject::GetNextId and its
\* callers in Session).
THEOREM IdsAreFresh == Spec => []FreshIds
<1>1. Init => TypeInv /\ FreshIds
  <2>1. Init => FreshIds
    BY DEF Init, FreshIds, NumberedTypes, MapScopes, WorldScope, PlaneScope, RegionScope,
           CellScope, CivScope, TypeOf
  <2> QED BY <2>1, InitType
<1>2. TypeInv /\ FreshIds /\ [Next]_vars => (TypeInv /\ FreshIds)'
  BY NextType, NextFresh
<1> QED BY <1>1, <1>2, PTL DEF Spec

-----------------------------------------------------------------------------
(* Ids.                                                                    *)

\* A scope is its three parts, the first a scope type.
LEMMA ScopeShape ==
  ASSUME NEW s \in Scopes
  PROVE  s = <<s[1], s[2], s[3]>> /\ TypeOf(s) \in ScopeType
  BY DEF Scopes, MapScopes, WorldScope, PlaneScope, RegionScope, CellScope, CivScope,
         NumberedTypes, GroupTypes, TypeOf, ScopeType

\* Two scopes share an id only if they are groups of one name and different types.
LEMMA SharedId ==
  ASSUME NEW s \in Scopes, NEW t \in Scopes, Id(s) = Id(t), s # t
  PROVE  /\ TypeOf(s) \in GroupTypes /\ TypeOf(t) \in GroupTypes
         /\ s[2] = t[2] /\ s[3] = t[3] /\ TypeOf(s) # TypeOf(t)
<1>1. /\ s = <<s[1], s[2], s[3]>> /\ TypeOf(s) \in ScopeType
      /\ t = <<t[1], t[2], t[3]>> /\ TypeOf(t) \in ScopeType
  BY ScopeShape
<1>2. CASE TypeOf(s) \in GroupTypes /\ TypeOf(t) \in GroupTypes
  <2>1. s[2] = t[2] /\ s[3] = t[3]
    BY <1>2 DEF Id
  <2> QED BY <1>1, <1>2, <2>1 DEF TypeOf
<1>3. CASE TypeOf(s) \notin GroupTypes /\ TypeOf(t) \notin GroupTypes
  BY <1>3 DEF Id
<1>4. CASE (TypeOf(s) \in GroupTypes) # (TypeOf(t) \in GroupTypes)
  <2>1. TypeOf(s) = "GROUP" \/ TypeOf(t) = "GROUP"
    BY <1>4 DEF Id, TypeOf
  <2> QED BY <1>1, <2>1 DEF ScopeType
<1> QED BY <1>2, <1>3, <1>4

\* Some scope that is saved has the id of t.
Stored(t) == \E u \in VisitScopes : Id(u) = Id(t)

\* What a reference to something stored is loaded as.
LEMMA ResolveStored ==
  ASSUME NEW t, Stored(t)
  PROVE  Resolve(t) \in VisitScopes /\ Id(Resolve(t)) = Id(t)
  BY DEF Stored, Resolve

\* What is saved without a group among its references comes back as it was.
LEMMA ResolveNoGroup ==
  ASSUME TypeInv, NEW t \in Scopes, Stored(t), TypeOf(t) \notin GroupTypes
  PROVE  t \in VisitScopes /\ Resolve(t) = t
<1>1. Resolve(t) \in VisitScopes /\ Id(Resolve(t)) = Id(t)
  BY ResolveStored
<1>2. Resolve(t) \in Scopes
  BY <1>1, VisitedLive DEF TypeInv, TypeOK
<1> QED BY <1>1, <1>2, SharedId

-----------------------------------------------------------------------------
(* The invariant.  It needs no assumption on the rulesets: a creation that  *)
(* fails half-way leaves groups behind, never an improvement or its class.  *)

ClassesOwned ==
    \A s \in live : TypeOf(s) = "IMPROVEMENT_CLASS" => parent[s] = CivScope(s[2])

JobsLoose == \A s \in live : TypeOf(s) = "JOB" => parent[s] = NoScope

\* PlacedOnce, saying which place.
PlacedAt ==
    \A s \in live : TypeOf(s) = "IMPROVEMENT" =>
        IF parent[s] = NoScope
        THEN \A p \in Cells \X Slots : improvements[p] # s
        ELSE \E p \in Cells \X Slots :
                /\ parent[s] = CellScope(p[1])
                /\ \A q \in Cells \X Slots : improvements[q] = s <=> q = p

OwnerInv ==
    /\ TypeInv
    /\ FreshIds
    /\ ClassesOwned
    /\ JobsLoose
    /\ OwnerMatchesClass
    /\ PlacedAt

\* A parent and one place leave no room for a second one.
LEMMA InvariantImpliesPlacedOnce == OwnerInv => PlacedOnce
<1> SUFFICES ASSUME OwnerInv, NEW s \in live, TypeOf(s) = "IMPROVEMENT"
             PROVE  LET places == {p \in Cells \X Slots : improvements[p] = s}
                    IN  /\ \A p \in places : parent[s] = CellScope(p[1])
                        /\ Cardinality(places) = IF parent[s] = NoScope THEN 0 ELSE 1
  BY DEF PlacedOnce
<1> DEFINE places == {p \in Cells \X Slots : improvements[p] = s}
<1>1. CASE parent[s] = NoScope
  <2>1. places = {}
    BY <1>1 DEF OwnerInv, PlacedAt
  <2> QED BY <1>1, <2>1, FS_EmptySet
<1>2. CASE parent[s] # NoScope
  <2>1. PICK p \in Cells \X Slots : /\ parent[s] = CellScope(p[1])
                                    /\ \A q \in Cells \X Slots : improvements[q] = s <=> q = p
    BY <1>2 DEF OwnerInv, PlacedAt
  <2>2. places = {p}
    BY <2>1
  <2> HIDE DEF places
  <2>3. Cardinality(places) = 1
    BY <2>2, FS_Singleton
  <2> QED BY <1>2, <2>1, <2>2, <2>3 DEF places
<1> QED BY <1>1, <1>2

-----------------------------------------------------------------------------
(* The steps.                                                              *)

\* An improvement of this owner: its tags are a city of a civilization and that
\* civilization's class.
Owned(s) ==
    \E city, class \in live' :
        /\ tags'[s] = {city, class}
        /\ TypeOf(city) = "CITY" /\ TypeOf(class) = "IMPROVEMENT_CLASS"
        /\ city \in live
        /\ parent[city] = CivScope(class[2])

\* A step that brings the scopes in new to life and leaves alone what is not new.
Creates(new) ==
    /\ live' = live \cup new
    /\ \A s \in live \ new : parent'[s] = parent[s] /\ tags'[s] = tags[s]
    /\ \A s \in new : TypeOf(s) \in NumberedTypes => s \notin live
    /\ \A s \in new : TypeOf(s) \in {"IMPROVEMENT", "JOB"} => parent'[s] = NoScope
    /\ \A s \in new : TypeOf(s) = "IMPROVEMENT_CLASS" => parent'[s] = CivScope(s[2])
    /\ \A s \in new : TypeOf(s) = "IMPROVEMENT" => Owned(s)
    /\ UNCHANGED improvements

\* The next number is nobody's id.
LEMMA NumberIsNew ==
  ASSUME TypeInv, FreshIds, NEW type \in NumberedTypes
  PROVE  /\ NumberedScope(type, nextId) \notin live
         /\ TypeOf(NumberedScope(type, nextId)) = type
<1>1. /\ TypeOf(NumberedScope(type, nextId)) = type
      /\ NumberedScope(type, nextId)[3] = nextId
  BY DEF NumberedScope, TypeOf
<1>2. nextId \in Nat
  BY DEF TypeInv, TypeOK
<1> QED BY <1>1, <1>2 DEF FreshIds

\* A class is created, with groups and with what asked for it.
LEMMA ClassCreates ==
  ASSUME TypeInv, FreshIds, NEW c \in civs, NEW s, TypeOf(s) \in ClassTypes, s[2] = c,
         NEW type \in {"IMPROVEMENT", "JOB"}, NEW resultTags,
         CreateClassAnd(c, s, NumberedScope(type, nextId), resultTags),
         type = "IMPROVEMENT" =>
            \E city \in live : /\ resultTags = {city, s}
                               /\ TypeOf(city) = "CITY" /\ TypeOf(s) = "IMPROVEMENT_CLASS"
                               /\ parent[city] = CivScope(c),
         UNCHANGED improvements
  PROVE  \E new : Creates(new)
<1> DEFINE t == GroupTypeOf(TypeOf(s))
           groups == {GroupScope(t, c, g) : g \in MissingGroups(c, t, ruleset.groups[s[3]])}
           result == NumberedScope(type, nextId)
           new == groups \cup {s, result}
<1>1. result \notin live /\ TypeOf(result) = type
  BY NumberIsNew DEF NumberedTypes
<1>2. \A n \in groups : TypeOf(n) \in GroupTypes
  BY DEF GroupScope, TypeOf, GroupTypeOf, GroupTypes
<1>3. \A n \in groups \cup {s} : n # result /\ TypeOf(n) \notin NumberedTypes
  BY <1>1, <1>2 DEF GroupTypes, ClassTypes, NumberedTypes
<1>4. /\ live' = live \cup new
      /\ \A n \in live \ new : parent'[n] = parent[n] /\ tags'[n] = tags[n]
      /\ \A n \in groups \cup {s} : parent'[n] = CivScope(c)
      /\ parent'[result] = NoScope /\ tags'[result] = resultTags
  BY <1>3 DEF CreateClassAnd, NewScopes
<1>5. \A n \in new : TypeOf(n) = "IMPROVEMENT_CLASS" => n = s
  BY <1>1, <1>2 DEF GroupTypes
<1>6. type = "IMPROVEMENT" => Owned(result)
  BY <1>4 DEF Owned
<1>7. \A n \in new : TypeOf(n) \in NumberedTypes => n = result
  BY <1>3
<1> HIDE DEF groups, result
<1>8. Creates(new)
  BY <1>1, <1>3, <1>4, <1>5, <1>6, <1>7 DEF Creates, NumberedTypes
<1> QED BY <1>8

\* Groups that were completed before one failed.
LEMMA FailureCreates ==
  ASSUME NEW c, NEW s, FailToCreateClass(c, s), TypeOf(s) \in ClassTypes, UNCHANGED improvements
  PROVE  \E new : Creates(new)
<1> DEFINE t == GroupTypeOf(TypeOf(s))
<1>1. PICK g, done : NewScopes({GroupScope(t, c, d) : d \in done} \cup {GroupScope(t, c, g)},
                               LAMBDA n : CivScope(c), LAMBDA n : LinksOf(n))
  BY DEF FailToCreateClass
<1> DEFINE new == {GroupScope(t, c, d) : d \in done} \cup {GroupScope(t, c, g)}
<1>2. \A n \in new : TypeOf(n) \in GroupTypes
  BY DEF GroupScope, TypeOf, GroupTypeOf, GroupTypes
<1>3. /\ live' = live \cup new
      /\ \A n \in live \ new : parent'[n] = parent[n] /\ tags'[n] = tags[n]
  BY <1>1 DEF NewScopes
<1> HIDE DEF new
<1>4. Creates(new)
  BY <1>2, <1>3 DEF Creates, GroupTypes, NumberedTypes
<1> QED BY <1>4

\* Steps that leave scopes and links alone create nothing.
LEMMA NothingCreates ==
  ASSUME UNCHANGED <<live, parent, tags, improvements>>
  PROVE  \E new : Creates(new)
<1>1. Creates({})
  BY DEF Creates
<1> QED BY <1>1

\* One scope that is not a class.
LEMMA OneCreates ==
  ASSUME NEW s, TypeOf(s) \notin {"IMPROVEMENT_CLASS"}, UNCHANGED improvements,
         live' = live \cup {s},
         \A n \in live \ {s} : parent'[n] = parent[n] /\ tags'[n] = tags[n],
         TypeOf(s) \in NumberedTypes => s \notin live,
         TypeOf(s) \in {"IMPROVEMENT", "JOB"} => parent'[s] = NoScope,
         TypeOf(s) = "IMPROVEMENT" => Owned(s)
  PROVE  \E new : Creates(new)
<1>1. Creates({s})
  BY DEF Creates
<1> QED BY <1>1

\* CreateImprovementScope is a creation, whole or half-way.
LEMMA ImprovementCreates ==
  ASSUME OwnerInv, NEW city, NEW k \in ImprovementClasses, CreateImprovementScope(city, k)
  PROVE  \E new : Creates(new)
<1> DEFINE c == parent[city][2]
           class == ClassScope("IMPROVEMENT_CLASS", c, k)
           result == NumberedScope("IMPROVEMENT", nextId)
<1>1. /\ city \in live /\ TypeOf(city) = "CITY" /\ c \in civs /\ parent[city] = CivScope(c)
  <2>1. CityOfCivilization(city)
    BY DEF CreateImprovementScope
  <2>2. PICK d \in civs : parent[city] = CivScope(d)
    BY <2>1 DEF CityOfCivilization
  <2> QED BY <2>1, <2>2 DEF CityOfCivilization, CivScope, OwnerInv, TypeInv, TypeOK
<1>2. TypeOf(class) = "IMPROVEMENT_CLASS" /\ class[2] = c
  BY DEF ClassScope, TypeOf
<1>3. result \notin live /\ TypeOf(result) = "IMPROVEMENT"
  BY NumberIsNew DEF OwnerInv, NumberedTypes
<1>4. CASE CreateImprovementOfKnownClass(city, k)
  <2>1. /\ live' = live \cup {result} /\ parent'[result] = NoScope /\ tags'[result] = {city, class}
        /\ \A n \in live \ {result} : parent'[n] = parent[n] /\ tags'[n] = tags[n]
        /\ UNCHANGED improvements
        /\ class \in childByType[c]
    BY <1>4 DEF CreateImprovementOfKnownClass, NewScopes, world, HasChildScope
  <2>2. class \in live
    BY <1>1, <2>1 DEF OwnerInv, TypeInv, TypeOK, Held
  <2> HIDE DEF class, result, c
  <2>3. Owned(result)
    BY <1>1, <1>2, <2>1, <2>2 DEF Owned
  <2> QED BY <1>3, <2>1, <2>3, OneCreates
<1>5. CASE CreateImprovementOfNewClass(city, k)
  <2>1. CreateClassAnd(c, class, result, {city, class}) /\ UNCHANGED improvements
    BY <1>5 DEF CreateImprovementOfNewClass
  <2> HIDE DEF class, c
  <2> QED BY <1>1, <1>2, <2>1, ClassCreates DEF OwnerInv, ClassTypes
<1>6. CASE FailToCreateImprovementClass(city, k)
  <2>1. FailToCreateClass(c, class) /\ UNCHANGED improvements
    BY <1>6 DEF FailToCreateImprovementClass
  <2> HIDE DEF class, c
  <2> QED BY <1>2, <2>1, FailureCreates DEF ClassTypes
<1>7. CASE FailForLackOfRuleSet(city, k)
  BY <1>7, NothingCreates DEF FailForLackOfRuleSet, world
<1> QED BY <1>4, <1>5, <1>6, <1>7 DEF CreateImprovementScope

\* CreateJobScope is a creation, whole or half-way.
LEMMA JobCreates ==
  ASSUME OwnerInv, NEW c \in Civs, NEW k \in JobClasses, CreateJobScope(c, k)
  PROVE  \E new : Creates(new)
<1> DEFINE class == ClassScope("JOB_CLASS", c, k)
           result == NumberedScope("JOB", nextId)
<1>1. TypeOf(class) \in ClassTypes /\ class[2] = c /\ c \in civs
  BY DEF ClassScope, TypeOf, ClassTypes, CreateJobScope
<1>2. result \notin live /\ TypeOf(result) = "JOB"
  BY NumberIsNew DEF OwnerInv, NumberedTypes
<1>3. CASE CreateJobOfKnownClass(c, k)
  <2>1. /\ live' = live \cup {result} /\ parent'[result] = NoScope
        /\ \A n \in live \ {result} : parent'[n] = parent[n] /\ tags'[n] = tags[n]
        /\ UNCHANGED improvements
    BY <1>3 DEF CreateJobOfKnownClass, NewScopes, world
  <2> HIDE DEF result
  <2> QED BY <1>2, <2>1, OneCreates
<1>4. CASE CreateJobOfNewClass(c, k)
  <2>1. CreateClassAnd(c, class, result, {class}) /\ UNCHANGED improvements
    BY <1>4 DEF CreateJobOfNewClass
  <2> HIDE DEF class
  <2> QED BY <1>1, <2>1, ClassCreates DEF OwnerInv
<1>5. CASE FailToCreateJobClass(c, k)
  <2>1. FailToCreateClass(c, class) /\ UNCHANGED improvements
    BY <1>5 DEF FailToCreateJobClass
  <2> HIDE DEF class
  <2> QED BY <1>1, <2>1, FailureCreates
<1> QED BY <1>3, <1>4, <1>5 DEF CreateJobScope

\* Every other step creates scopes, if it does anything to them.
LEMMA StepCreates ==
  ASSUME OwnerInv, [Next]_vars
  PROVE  \/ \E new : Creates(new)
         \/ \E x \in Cells, slot \in Slots, s \in live : AddImprovement(x, slot, s)
         \/ Reload
<1>1. CASE SetWorld \/ (\E r \in RuleSets : SetRuleSet(r)) \/ (\E s \in live : AddScope(s))
           \/ UNCHANGED vars
  BY <1>1, NothingCreates DEF SetWorld, SetRuleSet, AddScope, vars, world
<1>2. ASSUME NEW c \in Civs, CreateCivilizationScope(c) PROVE \E new : Creates(new)
  <2>1. TypeOf(CivScope(c)) = "CIV"
    BY DEF TypeOf, CivScope
  <2>2. /\ live' = live \cup {CivScope(c)}
        /\ \A n \in live \ {CivScope(c)} : parent'[n] = parent[n] /\ tags'[n] = tags[n]
        /\ UNCHANGED improvements
    BY <1>2 DEF CreateCivilizationScope, NewScopes
  <2> QED BY <2>1, <2>2, OneCreates DEF NumberedTypes
<1>3. ASSUME NEW c \in Civs, CreateCityScope(c) PROVE \E new : Creates(new)
  <2> DEFINE s == NumberedScope("CITY", nextId)
  <2>1. s \notin live /\ TypeOf(s) = "CITY"
    BY NumberIsNew DEF OwnerInv, NumberedTypes
  <2>2. CASE c \in civs
    <3>1. /\ live' = live \cup {s}
          /\ \A n \in live \ {s} : parent'[n] = parent[n] /\ tags'[n] = tags[n]
          /\ UNCHANGED improvements
      BY <1>3, <2>2 DEF CreateCityScope, NewScopes, world
    <3> HIDE DEF s
    <3> QED BY <2>1, <3>1, OneCreates
  <2>3. CASE c \notin civs
    BY <1>3, <2>3, NothingCreates DEF CreateCityScope, world
  <2> QED BY <2>2, <2>3
<1>4. CASE \E city \in registered, k \in ImprovementClasses : CreateImprovementScope(city, k)
  BY <1>4, ImprovementCreates
<1>5. CASE \E c \in Civs, k \in JobClasses : CreateJobScope(c, k)
  BY <1>5, JobCreates
<1> QED BY <1>1, <1>2, <1>3, <1>4, <1>5 DEF Next

\* Creation keeps owners and places: what is new is linked to nothing old but its own class.
LEMMA CreatesPreserves ==
  ASSUME OwnerInv, TypeInv', NEW new, Creates(new)
  PROVE  ClassesOwned' /\ JobsLoose' /\ OwnerMatchesClass' /\ PlacedAt'
<1> USE DEF Creates
<1>1. ClassesOwned'
  BY DEF OwnerInv, ClassesOwned
<1>2. JobsLoose'
  BY DEF OwnerInv, JobsLoose
<1>3. OwnerMatchesClass'
  <2> SUFFICES ASSUME NEW s \in live', TypeOf(s) = "IMPROVEMENT"
               PROVE  \E city, class \in live' :
                          /\ tags'[s] = {city, class}
                          /\ TypeOf(city) = "CITY" /\ TypeOf(class) = "IMPROVEMENT_CLASS"
                          /\ parent'[city] = CivScope(class[2])
                          /\ parent'[class] = parent'[city]
    BY DEF OwnerMatchesClass
  <2>1. Owned(s)
    <3>1. CASE s \in new
      BY <3>1
    <3>2. CASE s \in live \ new
      <4>1. PICK city, class \in live :
                /\ tags[s] = {city, class}
                /\ TypeOf(city) = "CITY" /\ TypeOf(class) = "IMPROVEMENT_CLASS"
                /\ parent[city] = CivScope(class[2])
        BY <3>2 DEF OwnerInv, OwnerMatchesClass
      <4> QED BY <3>2, <4>1 DEF Owned
    <3> QED BY <3>1, <3>2
  <2>2. PICK city, class \in live' :
            /\ tags'[s] = {city, class}
            /\ TypeOf(city) = "CITY" /\ TypeOf(class) = "IMPROVEMENT_CLASS"
            /\ city \in live
            /\ parent[city] = CivScope(class[2])
    BY <2>1 DEF Owned
  <2>3. parent'[city] = parent[city]
    BY <2>2 DEF NumberedTypes
  <2>4. parent'[class] = CivScope(class[2])
    BY <1>1, <2>2 DEF ClassesOwned
  <2> QED BY <2>2, <2>3, <2>4
<1>4. PlacedAt'
  <2> SUFFICES ASSUME NEW s \in live', TypeOf(s) = "IMPROVEMENT"
               PROVE  IF parent'[s] = NoScope
                      THEN \A p \in Cells \X Slots : improvements[p] # s
                      ELSE \E p \in Cells \X Slots :
                              /\ parent'[s] = CellScope(p[1])
                              /\ \A q \in Cells \X Slots : improvements[q] = s <=> q = p
    BY DEF PlacedAt
  <2>1. CASE s \in new
    <3>1. s \notin live /\ s # NoScope /\ parent'[s] = NoScope
      BY <2>1, SentinelAssumption DEF TypeInv, TypeOK, NumberedTypes
    <3> QED BY <3>1 DEF OwnerInv, TypeInv, Held
  <2>2. CASE s \in live \ new
    BY <2>2 DEF OwnerInv, PlacedAt
  <2> QED BY <2>1, <2>2
<1> QED BY <1>1, <1>2, <1>3, <1>4

\* AddImprovement keeps owners and places: it takes only what is in no place.
LEMMA PlacementPreserves ==
  ASSUME OwnerInv, TypeInv', NEW x \in Cells, NEW slot \in Slots, NEW s \in live,
         AddImprovement(x, slot, s)
  PROVE  ClassesOwned' /\ JobsLoose' /\ OwnerMatchesClass' /\ PlacedAt'
<1>1. /\ parent' = [parent EXCEPT ![s] = CellScope(x)]
      /\ improvements' = [improvements EXCEPT ![<<x, slot>>] = s]
      /\ improvements[<<x, slot>>] = NoScope
      /\ \A other \in Slots : improvements[<<x, other>>] # s
      /\ parent[s] \in {NoScope, CellScope(x)}
      /\ UNCHANGED <<live, tags>>
  BY DEF AddImprovement, CanPlace
<1>2. TypeOf(s) = "IMPROVEMENT"
  BY DEF AddImprovement, CanLinkScopes, ParentTable
<1>3. parent'[s] = CellScope(x) /\ \A n \in live \ {s} : parent'[n] = parent[n]
  BY <1>1 DEF OwnerInv, TypeInv, TypeOK
<1>4. ClassesOwned' /\ JobsLoose'
  BY <1>1, <1>2, <1>3 DEF OwnerInv, ClassesOwned, JobsLoose
<1>5. OwnerMatchesClass'
  <2>1. \A n \in live : TypeOf(n) \in {"CITY", "IMPROVEMENT_CLASS"} => parent'[n] = parent[n]
    BY <1>2, <1>3
  <2> QED BY <1>1, <2>1 DEF OwnerInv, OwnerMatchesClass
<1>6. PlacedAt'
  <2>1. s # NoScope /\ CellScope(x) # NoScope
    BY SentinelAssumption, ScopeNames, MapNames DEF OwnerInv, TypeInv, TypeOK
  <2>2. parent[s] = NoScope
    <3> SUFFICES ASSUME parent[s] = CellScope(x), parent[s] # NoScope PROVE FALSE
      BY <1>1
    <3>1. PICK p \in Cells \X Slots : parent[s] = CellScope(p[1]) /\ improvements[p] = s
      BY <1>2 DEF OwnerInv, PlacedAt
    <3>2. p[1] = x
      BY <3>1 DEF CellScope
    <3> QED BY <1>1, <3>1, <3>2
  <2>3. \A q \in Cells \X Slots : improvements[q] # s
    BY <1>2, <2>2 DEF OwnerInv, PlacedAt
  <2>4. \A q \in Cells \X Slots :
            improvements'[q] = IF q = <<x, slot>> THEN s ELSE improvements[q]
    BY <1>1 DEF OwnerInv, TypeInv, TypeOK
  <2> SUFFICES ASSUME NEW n \in live, TypeOf(n) = "IMPROVEMENT"
               PROVE  IF parent'[n] = NoScope
                      THEN \A p \in Cells \X Slots : improvements'[p] # n
                      ELSE \E p \in Cells \X Slots :
                              /\ parent'[n] = CellScope(p[1])
                              /\ \A q \in Cells \X Slots : improvements'[q] = n <=> q = p
    BY <1>1 DEF PlacedAt
  <2>5. CASE n = s
    <3>1. <<x, slot>> \in Cells \X Slots /\ parent'[n] = CellScope(<<x, slot>>[1])
      BY <1>3, <2>5
    <3>2. \A q \in Cells \X Slots : improvements'[q] = n <=> q = <<x, slot>>
      BY <2>3, <2>4, <2>5
    <3> QED BY <2>1, <3>1, <3>2
  <2>6. CASE n # s
    <3>1. \A q \in Cells \X Slots : improvements'[q] = n <=> improvements[q] = n
      <4>1. n # NoScope
        BY SentinelAssumption DEF OwnerInv, TypeInv, TypeOK
      <4> QED BY <1>1, <2>4, <2>6, <4>1
    <3> QED BY <1>3, <2>6, <3>1 DEF OwnerInv, PlacedAt
  <2> QED BY <2>5, <2>6
<1> QED BY <1>4, <1>5, <1>6

\* A load keeps owners and places, as it only forgets scopes.
LEMMA ReloadKeepsOwners ==
  ASSUME OwnerInv, TypeInv', Reload
  PROVE  ClassesOwned' /\ JobsLoose' /\ OwnerMatchesClass' /\ PlacedAt'
<1>1. CASE ~(Sortable(VisitScopes) /\ Loadable)
  BY <1>1 DEF Reload, vars, world, OwnerInv, ClassesOwned, JobsLoose, OwnerMatchesClass, PlacedAt
<1>2. CASE Sortable(VisitScopes) /\ Loadable
  <2>1. /\ live' = VisitScopes /\ VisitScopes \subseteq live
        /\ \A s \in VisitScopes :
              /\ parent'[s] = IF parent[s] = NoScope THEN NoScope ELSE Resolve(parent[s])
              /\ tags'[s] = {Resolve(t) : t \in tags[s]}
        /\ UNCHANGED improvements
    BY <1>2, VisitedLive DEF Reload, OwnerInv
  <2>2. ASSUME NEW s \in VisitScopes, parent[s] = NoScope \/ TypeOf(parent[s]) \in {"CIV", "CELL"}
        PROVE  parent'[s] = parent[s]
    <3>1. CASE parent[s] = NoScope
      BY <2>1, <3>1
    <3>2. CASE parent[s] # NoScope
      <4>1. parent[s] \in Referred(s) /\ TypeOf(parent[s]) \notin GroupTypes
        BY <2>2, <3>2 DEF Referred, GroupTypes
      <4>2. Resolve(parent[s]) = parent[s]
        BY <1>2, <2>1, <4>1, ResolveNoGroup
           DEF OwnerInv, TypeInv, TypeOK, Referred, Sortable, Stored
      <4> QED BY <2>1, <3>2, <4>2
    <3> QED BY <3>1, <3>2
  <2>3. \A c : TypeOf(CivScope(c)) = "CIV" /\ TypeOf(CellScope(c)) = "CELL"
    BY DEF TypeOf, CivScope, CellScope
  <2>4. ClassesOwned'
    BY <2>1, <2>2, <2>3 DEF OwnerInv, ClassesOwned
  <2>5. JobsLoose'
    BY <2>1 DEF OwnerInv, JobsLoose
  <2>6. OwnerMatchesClass'
    <3> SUFFICES ASSUME NEW s \in VisitScopes, TypeOf(s) = "IMPROVEMENT"
                 PROVE  \E city, class \in VisitScopes :
                            /\ tags'[s] = {city, class}
                            /\ TypeOf(city) = "CITY" /\ TypeOf(class) = "IMPROVEMENT_CLASS"
                            /\ parent'[city] = CivScope(class[2])
                            /\ parent'[class] = parent'[city]
      BY <2>1 DEF OwnerMatchesClass
    <3>1. PICK city, class \in live :
              /\ tags[s] = {city, class}
              /\ TypeOf(city) = "CITY" /\ TypeOf(class) = "IMPROVEMENT_CLASS"
              /\ parent[city] = CivScope(class[2])
              /\ parent[class] = parent[city]
      BY <2>1 DEF OwnerInv, OwnerMatchesClass
    <3>2. \A t \in {city, class} : t \in Referred(s) /\ TypeOf(t) \notin GroupTypes
      BY <3>1 DEF Referred, GroupTypes
    <3>3. \A t \in {city, class} : t \in VisitScopes /\ Resolve(t) = t
      BY <1>2, <2>1, <3>2, ResolveNoGroup DEF OwnerInv, TypeInv, TypeOK, Referred, Sortable, Stored
    <3>4. tags'[s] = {city, class}
      BY <2>1, <3>1, <3>3
    <3>5. parent'[city] = parent[city] /\ parent'[class] = parent[class]
      BY <2>2, <2>3, <3>1, <3>3
    <3> QED BY <3>1, <3>3, <3>4, <3>5
  <2>7. PlacedAt'
    <3>1. \A s \in VisitScopes : TypeOf(s) = "IMPROVEMENT" => parent'[s] = parent[s]
      BY <2>1, <2>2, <2>3 DEF OwnerInv, PlacedAt
    <3> QED BY <2>1, <3>1 DEF OwnerInv, PlacedAt
  <2> QED BY <2>4, <2>5, <2>6, <2>7
<1> QED BY <1>1, <1>2

\* The first state has no scopes to own.
LEMMA InitOwner == Init => OwnerInv
<1> SUFFICES ASSUME Init PROVE OwnerInv
  OBVIOUS
<1>1. \A s \in live : TypeOf(s) \in {"WORLD", "PLANE", "REGION", "CELL", "CIV"}
  BY DEF Init, MapScopes, WorldScope, PlaneScope, RegionScope, CellScope, CivScope, TypeOf
<1> QED
  BY <1>1, InitType
  DEF OwnerInv, FreshIds, NumberedTypes, ClassesOwned, JobsLoose, OwnerMatchesClass, PlacedAt

\* Every step keeps owners and places.
LEMMA NextOwner == OwnerInv /\ [Next]_vars => OwnerInv'
<1> SUFFICES ASSUME OwnerInv, [Next]_vars PROVE OwnerInv'
  OBVIOUS
<1>1. TypeInv' /\ FreshIds'
  BY NextType, NextFresh DEF OwnerInv
<1>2. ClassesOwned' /\ JobsLoose' /\ OwnerMatchesClass' /\ PlacedAt'
  BY <1>1, StepCreates, CreatesPreserves, PlacementPreserves, ReloadKeepsOwners
<1> QED BY <1>1, <1>2 DEF OwnerInv

\* An improvement is never linked to another civilization's class, whatever was created,
\* failed, saved and loaded (Session::CreateImprovementScope).
THEOREM OwnersMatch == Spec => []OwnerMatchesClass
<1>1. Init => OwnerInv
  BY InitOwner
<1>2. OwnerInv /\ [Next]_vars => OwnerInv'
  BY NextOwner
<1>3. OwnerInv => OwnerMatchesClass
  BY DEF OwnerInv
<1> QED BY <1>1, <1>2, <1>3, PTL DEF Spec

\* An improvement is in the one slot of the one cell that is its parent, or in none
\* (Cell::AddImprovement).
THEOREM PlacedAtMostOnce == Spec => []PlacedOnce
<1>1. Init => OwnerInv
  BY InitOwner
<1>2. OwnerInv /\ [Next]_vars => OwnerInv'
  BY NextOwner
<1>3. OwnerInv => PlacedOnce
  BY InvariantImpliesPlacedOnce
<1> QED BY <1>1, <1>2, <1>3, PTL DEF Spec

-----------------------------------------------------------------------------
(* The invariant.  A scope is saved under its id, and only the ids of       *)
(* groups leave open which scope is meant; so whatever a living scope       *)
(* refers to is stored under its id, perhaps by another group.  That is     *)
(* kept because a class is created with all the groups it needs, because a  *)
(* group that is not added for a collision collides with a stored one, and  *)
(* because cities are held before improvements can refer to them.           *)

ChildTypes == {"CITY"} \cup ClassTypes \cup GroupTypes

\* A group has the type some ruleset gives it.
GroupTyped(s) == TypeOf(s) \in GroupTypes => \E r \in RuleSets : r.type[s[3]] = TypeOf(s)

GroupsTyped == \A s \in live : GroupTyped(s)

LinksTyped ==
    \A s \in live :
        /\ parent[s] # NoScope => CanLinkScopes(TypeOf(s), TypeOf(parent[s]))
        /\ \A t \in tags[s] : CanTagLinkScopes(TypeOf(s), TypeOf(t)) /\ GroupTyped(t)

ChildrenParented ==
    \A c \in Civs : \A s \in children[c] :
        /\ TypeOf(s) \in ChildTypes
        /\ parent[s] = CivScope(c)
        /\ TypeOf(s) # "CITY" => s[2] = c

\* The map of a type has what the map of all children has, up to ids.
ChildrenStored ==
    \A c \in Civs : /\ children[c] \subseteq childByType[c]
                    /\ \A s \in childByType[c] : \E u \in children[c] : Id(u) = Id(s)

CitiesOwned == \A s \in live : TypeOf(s) = "CITY" => parent[s] \in {CivScope(c) : c \in civs}

Placed ==
    \A p \in Cells \X Slots :
        improvements[p] # NoScope => TypeOf(improvements[p]) = "IMPROVEMENT"

CitiesRegistered ==
    /\ ~worldSet => registered = {}
    /\ CitiesHeld

ReferencesStored == \A s \in live : \A t \in Referred(s) : Stored(t)

IdsUnique == \A s \in VisitScopes : ~Collides(s, VisitScopes)

SaveInv ==
    /\ TypeInv
    /\ FreshIds
    /\ GroupsTyped
    /\ LinksTyped
    /\ ChildrenParented
    /\ ChildrenStored
    /\ CitiesOwned
    /\ Placed
    /\ CitiesRegistered
    /\ ReferencesStored
    /\ IdsUnique
    /\ Acyclic(VisitScopes)

-----------------------------------------------------------------------------
(* The invariant means that saving works.                                 *)

\* References of what is alive are to scopes.
LEMMA ReferredScopes ==
  ASSUME TypeInv, NEW s \in live, NEW t \in Referred(s)
  PROVE  t \in Scopes
  BY DEF TypeInv, TypeOK, Referred

\* Ids that differ and references without circle can be sorted.
LEMMA InvariantImpliesSortable ==
  ASSUME SaveInv
  PROVE  Sortable(VisitScopes)
<1>1. \A s \in VisitScopes : ~Collides(s, VisitScopes)
  BY DEF SaveInv, IdsUnique
<1>2. \A s \in VisitScopes : \A t \in Referred(s) : \E u \in VisitScopes : Id(u) = Id(t)
  BY VisitedLive DEF SaveInv, ReferencesStored, Stored
<1>3. Acyclic(VisitScopes)
  BY DEF SaveInv
<1> QED BY <1>1, <1>2, <1>3 DEF Sortable

\* With stable group types a saved reference finds the very scope it was made from.
LEMMA ResolveIsIdentity ==
  ASSUME StableGroupTypes, SaveInv, NEW s \in live, NEW t \in Referred(s)
  PROVE  t \in VisitScopes /\ Resolve(t) = t
<1>1. t \in Scopes /\ Stored(t)
  BY ReferredScopes DEF SaveInv, ReferencesStored
<1>2. CASE TypeOf(t) \notin GroupTypes
  BY <1>1, <1>2, ResolveNoGroup DEF SaveInv
<1>3. CASE TypeOf(t) \in GroupTypes
  <2> DEFINE u == Resolve(t)
  <2>1. u \in VisitScopes /\ Id(u) = Id(t)
    BY <1>1, ResolveStored
  <2>2. u \in live /\ u \in Scopes
    BY <2>1, VisitedLive DEF SaveInv, TypeInv, TypeOK
  <2>3. GroupTyped(t)
    <3>1. CASE t \in tags[s]
      BY <3>1 DEF SaveInv, LinksTyped
    <3>2. CASE t = parent[s] /\ parent[s] # NoScope
      <4>1. CanLinkScopes(TypeOf(s), TypeOf(t))
        BY <3>2 DEF SaveInv, LinksTyped
      <4> QED BY <1>3, <4>1 DEF CanLinkScopes, ParentTable, GroupTypes
    <3> QED BY <3>1, <3>2 DEF Referred
  <2>4. GroupTyped(u)
    BY <2>2 DEF SaveInv, GroupsTyped
  <2> HIDE DEF u
  <2>5. ASSUME u # t PROVE FALSE
    <3>1. TypeOf(u) \in GroupTypes /\ u[3] = t[3] /\ TypeOf(u) # TypeOf(t)
      BY <1>1, <2>1, <2>2, <2>5, SharedId
    <3> QED BY <1>3, <2>3, <2>4, <3>1 DEF GroupTyped, StableGroupTypes
  <2> QED BY <2>1, <2>5 DEF u
<1> QED BY <1>2, <1>3

\* With stable group types each reference in a save resolves to the scope it was made from.
LEMMA InvariantImpliesSaveLoads ==
  ASSUME StableGroupTypes, SaveInv
  PROVE  SaveLoads
<1>1. VisitScopes \subseteq live
  BY VisitedLive DEF SaveInv
<1>2. Loadable
  <2> SUFFICES ASSUME NEW s \in VisitScopes
               PROVE  /\ parent[s] # NoScope => CanLinkScopes(TypeOf(s), TypeOf(Resolve(parent[s])))
                      /\ \A t \in tags[s] : CanTagLinkScopes(TypeOf(s), TypeOf(Resolve(t)))
    BY DEF Loadable
  <2>1. \A t \in Referred(s) : Resolve(t) = t
    BY <1>1, ResolveIsIdentity
  <2> QED BY <1>1, <2>1 DEF SaveInv, LinksTyped, Referred
<1> QED BY <1>2, InvariantImpliesSortable DEF SaveLoads

-----------------------------------------------------------------------------
(* The steps that bring scopes to life.                                    *)

\* What such a step owes for the scopes in new: the invariant holds of the new ones,
\* and nothing about the old ones has changed.
Grows(new) ==
    /\ live' = live \cup new
    /\ \A s \in live \ new : parent'[s] = parent[s] /\ tags'[s] = tags[s]
    /\ new \cap VisitScopes = {}
    /\ VisitScopes \subseteq VisitScopes' /\ VisitScopes' \subseteq VisitScopes \cup new
    /\ civs \subseteq civs'
    /\ nextId <= nextId'
    /\ \A s \in new : TypeOf(s) \in NumberedTypes => s[3] < nextId'
    /\ \A s \in new : TypeOf(s) = "CITY" => parent'[s] \in {CivScope(c) : c \in civs'}
    /\ \A s \in new : GroupTyped(s)
    /\ \A s \in new : parent'[s] # NoScope => CanLinkScopes(TypeOf(s), TypeOf(parent'[s]))
    /\ \A s \in new : \A t \in tags'[s] : CanTagLinkScopes(TypeOf(s), TypeOf(t)) /\ GroupTyped(t)
    /\ \A s \in new : \A t \in Referred(s)' : Stored(t)'
    /\ \A s \in new \cap VisitScopes' : TypeOf(s) \in GroupTypes => ~Collides(s, VisitScopes')
    /\ ChildrenStored'
    /\ \A c \in Civs : children[c] \subseteq children'[c]
    /\ \A c \in Civs : \A s \in children'[c] \ children[c] :
          /\ s \in new
          /\ TypeOf(s) \in ChildTypes
          /\ parent'[s] = CivScope(c)
          /\ TypeOf(s) # "CITY" => s[2] = c
    /\ UNCHANGED <<improvements, worldSet>>
    /\ \A s \in registered' \ registered : worldSet /\ TypeOf(s) # "CITY"
    /\ \A T \in SUBSET {s \in new : TypeOf(s) \in GroupTypes} :
          T # {} => \E s \in T : \A t \in Referred(s)' : \A u \in T : Id(t) # Id(u)

\* A number below the counter stays below it.
LEMMA FreshGrows ==
  ASSUME TypeInv, TypeInv', FreshIds, nextId <= nextId',
         \A s \in live' \ live : TypeOf(s) \in NumberedTypes => s[3] < nextId'
  PROVE  FreshIds'
<1> SUFFICES ASSUME NEW s \in live', s \in live, TypeOf(s) \in NumberedTypes PROVE s[3] < nextId'
  BY DEF FreshIds
<1>1. s[3] \in 0 .. MaxId - 1 /\ s[3] < nextId
  BY DEF TypeInv, TypeOK, FreshIds, Scopes, MapScopes, WorldScope, PlaneScope, RegionScope,
         CellScope, CivScope, NumberedTypes, GroupTypes, TypeOf
<1>2. nextId \in Nat /\ nextId' \in Nat
  BY DEF TypeInv, TypeOK
<1> QED BY <1>1, <1>2

\* Adding scopes, with their groups and owners, leaves the world one that can be saved.
LEMMA Growth ==
  ASSUME SaveInv, TypeInv', NEW new, Grows(new)
  PROVE  SaveInv'
<1> USE DEF SaveInv, Grows
<1>1. VisitScopes \subseteq live /\ VisitScopes' \subseteq Scopes
  BY VisitedLive DEF TypeInv, TypeOK
<1>2. \A s \in VisitScopes : parent'[s] = parent[s] /\ tags'[s] = tags[s]
  BY <1>1
<1>3. \A c \in Civs : children[c] \subseteq VisitScopes
  BY DEF VisitScopes, TypeInv, Held
<1>4. FreshIds'
  BY FreshGrows
<1>5. GroupsTyped'
  BY DEF GroupsTyped, GroupTyped
<1>6. LinksTyped'
  BY DEF LinksTyped, GroupTyped
<1>7. ChildrenParented'
  BY <1>2, <1>3 DEF ChildrenParented
<1>8. CitiesOwned' /\ Placed'
  BY DEF CitiesOwned, Placed
<1>9. CitiesRegistered'
  <2>1. ~worldSet' => registered' = {}
    BY DEF CitiesRegistered
  <2>2. ASSUME NEW s \in registered', TypeOf(s) = "CITY", worldSet'
        PROVE  s \in children'[parent'[s][2]]
    <3>1. s \in registered /\ s \in live
      BY <2>2 DEF TypeInv, TypeOK
    <3>2. s \in children[parent[s][2]]
      BY <2>2, <3>1 DEF CitiesRegistered, CitiesHeld
    <3>3. parent[s][2] \in Civs
      <4>1. PICK c \in civs : parent[s] = CivScope(c)
        BY <2>2, <3>1 DEF CitiesOwned
      <4> QED BY <4>1 DEF CivScope, TypeInv, TypeOK
    <3> QED BY <3>2, <3>3, <1>2, <1>3
  <2> QED BY <2>1, <2>2 DEF CitiesRegistered, CitiesHeld
<1>10. ReferencesStored'
  <2>1. \A t : Stored(t) => Stored(t)'
    BY DEF Stored
  <2>2. \A s \in live \ new : Referred(s)' = Referred(s)
    BY DEF Referred
  <2> QED BY <2>1, <2>2 DEF ReferencesStored
<1>11. IdsUnique'
  <2> SUFFICES ASSUME NEW s \in VisitScopes', NEW u \in VisitScopes', u # s, Id(u) = Id(s)
               PROVE  FALSE
    BY DEF IdsUnique, Collides
  <2>1. TypeOf(s) \in GroupTypes /\ TypeOf(u) \in GroupTypes
    BY <1>1, SharedId
  <2>2. s \in VisitScopes /\ u \in VisitScopes
    BY <2>1 DEF Collides
  <2> QED BY <2>2 DEF IdsUnique, Collides
<1>12. Acyclic(VisitScopes)'
  <2> SUFFICES ASSUME NEW T \in SUBSET {s \in VisitScopes' : TypeOf(s) \in GroupTypes}, T # {}
               PROVE  \E s \in T : \A t \in Referred(s)' : \A u \in T : Id(t) # Id(u)
    BY DEF Acyclic
  <2>1. CASE T \subseteq new
    BY <2>1
  <2>2. CASE ~(T \subseteq new)
    <3>1. T \ new \in SUBSET {s \in VisitScopes : TypeOf(s) \in GroupTypes} /\ T \ new # {}
      BY <2>2
    <3>2. PICK s \in T \ new : \A t \in Referred(s) : \A u \in T \ new : Id(t) # Id(u)
      BY <3>1 DEF Acyclic
    <3>3. s \in live \ new /\ Referred(s)' = Referred(s)
      BY <1>1, <3>1, <3>2 DEF Referred
    <3>4. ASSUME NEW t \in Referred(s), NEW u \in T \cap new, Id(t) = Id(u) PROVE FALSE
      <4>1. PICK v \in VisitScopes : Id(v) = Id(t)
        BY <3>3 DEF ReferencesStored, Stored
      <4>2. v = u
        BY <1>11, <3>4, <4>1 DEF IdsUnique, Collides
      <4> QED BY <3>4, <4>1, <4>2
    <3> QED BY <3>2, <3>3, <3>4
  <2> QED BY <2>1, <2>2
<1> QED BY <1>4, <1>5, <1>6, <1>7, <1>8, <1>9, <1>10, <1>11, <1>12

\* A scope the world visits is of the map, a civilization, a child or placed.
LEMMA VisitedKinds ==
  ASSUME SaveInv, NEW s \in VisitScopes, TypeOf(s) \in ChildTypes
  PROVE  \E c \in civs : s \in children[c] /\ parent[s] = CivScope(c)
                         /\ (TypeOf(s) # "CITY" => s[2] = c)
<1>1. s \notin MapScopes /\ \A c \in civs : s # CivScope(c)
  BY DEF MapScopes, WorldScope, PlaneScope, RegionScope, CellScope, CivScope, TypeOf,
         ChildTypes, ClassTypes, GroupTypes
<1>2. \A p \in Cells \X Slots : s # improvements[p] \/ improvements[p] = NoScope
  BY DEF SaveInv, Placed, ChildTypes, ClassTypes, GroupTypes
<1>3. PICK c \in civs : s \in children[c]
  BY <1>1, <1>2 DEF VisitScopes
<1>4. c \in Civs
  BY DEF SaveInv, TypeInv, TypeOK
<1> QED BY <1>3, <1>4 DEF SaveInv, ChildrenParented

\* What a civilization has in the map of a type is stored.
LEMMA ChildStored ==
  ASSUME TypeInv, ChildrenStored, NEW c \in civs, NEW s \in childByType[c]
  PROVE  Stored(s)
<1>1. c \in Civs
  BY DEF TypeInv, TypeOK
<1> QED BY <1>1 DEF ChildrenStored, Stored, VisitScopes

\* The missing groups are closed: a group that is needed exists or is among them.
LEMMA MissingAreClosed ==
  ASSUME NEW c, NEW t, NEW roots
  PROVE  LET missing == MissingGroups(c, t, roots)
         IN  /\ missing \subseteq Groups \ ExistingGroups(c, t)
             /\ \A g \in roots \cap Groups : g \in missing \/ g \in ExistingGroups(c, t)
             /\ \A g \in missing : \A h \in ruleset.inherits[g] \cap Groups :
                    h \in missing \/ h \in ExistingGroups(c, t)
  BY DEF MissingGroups

\* Linking to groups of one type creates groups of that type only.
LEMMA MissingAreTyped ==
  ASSUME ruleset \in RuleSets, NEW c, NEW t, NEW roots,
         \A g \in roots : ruleset.type[g] = t
  PROVE  \A g \in MissingGroups(c, t, roots) : ruleset.type[g] = t
<1> DEFINE Missing == Groups \ ExistingGroups(c, t)
           S == {g \in Missing : ruleset.type[g] = t}
<1>1. ValidReferences(ruleset)
  BY RuleSetsAssumption DEF ValidateGroups
<1>2. roots \cap Missing \subseteq S
  OBVIOUS
<1>3. \A g \in S : ruleset.inherits[g] \cap Missing \subseteq S
  BY <1>1 DEF ValidReferences
<1> QED BY <1>2, <1>3 DEF MissingGroups

\* The groups of a class have the type its links need.
LEMMA ClassGroupsTyped ==
  ASSUME ruleset \in RuleSets, NEW s,
         s \in ({"IMPROVEMENT_CLASS"} \X Civs \X ImprovementClasses)
               \cup ({"JOB_CLASS"} \X Civs \X JobClasses)
  PROVE  /\ ruleset.groups[s[3]] \subseteq Groups
         /\ \A g \in ruleset.groups[s[3]] : ruleset.type[g] = GroupTypeOf(TypeOf(s))
<1>1. ruleset \in RuleSetType /\ ValidReferences(ruleset)
  BY RuleSetsAssumption DEF ValidateGroups
<1> QED BY <1>1 DEF RuleSetType, ValidReferences, GroupTypeOf, TypeOf, Classes

\* The groups in D, all of type t and missing from civilization c, together with those
\* that exist hold all they inherit from.
Creatable(c, t, D) ==
    /\ ruleset \in RuleSets /\ c \in civs /\ t \in GroupTypes
    /\ D \subseteq Groups \ ExistingGroups(c, t)
    /\ \A g \in D : /\ ruleset.type[g] = t
                    /\ ruleset.inherits[g] \subseteq D \cup ExistingGroups(c, t)

\* What the scopes of such groups bring along.
LEMMA NewGroups ==
  ASSUME SaveInv, NEW c, NEW t, NEW D, Creatable(c, t, D)
  PROVE  LET G == {GroupScope(t, c, g) : g \in D}
         IN  /\ G \cap VisitScopes = {}
             /\ \A n \in G : n \notin childByType[c] /\ GroupTyped(n)
             /\ \A n \in G : \A u \in LinksOf(n) :
                    TypeOf(u) = t /\ GroupTyped(u) /\ (u \in G \/ u \in childByType[c])
             /\ \A T \in SUBSET G :
                    T # {} => \E n \in T : \A u \in LinksOf(n) : \A w \in T : Id(u) # Id(w)
<1> DEFINE G == {GroupScope(t, c, g) : g \in D}
<1>1. /\ ruleset \in RuleSets /\ c \in civs /\ c \in Civs /\ t \in GroupTypes /\ t \notin ClassTypes
      /\ ValidReferences(ruleset) /\ ValidGraph(ruleset) /\ D \subseteq Groups
  BY RuleSetsAssumption
  DEF Creatable, SaveInv, TypeInv, TypeOK, ValidateGroups, GroupTypes, ClassTypes
<1>2. ASSUME NEW g \in D
      PROVE  LET n == GroupScope(t, c, g)
             IN  /\ TypeOf(n) = t /\ n[2] = c /\ n[3] = g /\ Id(n) = <<"GROUP", c, g>>
                 /\ n \notin childByType[c] /\ GroupTyped(n)
                 /\ LinksOf(n) = {GroupScope(t, c, h) : h \in ruleset.inherits[g]}
  <2> DEFINE n == GroupScope(t, c, g)
  <2>1. TypeOf(n) = t /\ n[2] = c /\ n[3] = g
    BY DEF GroupScope, TypeOf
  <2>2. n \notin childByType[c] /\ ruleset.type[g] = t
    BY DEF Creatable, ExistingGroups, HasChildScope
  <2> HIDE DEF n
  <2>3. GroupTyped(n)
    BY <1>1, <2>1, <2>2 DEF GroupTyped
  <2>4. Id(n) = <<"GROUP", c, g>>
    BY <1>1, <2>1 DEF Id
  <2>5. LinksOf(n) = {GroupScope(t, c, h) : h \in ruleset.inherits[g]}
    BY <1>1, <2>1, Zenon DEF LinksOf
  <2> QED BY <2>1, <2>2, <2>3, <2>4, <2>5 DEF n
<1>3. G \cap VisitScopes = {}
  <2> SUFFICES ASSUME NEW g \in D, GroupScope(t, c, g) \in VisitScopes PROVE FALSE
    OBVIOUS
  <2> DEFINE n == GroupScope(t, c, g)
  <2>1. TypeOf(n) \in ChildTypes /\ TypeOf(n) # "CITY" /\ n[2] = c
    BY <1>1, <1>2 DEF ChildTypes, GroupTypes
  <2>2. n \in children[c]
    BY <2>1, VisitedKinds
  <2> QED BY <1>1, <1>2, <2>2 DEF SaveInv, ChildrenStored
<1>4. ASSUME NEW g \in D, NEW u \in LinksOf(GroupScope(t, c, g))
      PROVE  TypeOf(u) = t /\ GroupTyped(u) /\ (u \in G \/ u \in childByType[c])
  <2>1. PICK h \in ruleset.inherits[g] : u = GroupScope(t, c, h)
    BY <1>2, <1>4
  <2>2. TypeOf(u) = t /\ u[3] = h
    BY <2>1 DEF TypeOf, GroupScope
  <2>3. ruleset.type[h] = t
    BY <1>1, <2>1 DEF Creatable, ValidReferences
  <2>4. h \in D \/ u \in childByType[c]
    BY <2>1 DEF Creatable, ExistingGroups, HasChildScope
  <2> QED BY <1>1, <2>1, <2>2, <2>3, <2>4 DEF GroupTyped
<1>5. ASSUME NEW T \in SUBSET G, T # {}
      PROVE  \E n \in T : \A u \in LinksOf(n) : \A w \in T : Id(u) # Id(w)
  <2> DEFINE E == {g \in D : GroupScope(t, c, g) \in T}
  <2>1. E \in SUBSET Groups /\ E # {}
    BY <1>1, <1>5
  <2>2. PICK g \in E : ruleset.inherits[g] \cap E = {}
    BY <1>1, <2>1 DEF ValidGraph
  <2>3. ASSUME NEW u \in LinksOf(GroupScope(t, c, g)), NEW w \in T, Id(u) = Id(w) PROVE FALSE
    <3>1. PICK h \in ruleset.inherits[g] : u = GroupScope(t, c, h)
      BY <1>2, <2>2, <2>3
    <3>2. PICK k \in D : w = GroupScope(t, c, k)
      BY <1>5, <2>3
    <3>3. Id(u) = <<"GROUP", c, h>>
      BY <1>1, <3>1 DEF GroupScope, Id, TypeOf
    <3>4. h = k
      BY <1>2, <2>3, <3>2, <3>3
    <3> QED BY <2>2, <2>3, <3>1, <3>2, <3>4
  <2> QED BY <2>2, <2>3
<1> QED BY SMTT(30), <1>2, <1>3, <1>4, <1>5

\* A new group that collides with no child of its civilization collides with nothing
\* that is visited.
LEMMA GroupsApart ==
  ASSUME SaveInv, NEW c \in civs, NEW t \in GroupTypes, NEW g \in Groups,
         ~Collides(GroupScope(t, c, g), children[c])
  PROVE  ~Collides(GroupScope(t, c, g), VisitScopes)
<1> DEFINE n == GroupScope(t, c, g)
<1> SUFFICES ASSUME NEW u \in VisitScopes, u # n, Id(u) = Id(n) PROVE FALSE
  BY DEF Collides
<1>1. c \in Civs /\ n \in Scopes /\ u \in Scopes /\ n[2] = c
  BY ScopeNames, VisitedLive DEF SaveInv, TypeInv, TypeOK, GroupScope
<1>2. TypeOf(u) \in GroupTypes /\ u[2] = c
  BY <1>1, SharedId
<1>3. TypeOf(u) \in ChildTypes /\ TypeOf(u) # "CITY"
  BY <1>2 DEF ChildTypes, GroupTypes
<1>4. u \in children[c]
  BY <1>2, <1>3, VisitedKinds
<1> QED BY <1>4 DEF Collides

\* A class scope and the groups it needs come to life; so does the improvement or
\* job that asked for it.
LEMMA CreateClassPreserves ==
  ASSUME SaveInv, TypeInv', worldSet, NEW c \in civs, NEW s,
         s \in ({"IMPROVEMENT_CLASS"} \X {c} \X ImprovementClasses)
               \cup ({"JOB_CLASS"} \X {c} \X JobClasses),
         ~HasChildScope(c, s),
         NEW type \in {"IMPROVEMENT", "JOB"}, NEW resultTags, GetNextId,
         \A t \in resultTags : /\ t = s \/ t \in VisitScopes
                               /\ TypeOf(t) \notin GroupTypes
                               /\ CanTagLinkScopes(type, TypeOf(t)),
         CreateClassAnd(c, s, NumberedScope(type, nextId), resultTags),
         UNCHANGED <<civs, improvements, worldSet, ruleset>>
  PROVE  SaveInv'
<1> DEFINE t == GroupTypeOf(TypeOf(s))
           missing == MissingGroups(c, t, ruleset.groups[s[3]])
           groups == {GroupScope(t, c, g) : g \in missing}
           result == NumberedScope(type, nextId)
           new == groups \cup {s, result}
<1>1. /\ ruleset \in RuleSets /\ c \in Civs /\ nextId \in Nat /\ nextId' = nextId + 1
      /\ ruleset \in RuleSetType
  BY RuleSetsAssumption DEF CreateClassAnd, SaveInv, TypeInv, TypeOK, GetNextId
<1>2. /\ TypeOf(s) \in ClassTypes /\ t \in GroupTypes /\ s[2] = c /\ TypeOf(result) = type
      /\ result[3] = nextId
      /\ \A n \in groups : TypeOf(n) = t /\ n[2] = c
      /\ \A n \in groups \cup {s} : n # result
  BY DEF ClassTypes, GroupTypes, GroupTypeOf, TypeOf, GroupScope, NumberedScope
<1>3. Creatable(c, t, missing)
  <2>1. \A g \in missing : ruleset.inherits[g] \subseteq Groups
    BY <1>1 DEF MissingGroups, RuleSetType
  <2> QED BY <1>1, <1>2, <2>1, MissingAreClosed, ClassGroupsTyped, MissingAreTyped DEF Creatable
<1>4. /\ groups \cap VisitScopes = {}
      /\ \A n \in groups : GroupTyped(n)
      /\ \A n \in groups : \A u \in LinksOf(n) :
             TypeOf(u) = t /\ GroupTyped(u) /\ (u \in groups \/ u \in childByType[c])
      /\ \A T \in SUBSET groups :
             T # {} => \E n \in T : \A u \in LinksOf(n) : \A w \in T : Id(u) # Id(w)
  BY SMTT(30), <1>3, NewGroups
<1>5. \A u \in LinksOf(s) : TypeOf(u) = t /\ GroupTyped(u) /\ (u \in groups \/ u \in childByType[c])
  <2> SUFFICES ASSUME NEW u \in LinksOf(s)
               PROVE  TypeOf(u) = t /\ GroupTyped(u) /\ (u \in groups \/ u \in childByType[c])
    OBVIOUS
  <2>1. PICK g \in ruleset.groups[s[3]] : u = GroupScope(t, c, g)
    BY <1>2 DEF LinksOf
  <2>2. TypeOf(u) = t /\ u[3] = g
    BY <2>1 DEF TypeOf, GroupScope
  <2>3. ruleset.type[g] = t /\ g \in Groups
    BY <1>1, <2>1, ClassGroupsTyped
  <2>4. g \in missing \/ u \in childByType[c]
    BY <2>1, <2>3, MissingAreClosed DEF ExistingGroups, HasChildScope
  <2> QED BY <1>1, <2>1, <2>2, <2>3, <2>4 DEF GroupTyped
<1>6. /\ live' = live \cup new
      /\ childByType' = [childByType EXCEPT ![c] = @ \cup (groups \cup {s})]
      /\ children' = [children EXCEPT ![c] = @ \cup (groups \cup {s})]
      /\ registered' = registered \cup (groups \cup {s})
      /\ \A n \in groups \cup {s} : ~Collides(n, children[c])
      /\ \A n \in live \ new : parent'[n] = parent[n] /\ tags'[n] = tags[n]
      /\ \A n \in groups \cup {s} : parent'[n] = CivScope(c) /\ tags'[n] = LinksOf(n)
      /\ parent'[result] = NoScope /\ tags'[result] = resultTags
  BY <1>2 DEF CreateClassAnd, NewScopes, AddChildScopes, Collides
<1>7. result \notin VisitScopes
  <2>1. TypeOf(result) \in NumberedTypes /\ ~(result[3] < nextId)
    BY <1>1, <1>2 DEF NumberedTypes
  <2> QED BY <2>1, VisitedLive DEF SaveInv, FreshIds
<1>8. s \notin VisitScopes
  <2>1. ASSUME s \in VisitScopes PROVE FALSE
    <3>1. TypeOf(s) \in ChildTypes /\ TypeOf(s) # "CITY"
      BY <1>2 DEF ChildTypes, ClassTypes
    <3>2. s \in children[c]
      BY <1>2, <2>1, <3>1, VisitedKinds
    <3> QED BY <1>1, <3>2 DEF SaveInv, ChildrenStored, HasChildScope
  <2> QED BY <2>1
<1>9. /\ VisitScopes \subseteq VisitScopes' /\ VisitScopes' \subseteq VisitScopes \cup new
      /\ groups \cup {s} \subseteq VisitScopes' /\ CivScope(c) \in VisitScopes'
  <2>1. /\ civs' = civs /\ improvements' = improvements /\ c \in civs /\ civs \subseteq Civs
        /\ children \in [Civs -> SUBSET Scopes]
    BY DEF SaveInv, TypeInv, TypeOK
  <2>2. \A d \in civs : children'[d] = IF d = c THEN children[d] \cup (groups \cup {s})
                                               ELSE children[d]
    BY <1>6, <2>1
  <2>3. groups \cup {s} \subseteq new
    OBVIOUS
  <2>4. /\ \A n : (\E d \in civs : n \in children[d]) => \E d \in civs : n \in children'[d]
        /\ \A n : (\E d \in civs : n \in children'[d]) =>
                  n \in new \/ \E d \in civs : n \in children[d]
        /\ \A n \in groups \cup {s} : \E d \in civs : n \in children'[d]
    <3> HIDE DEF groups, new, result, missing, t
    <3>1. ASSUME NEW n, NEW d \in civs, n \in children[d]
          PROVE  n \in children'[d]
      BY <2>2, <3>1
    <3>2. ASSUME NEW n, NEW d \in civs, n \in children'[d]
          PROVE  n \in new \/ n \in children[d]
      BY <2>2, <2>3, <3>2
    <3>3. ASSUME NEW n \in groups \cup {s} PROVE n \in children'[c]
      BY <2>1, <2>2, <3>3
    <3> QED BY <2>1, <3>1, <3>2, <3>3
  <2>5. CivScope(c) \in VisitScopes'
    BY <2>1 DEF VisitScopes
  <2>6. VisitScopes \subseteq VisitScopes'
    BY <2>1, <2>4 DEF VisitScopes
  <2>7. VisitScopes' \subseteq VisitScopes \cup new
    BY <2>1, <2>4 DEF VisitScopes
  <2>8. groups \cup {s} \subseteq VisitScopes'
    BY <2>1, <2>4 DEF VisitScopes
  <2> QED BY <2>5, <2>6, <2>7, <2>8
<1>10. ChildrenStored'
  <2> SUFFICES ASSUME NEW d \in Civs
               PROVE  /\ children'[d] \subseteq childByType'[d]
                      /\ \A n \in childByType'[d] : \E u \in children'[d] : Id(u) = Id(n)
    BY DEF ChildrenStored
  <2>1. /\ children[d] \subseteq childByType[d]
        /\ \A n \in childByType[d] : \E u \in children[d] : Id(u) = Id(n)
    BY DEF SaveInv, ChildrenStored
  <2>2. /\ childByType'[d] = IF d = c THEN childByType[d] \cup (groups \cup {s}) ELSE childByType[d]
        /\ children'[d] = IF d = c THEN children[d] \cup (groups \cup {s}) ELSE children[d]
    BY <1>6 DEF SaveInv, TypeInv, TypeOK
  <2> HIDE DEF groups
  <2> QED BY <2>1, <2>2
<1>11. \A u : u \in groups \cup {s} \/ u \in childByType[c] \/ u = CivScope(c) => Stored(u)'
  <2>1. \A u \in childByType[c] : Stored(u)'
    <3>1. \A u \in childByType[c] : u \in childByType'[c]
      BY <1>1, <1>6 DEF SaveInv, TypeInv, TypeOK
    <3> QED BY <1>1, <1>10, <3>1 DEF ChildrenStored, Stored, VisitScopes
  <2> QED BY <1>9, <2>1 DEF Stored
<1>12. TypeOf(CivScope(c)) = "CIV" /\ CivScope(c) # NoScope
  BY <1>1, ScopeNames, SentinelAssumption DEF CivScope, TypeOf
<1>13. \A n \in groups \cup {s} : /\ CanLinkScopes(TypeOf(n), "CIV") /\ TypeOf(n) \in ChildTypes
                                  /\ TypeOf(n) # "CITY" /\ n[2] = c
                                  /\ TypeOf(n) \notin NumberedTypes
                                  /\ CanTagLinkScopes(TypeOf(n), t)
  BY <1>2 DEF CanLinkScopes, CanTagLinkScopes, ParentTable, TagTable, ChildTypes, ClassTypes,
         GroupTypes, NumberedTypes, GroupTypeOf
<1>14. TypeOf(s) \notin GroupTypes /\ TypeOf(result) \notin GroupTypes
  BY <1>2 DEF GroupTypes, ClassTypes
<1>15. \A n \in groups : ~Collides(n, VisitScopes)
  BY <1>2, <1>3, <1>6, GroupsApart DEF Creatable
<1> HIDE DEF groups, result, missing, t
<1>16. new \cap VisitScopes = {}
  BY <1>4, <1>7, <1>8
<1>17. \A n \in new : TypeOf(n) \in NumberedTypes => n[3] < nextId'
  BY <1>1, <1>2, <1>13
<1>18. \A n \in new : TypeOf(n) # "CITY" /\ GroupTyped(n)
  BY <1>2, <1>4, <1>13, <1>14 DEF GroupTyped
<1>19. \A n \in new : parent'[n] # NoScope => CanLinkScopes(TypeOf(n), TypeOf(parent'[n]))
  BY <1>6, <1>12, <1>13
<1>20. \A n \in new : \A u \in tags'[n] : CanTagLinkScopes(TypeOf(n), TypeOf(u)) /\ GroupTyped(u)
  <2>1. \A n \in groups \cup {s} : \A u \in tags'[n] :
            CanTagLinkScopes(TypeOf(n), TypeOf(u)) /\ GroupTyped(u)
    BY <1>4, <1>5, <1>6, <1>13
  <2>2. \A u \in resultTags : CanTagLinkScopes(type, TypeOf(u)) /\ GroupTyped(u)
    BY DEF GroupTyped
  <2> QED BY <1>2, <1>6, <2>1, <2>2
<1>21. \A n \in new : \A u \in Referred(n)' : Stored(u)'
  <2>1. \A n \in groups \cup {s} : Referred(n)' \subseteq LinksOf(n) \cup {CivScope(c)}
    BY <1>6 DEF Referred
  <2>2. \A n : n = result => Referred(n)' = resultTags
    BY <1>6 DEF Referred
  <2>3. \A u \in VisitScopes : Stored(u)'
    BY <1>9 DEF Stored
  <2> QED BY <1>4, <1>5, <1>11, <2>1, <2>2, <2>3
<1>22. ASSUME NEW n \in new \cap VisitScopes', TypeOf(n) \in GroupTypes
       PROVE  ~Collides(n, VisitScopes')
  <2>1. n \in groups
    BY <1>14, <1>22
  <2> SUFFICES ASSUME NEW u \in VisitScopes', u # n, Id(u) = Id(n) PROVE FALSE
    BY DEF Collides
  <2>2. TypeOf(u) \in GroupTypes /\ TypeOf(u) # TypeOf(n)
    <3>1. n \in Scopes /\ u \in Scopes
      BY <1>6, <1>9, <1>22, VisitedLive DEF SaveInv, TypeInv, TypeOK
    <3> QED BY <1>22, <3>1, SharedId
  <2>3. u \notin new
    BY <1>2, <1>14, <2>1, <2>2
  <2> QED BY <1>9, <1>15, <2>1, <2>3 DEF Collides
<1>23. /\ \A d \in Civs : children[d] \subseteq children'[d]
       /\ \A d \in Civs : \A n \in children'[d] \ children[d] :
             /\ n \in new
             /\ TypeOf(n) \in ChildTypes
             /\ parent'[n] = CivScope(d)
             /\ TypeOf(n) # "CITY" => n[2] = d
  <2>1. /\ \A d \in Civs : children[d] \subseteq children'[d]
        /\ \A d \in Civs : \A n \in children'[d] \ children[d] : d = c /\ n \in groups \cup {s}
    BY <1>1, <1>6 DEF SaveInv, TypeInv, TypeOK
  <2> QED BY <1>6, <1>13, <2>1
<1>24. \A n \in registered' \ registered : worldSet /\ TypeOf(n) # "CITY"
  BY <1>6, <1>13
<1>25. \A T \in SUBSET {n \in new : TypeOf(n) \in GroupTypes} :
          T # {} => \E n \in T : \A u \in Referred(n)' : \A w \in T : Id(u) # Id(w)
  <2> SUFFICES ASSUME NEW T \in SUBSET groups, T # {}
               PROVE  \E n \in T : \A u \in Referred(n)' : \A w \in T : Id(u) # Id(w)
    BY <1>14
  <2>1. PICK n \in T : \A u \in LinksOf(n) : \A w \in T : Id(u) # Id(w)
    BY <1>4
  <2>2. Referred(n)' \subseteq LinksOf(n) \cup {CivScope(c)}
    BY <1>6 DEF Referred
  <2>3. \A w \in T : Id(CivScope(c)) # Id(w)
    BY <1>2 DEF Id, CivScope, TypeOf, GroupTypes
  <2> QED BY <2>1, <2>2, <2>3
<1>26. nextId <= nextId'
  BY <1>1
<1> HIDE DEF new
<1>27. Grows(new)
  BY <1>6, <1>9, <1>10, <1>16, <1>17, <1>18, <1>19, <1>20, <1>21, <1>22, <1>23, <1>24, <1>25, <1>26
  DEF Grows
<1> QED BY <1>27, Growth

\* What a failed creation does: the groups in done come to life and are added, and
\* group g, whose id is taken, comes to life and is in the map of its type only.
HalfCreates(c, t, done, g) ==
    LET completed == {GroupScope(t, c, d) : d \in done}
        failed == GroupScope(t, c, g)
        new == completed \cup {failed}
    IN  /\ \A d \in done \cup {g} : ruleset.inherits[d] \subseteq done \cup ExistingGroups(c, t)
        /\ \A d \in done : ~Collides(GroupScope(t, c, d), children[c])
        /\ Collides(failed, children[c])
        /\ childByType' = [childByType EXCEPT ![c] = @ \cup new]
        /\ children' = [children EXCEPT ![c] = @ \cup completed]
        /\ registered' = registered \cup completed
        /\ live' = live \cup new
        /\ \A n \in live \ new : parent'[n] = parent[n] /\ tags'[n] = tags[n]
        /\ \A n \in new : parent'[n] = CivScope(c) /\ tags'[n] = LinksOf(n)

\* A creation that fails has made some of the missing groups, and half of one.
LEMMA FailureHalfCreates ==
  ASSUME NEW c, NEW s, FailToCreateClass(c, s)
  PROVE  LET t == GroupTypeOf(TypeOf(s))
             missing == MissingGroups(c, t, ruleset.groups[s[3]])
         IN  \E g \in missing, done \in SUBSET missing : HalfCreates(c, t, done, g)
<1> DEFINE t == GroupTypeOf(TypeOf(s))
           missing == MissingGroups(c, t, ruleset.groups[s[3]])
           Fails(g, done) ==
               LET completed == {GroupScope(t, c, d) : d \in done}
                   failed == GroupScope(t, c, g)
               IN  /\ \A d \in done \cup {g} : ruleset.inherits[d] \subseteq done
                          \cup ExistingGroups(c, t)
                   /\ \A d \in completed : ~Collides(d, children[c] \cup registered)
                   /\ Collides(failed, children[c])
                   /\ childByType' = [childByType EXCEPT ![c] = @ \cup completed \cup {failed}]
                   /\ children' = [children EXCEPT ![c] = @ \cup completed]
                   /\ registered' = registered \cup completed
                   /\ NewScopes(completed \cup {failed}, LAMBDA n : CivScope(c),
                          LAMBDA n : LinksOf(n))
<1>1. \E g \in missing : \E done \in SUBSET (missing \ {g}) : Fails(g, done)
  BY DEF FailToCreateClass
<1>2. ASSUME NEW g, NEW done, Fails(g, done) PROVE HalfCreates(c, t, done, g)
  <2> DEFINE completed == {GroupScope(t, c, d) : d \in done}
             failed == GroupScope(t, c, g)
             new == completed \cup {failed}
  <2>1. [childByType EXCEPT ![c] = @ \cup completed \cup {failed}]
             = [childByType EXCEPT ![c] = @ \cup new]
    <3>1. childByType[c] \cup completed \cup {failed} = childByType[c] \cup new
      OBVIOUS
    <3> QED BY <3>1
  <2> QED BY <1>2, <2>1 DEF HalfCreates, NewScopes, Collides
<1> QED BY <1>1, <1>2

\* Some of the groups come to life and are added, and one more whose id is taken.
LEMMA FailurePreserves ==
  ASSUME SaveInv, TypeInv', worldSet, NEW c \in civs, NEW s,
         s \in ({"IMPROVEMENT_CLASS"} \X {c} \X ImprovementClasses)
               \cup ({"JOB_CLASS"} \X {c} \X JobClasses),
         GetNextId \/ UNCHANGED nextId,
         FailToCreateClass(c, s),
         UNCHANGED <<civs, improvements, worldSet, ruleset>>
  PROVE  SaveInv'
<1> DEFINE t == GroupTypeOf(TypeOf(s))
           missing == MissingGroups(c, t, ruleset.groups[s[3]])
<1>1. /\ ruleset \in RuleSets /\ c \in Civs /\ t \in GroupTypes
      /\ nextId <= nextId'
  BY DEF FailToCreateClass, SaveInv, TypeInv, TypeOK, GetNextId, GroupTypeOf, GroupTypes
<1>2. PICK g \in missing, done \in SUBSET missing : HalfCreates(c, t, done, g)
  BY FailureHalfCreates
<1> DEFINE D == done \cup {g}
           completed == {GroupScope(t, c, d) : d \in done}
           failed == GroupScope(t, c, g)
           new == {GroupScope(t, c, d) : d \in D}
<1>3. new = completed \cup {failed}
  OBVIOUS
<1>4. Creatable(c, t, D)
  <2>1. D \subseteq missing
    OBVIOUS
  <2> HIDE DEF D
  <2>2. \A d \in D : ruleset.inherits[d] \subseteq D \cup ExistingGroups(c, t)
    BY <1>2 DEF HalfCreates, D
  <2> QED BY <1>1, <2>1, <2>2, MissingAreClosed, ClassGroupsTyped, MissingAreTyped DEF Creatable
<1>5. /\ new \cap VisitScopes = {}
      /\ \A n \in new : GroupTyped(n)
      /\ \A n \in new : \A u \in LinksOf(n) :
             TypeOf(u) = t /\ GroupTyped(u) /\ (u \in new \/ u \in childByType[c])
      /\ \A T \in SUBSET new :
             T # {} => \E n \in T : \A u \in LinksOf(n) : \A w \in T : Id(u) # Id(w)
  <2> HIDE DEF D, t
  <2> QED BY SMTT(30), <1>4, NewGroups
<1>6. /\ live' = live \cup new
      /\ childByType' = [childByType EXCEPT ![c] = @ \cup new]
      /\ children' = [children EXCEPT ![c] = @ \cup completed]
      /\ registered' = registered \cup completed
      /\ \A n \in live \ new : parent'[n] = parent[n] /\ tags'[n] = tags[n]
      /\ \A n \in new : parent'[n] = CivScope(c) /\ tags'[n] = LinksOf(n)
  BY <1>2, <1>3 DEF HalfCreates
<1>7. \A n \in new : TypeOf(n) = t /\ n[2] = c
  BY DEF GroupScope, TypeOf
<1>8. \A n \in completed : ~Collides(n, VisitScopes)
  <2>1. \A d \in done : d \in Groups /\ ~Collides(GroupScope(t, c, d), children[c])
    BY <1>2, <1>4 DEF Creatable, HalfCreates
  <2> QED BY <1>1, <2>1, GroupsApart
<1>9. \E u \in children[c] : Id(u) = Id(failed)
  BY <1>2 DEF HalfCreates, Collides
<1> HIDE DEF completed, failed, new, D, missing, t
<1>10. /\ VisitScopes \subseteq VisitScopes' /\ VisitScopes' \subseteq VisitScopes \cup completed
       /\ CivScope(c) \in VisitScopes'
  BY <1>1, <1>6 DEF VisitScopes, SaveInv, TypeInv, TypeOK
<1>11. ChildrenStored'
  <2> SUFFICES ASSUME NEW d \in Civs
               PROVE  /\ children'[d] \subseteq childByType'[d]
                      /\ \A n \in childByType'[d] : \E u \in children'[d] : Id(u) = Id(n)
    BY DEF ChildrenStored
  <2>1. /\ children[d] \subseteq childByType[d]
        /\ \A n \in childByType[d] : \E u \in children[d] : Id(u) = Id(n)
    BY DEF SaveInv, ChildrenStored
  <2>2. /\ childByType'[d] = IF d = c THEN childByType[d] \cup new ELSE childByType[d]
        /\ children'[d] = IF d = c THEN children[d] \cup completed ELSE children[d]
    BY <1>6 DEF SaveInv, TypeInv, TypeOK
  <2> QED BY <1>3, <1>9, <2>1, <2>2
<1>12. \A u : u \in new \/ u \in childByType[c] \/ u = CivScope(c) => Stored(u)'
  <2>1. \A u \in new \cup childByType[c] : u \in childByType'[c]
    BY <1>1, <1>6 DEF SaveInv, TypeInv, TypeOK
  <2> QED BY <1>1, <1>10, <1>11, <2>1 DEF ChildrenStored, Stored, VisitScopes
<1>13. TypeOf(CivScope(c)) = "CIV"
  BY DEF CivScope, TypeOf
<1>14. \A n \in new : /\ CanLinkScopes(TypeOf(n), "CIV") /\ TypeOf(n) \in ChildTypes
                      /\ TypeOf(n) # "CITY" /\ n[2] = c
                      /\ TypeOf(n) \notin NumberedTypes
                      /\ CanTagLinkScopes(TypeOf(n), t)
  BY <1>1, <1>7 DEF CanLinkScopes, CanTagLinkScopes, ParentTable, TagTable, ChildTypes, GroupTypes,
                    NumberedTypes
<1>15. \A n \in new : \A u \in Referred(n)' : u \in LinksOf(n) \/ u = CivScope(c)
  BY <1>6 DEF Referred
<1>16. ASSUME NEW n \in new \cap VisitScopes' PROVE ~Collides(n, VisitScopes')
  <2>1. n \in completed
    BY <1>5, <1>10, <1>16
  <2> SUFFICES ASSUME NEW u \in VisitScopes', u # n, Id(u) = Id(n) PROVE FALSE
    BY DEF Collides
  <2>2. TypeOf(u) # TypeOf(n)
    <3>1. n \in Scopes /\ u \in Scopes
      BY <1>3, <1>6, <1>10, <1>16, VisitedLive DEF SaveInv, TypeInv, TypeOK
    <3> QED BY <3>1, SharedId
  <2>3. u \notin new
    BY <1>7, <1>16, <2>2
  <2> QED BY <1>3, <1>8, <1>10, <2>1, <2>3 DEF Collides
<1>17. /\ \A d \in Civs : children[d] \subseteq children'[d]
       /\ \A d \in Civs : \A n \in children'[d] \ children[d] :
             /\ n \in new
             /\ TypeOf(n) \in ChildTypes
             /\ parent'[n] = CivScope(d)
             /\ TypeOf(n) # "CITY" => n[2] = d
  <2>1. /\ \A d \in Civs : children[d] \subseteq children'[d]
        /\ \A d \in Civs : \A n \in children'[d] \ children[d] : d = c /\ n \in completed
    BY <1>1, <1>6 DEF SaveInv, TypeInv, TypeOK
  <2> QED BY <1>3, <1>6, <1>14, <2>1
<1>18. \A T \in SUBSET new :
          T # {} => \E n \in T : \A u \in Referred(n)' : \A w \in T : Id(u) # Id(w)
  <2> SUFFICES ASSUME NEW T \in SUBSET new, T # {}
               PROVE  \E n \in T : \A u \in Referred(n)' : \A w \in T : Id(u) # Id(w)
    OBVIOUS
  <2>1. PICK n \in T : \A u \in LinksOf(n) : \A w \in T : Id(u) # Id(w)
    BY <1>5
  <2>2. \A w \in T : Id(CivScope(c)) # Id(w)
    BY <1>1, <1>7 DEF Id, CivScope, TypeOf, GroupTypes
  <2> QED BY <1>15, <2>1, <2>2
<1>19. /\ VisitScopes' \subseteq VisitScopes \cup new
       /\ \A n \in registered' \ registered : worldSet /\ TypeOf(n) # "CITY"
  BY <1>3, <1>6, <1>10, <1>14
<1>20. \A n \in new : \A u \in tags'[n] : CanTagLinkScopes(TypeOf(n), TypeOf(u)) /\ GroupTyped(u)
  BY <1>5, <1>6, <1>14
<1>21. \A n \in new : \A u \in Referred(n)' : Stored(u)'
  BY <1>5, <1>12, <1>15
<1>22. Grows(new)
  BY SMTT(30), <1>1, <1>5, <1>6, <1>10, <1>11, <1>13, <1>14,
     <1>16, <1>17, <1>18, <1>19, <1>20, <1>21
  DEF Grows
<1> QED BY <1>22, Growth

-----------------------------------------------------------------------------
(* The other steps.                                                        *)

\* Registering scopes changes nothing that is saved.
LEMMA RegistrationPreserves ==
  ASSUME SaveInv, TypeInv', UNCHANGED <<live, parent, tags, nextId, world>>,
         CitiesRegistered'
  PROVE  SaveInv'
<1>1. VisitScopes' = VisitScopes /\ \A s : Referred(s)' = Referred(s)
  BY DEF VisitScopes, Referred, world
<1>2. Acyclic(VisitScopes)' /\ IdsUnique' /\ ReferencesStored'
  BY <1>1 DEF SaveInv, Acyclic, IdsUnique, ReferencesStored, Stored
<1> QED
  BY <1>2 DEF SaveInv, world, FreshIds, GroupsTyped, LinksTyped, ChildrenParented, ChildrenStored,
     CitiesOwned, Placed

\* SetWorld leaves the world one that can be saved.
LEMMA SetWorldPreserves ==
  ASSUME SaveInv, TypeInv', SetWorld
  PROVE  SaveInv'
<1>1. UNCHANGED <<live, parent, tags, nextId, world>> /\ worldSet'
  BY DEF SetWorld
<1>2. registered' \subseteq VisitScopes
  BY DEF SetWorld, SaveInv, CitiesRegistered
<1>3. ASSUME NEW s \in registered', TypeOf(s) = "CITY" PROVE s \in children'[parent'[s][2]]
  <2>1. s \in VisitScopes /\ TypeOf(s) \in ChildTypes
    BY <1>2, <1>3 DEF ChildTypes
  <2>2. PICK c \in civs : s \in children[c] /\ parent[s] = CivScope(c)
    BY <2>1, VisitedKinds
  <2> QED BY <1>1, <2>2 DEF CivScope, world
<1>4. CitiesRegistered'
  BY <1>1, <1>3 DEF CitiesRegistered, CitiesHeld
<1> QED BY <1>1, <1>4, RegistrationPreserves

\* SetRuleSet leaves the world one that can be saved.
LEMMA SetRuleSetPreserves ==
  ASSUME SaveInv, TypeInv', NEW r \in RuleSets, SetRuleSet(r)
  PROVE  SaveInv'
<1>1. UNCHANGED <<live, parent, tags, nextId, world, worldSet, registered>>
  BY DEF SetRuleSet
<1>2. CitiesRegistered'
  BY <1>1 DEF SaveInv, CitiesRegistered, CitiesHeld, world
<1> QED BY <1>1, <1>2, RegistrationPreserves

\* A city becomes a child of its civilization in the step that registers it.
LEMMA AddScopePreserves ==
  ASSUME SaveInv, TypeInv', worldSet, NEW s \in live, AddScope(s)
  PROVE  SaveInv'
<1>1. CASE TypeOf(s) # "CITY"
  <2>1. UNCHANGED <<live, parent, tags, nextId, world, worldSet>>
            /\ registered' = registered \cup {s}
    BY <1>1 DEF AddScope, world
  <2>2. CitiesRegistered'
    BY <1>1, <2>1 DEF SaveInv, CitiesRegistered, CitiesHeld, world
  <2> QED BY <2>1, <2>2, RegistrationPreserves
<1>2. CASE TypeOf(s) = "CITY"
  <2>1. PICK c \in civs : parent[s] = CivScope(c)
    BY <1>2 DEF SaveInv, CitiesOwned
  <2>2. parent[s][2] = c /\ c \in Civs
    BY <2>1 DEF CivScope, SaveInv, TypeInv, TypeOK
  <2>3. /\ childByType' = [childByType EXCEPT ![c] = @ \cup {s}]
        /\ children' = [children EXCEPT ![c] = @ \cup {s}]
        /\ registered' = registered \cup {s}
        /\ UNCHANGED <<live, parent, tags, nextId, civs, improvements, worldSet>>
    BY <1>2, <2>1, <2>2 DEF AddScope
  <2>4. /\ \A d \in Civs : childByType'[d]
               = IF d = c THEN childByType[d] \cup {s} ELSE childByType[d]
        /\ \A d \in Civs : children'[d] = IF d = c THEN children[d] \cup {s} ELSE children[d]
    BY <2>3 DEF SaveInv, TypeInv, TypeOK
  <2>5. VisitScopes' = VisitScopes \cup {s}
    <3>1. \A d \in civs : children'[d] = IF d = c THEN children[d] \cup {s} ELSE children[d]
      BY <2>4 DEF SaveInv, TypeInv, TypeOK
    <3>2. c \in civs
      BY <2>1, <2>2 DEF CivScope
    <3>3. (UNION {children'[d] : d \in civs}) = (UNION {children[d] : d \in civs}) \cup {s}
      BY <3>1, <3>2
    <3> QED BY <2>3, <3>3 DEF VisitScopes
  <2>6. ChildrenParented' /\ ChildrenStored'
    <3>1. ChildrenParented'
      BY <1>2, <2>1, <2>3, <2>4 DEF SaveInv, ChildrenParented, ChildTypes
    <3>2. ChildrenStored'
      BY <2>4 DEF SaveInv, ChildrenStored
    <3> QED BY <3>1, <3>2
  <2>7. TypeOf(s) \notin GroupTypes /\ \A n : Referred(n)' = Referred(n)
    BY <1>2, <2>3 DEF GroupTypes, Referred
  <2>8. ReferencesStored'
    BY <2>3, <2>5, <2>7 DEF SaveInv, ReferencesStored, Stored
  <2>9. IdsUnique' /\ Acyclic(VisitScopes)'
    <3>1. \A n, u \in VisitScopes' : n # u /\ Id(n) = Id(u) => n # s /\ u # s
      <4>1. VisitScopes' \subseteq Scopes
        BY <2>5, VisitedLive DEF SaveInv, TypeInv, TypeOK
      <4> QED BY <2>7, <4>1, SharedId
    <3>2. {n \in VisitScopes' : TypeOf(n) \in GroupTypes}
              = {n \in VisitScopes : TypeOf(n) \in GroupTypes}
      BY <2>5, <2>7
    <3> QED BY <2>5, <2>7, <3>1, <3>2 DEF SaveInv, IdsUnique, Collides, Acyclic
  <2>10. CitiesRegistered'
    <3>1. ASSUME NEW n \in registered', TypeOf(n) = "CITY" PROVE n \in children'[parent'[n][2]]
      <4>1. CASE n = s
        BY <2>2, <2>3, <2>4, <4>1
      <4>2. CASE n \in registered
        <5>1. n \in children[parent[n][2]] /\ n \in live
          BY <3>1, <4>2 DEF SaveInv, CitiesRegistered, CitiesHeld, TypeInv, TypeOK
        <5>2. PICK d \in civs : parent[n] = CivScope(d)
          BY <3>1, <5>1 DEF SaveInv, CitiesOwned
        <5>3. d \in Civs /\ parent[n][2] = d
          BY <5>2 DEF CivScope, SaveInv, TypeInv, TypeOK
        <5> QED BY <2>3, <2>4, <5>1, <5>3
      <4> QED BY <2>3, <4>1, <4>2
    <3> QED BY <2>3, <3>1 DEF CitiesRegistered, CitiesHeld
  <2> QED
    BY <2>3, <2>6, <2>8, <2>9, <2>10
    DEF SaveInv, FreshIds, GroupsTyped, LinksTyped, CitiesOwned, Placed
<1> QED BY <1>1, <1>2

\* A scope that is its only new one, is no group and becomes nobody's child.
LEMMA OneScopePreserves ==
  ASSUME SaveInv, TypeInv', NEW s, s \notin VisitScopes, TypeOf(s) \notin GroupTypes,
         live' = live \cup {s},
         \A n \in live \ {s} : parent'[n] = parent[n] /\ tags'[n] = tags[n],
         civs \subseteq civs', VisitScopes' \subseteq VisitScopes \cup {s}, nextId <= nextId',
         UNCHANGED <<childByType, children, improvements, worldSet, registered>>,
         TypeOf(s) \in NumberedTypes => s[3] < nextId',
         \A t \in tags'[s] : /\ Stored(t)'
                             /\ TypeOf(t) \notin GroupTypes
                             /\ CanTagLinkScopes(TypeOf(s), TypeOf(t)),
         parent'[s] # NoScope => /\ parent'[s] \in VisitScopes'
                                 /\ CanLinkScopes(TypeOf(s), TypeOf(parent'[s])),
         TypeOf(s) = "CITY" => parent'[s] \in {CivScope(c) : c \in civs'}
  PROVE  SaveInv'
<1>1. VisitScopes \subseteq VisitScopes'
  BY DEF VisitScopes
<1>2. ChildrenStored'
  BY DEF SaveInv, ChildrenStored
<1>3. \A t \in Referred(s)' : Stored(t)'
  BY DEF Referred, Stored
<1>4. /\ GroupTyped(s)
      /\ \A t \in tags'[s] : GroupTyped(t)
  BY DEF GroupTyped
<1>5. \A T \in SUBSET {n \in {s} : TypeOf(n) \in GroupTypes} : T = {}
  OBVIOUS
<1>6. Grows({s})
  BY <1>1, <1>2, <1>3, <1>4, <1>5 DEF Grows
<1> QED BY <1>6, Growth

\* A numbered scope is new when its id is.
LEMMA NewNumber ==
  ASSUME SaveInv, NEW type \in NumberedTypes, GetNextId
  PROVE  LET s == NumberedScope(type, nextId)
         IN  /\ s \notin VisitScopes
             /\ TypeOf(s) = type
             /\ s[3] < nextId'
             /\ nextId <= nextId'
<1> DEFINE s == NumberedScope(type, nextId)
<1>1. TypeOf(s) = type /\ s[3] = nextId
  BY DEF NumberedScope, TypeOf
<1>2. nextId \in Nat /\ nextId' = nextId + 1
  BY DEF GetNextId, SaveInv, TypeInv, TypeOK
<1>3. s \notin live
  BY <1>1, <1>2 DEF SaveInv, FreshIds
<1> QED BY <1>1, <1>2, <1>3, VisitedLive DEF SaveInv

\* CreateCivilizationScope leaves the world one that can be saved.
LEMMA CreateCivilizationPreserves ==
  ASSUME SaveInv, TypeInv', NEW c \in Civs, CreateCivilizationScope(c)
  PROVE  SaveInv'
<1> DEFINE s == CivScope(c)
<1>1. TypeOf(s) = "CIV" /\ s[2] = c
  BY DEF CivScope, TypeOf
<1>2. s \notin VisitScopes
  <2>1. s \notin MapScopes /\ \A d \in civs : s # CivScope(d)
    BY DEF CreateCivilizationScope, CivScope, MapScopes, WorldScope, PlaneScope, RegionScope,
           CellScope
  <2>2. \A d \in civs : s \notin children[d]
    BY <1>1 DEF SaveInv, ChildrenParented, TypeInv, TypeOK, ChildTypes, ClassTypes, GroupTypes
  <2>3. \A p \in Cells \X Slots : improvements[p] # NoScope => s # improvements[p]
    BY <1>1 DEF SaveInv, Placed
  <2> QED BY <2>1, <2>2, <2>3 DEF VisitScopes
<1>3. /\ live' = live \cup {s} /\ civs' = civs \cup {c}
      /\ parent'[s] = WorldScope /\ tags'[s] = {}
      /\ \A n \in live \ {s} : parent'[n] = parent[n] /\ tags'[n] = tags[n]
      /\ UNCHANGED <<nextId, childByType, children, improvements, worldSet, registered>>
  BY DEF CreateCivilizationScope, NewScopes, session
<1>4. WorldScope \in VisitScopes' /\ CanLinkScopes(TypeOf(s), TypeOf(WorldScope))
  BY <1>1 DEF VisitScopes, MapScopes, WorldScope, TypeOf, CanLinkScopes, ParentTable
<1>5. TypeOf(s) \notin GroupTypes \cup NumberedTypes /\ TypeOf(s) # "CITY"
  BY <1>1 DEF GroupTypes, NumberedTypes
<1>6. nextId <= nextId'
  BY <1>3 DEF SaveInv, TypeInv, TypeOK
<1>7. VisitScopes' \subseteq VisitScopes \cup {s}
  <2>1. children[c] = {}
    BY DEF CreateCivilizationScope, SaveInv, TypeInv, Held
  <2> QED BY <1>3, <2>1 DEF VisitScopes
<1> QED BY <1>2, <1>3, <1>4, <1>5, <1>6, <1>7, OneScopePreserves

\* Only the counter has moved: the civilization or the class was not found.
LEMMA LostIdPreserves ==
  ASSUME SaveInv, TypeInv', GetNextId, UNCHANGED <<live, parent, tags, world, session>>
  PROVE  SaveInv'
<1>1. VisitScopes' = VisitScopes /\ \A s : Referred(s)' = Referred(s)
  BY DEF VisitScopes, Referred, world
<1>2. Acyclic(VisitScopes)' /\ IdsUnique' /\ ReferencesStored'
  BY <1>1 DEF SaveInv, Acyclic, IdsUnique, ReferencesStored, Stored
<1>3. FreshIds'
  <2>1. nextId <= nextId'
    BY DEF SaveInv, TypeInv, TypeOK, GetNextId
  <2> QED BY <2>1, FreshGrows DEF SaveInv
<1> QED
  BY <1>2, <1>3 DEF SaveInv, world, session, GroupsTyped, LinksTyped, ChildrenParented,
     ChildrenStored, CitiesOwned, CitiesRegistered, CitiesHeld, Placed

\* CreateCityScope leaves the world one that can be saved.
LEMMA CreateCityPreserves ==
  ASSUME SaveInv, TypeInv', NEW c \in Civs, CreateCityScope(c)
  PROVE  SaveInv'
<1>1. GetNextId
  BY DEF CreateCityScope
<1>2. CASE c \in civs
  <2> DEFINE s == NumberedScope("CITY", nextId)
  <2>1. s \notin VisitScopes /\ TypeOf(s) = "CITY" /\ s[3] < nextId' /\ nextId <= nextId'
    BY <1>1, NewNumber DEF NumberedTypes
  <2>2. /\ live' = live \cup {s} /\ parent'[s] = CivScope(c) /\ tags'[s] = {}
        /\ \A n \in live \ {s} : parent'[n] = parent[n] /\ tags'[n] = tags[n]
        /\ UNCHANGED <<civs, childByType, children, improvements, worldSet, registered>>
    BY <1>2 DEF CreateCityScope, NewScopes, session, world
  <2>3. /\ VisitScopes' = VisitScopes /\ CivScope(c) \in VisitScopes'
        /\ CivScope(c) \in {CivScope(d) : d \in civs'}
        /\ CanLinkScopes("CITY", TypeOf(CivScope(c)))
    BY <1>2, <2>2 DEF VisitScopes, CivScope, TypeOf, CanLinkScopes, ParentTable
  <2>4. TypeOf(s) \notin GroupTypes
    BY <2>1 DEF GroupTypes
  <2> HIDE DEF s
  <2> QED BY <2>1, <2>2, <2>3, <2>4, OneScopePreserves
<1>3. CASE c \notin civs
  BY <1>1, <1>3, LostIdPreserves DEF CreateCityScope
<1> QED BY <1>2, <1>3

\* What a registered city of a civilization gives the creation of an improvement.
LEMMA CityFacts ==
  ASSUME SaveInv, worldSet, NEW city, CityOfCivilization(city)
  PROVE  /\ parent[city][2] \in civs
         /\ city \in VisitScopes
         /\ CanTagLinkScopes("IMPROVEMENT", TypeOf(city))
<1>1. PICK c \in civs : parent[city] = CivScope(c)
  BY DEF CityOfCivilization
<1>2. parent[city][2] = c
  BY <1>1 DEF CivScope
<1>3. city \in children[c]
  BY <1>2 DEF CityOfCivilization, SaveInv, CitiesRegistered, CitiesHeld
<1>4. TypeOf(city) = "CITY"
  BY DEF CityOfCivilization
<1> QED BY <1>2, <1>3, <1>4 DEF VisitScopes, CanTagLinkScopes, TagTable

\* CreateImprovementScope leaves the world one that can be saved, also when it fails.
LEMMA CreateImprovementPreserves ==
  ASSUME SaveInv, TypeInv', NEW city, NEW k \in ImprovementClasses,
         CreateImprovementScope(city, k)
  PROVE  SaveInv'
<1> DEFINE c == parent[city][2]
           class == ClassScope("IMPROVEMENT_CLASS", c, k)
           result == NumberedScope("IMPROVEMENT", nextId)
<1>1. worldSet /\ CityOfCivilization(city) /\ GetNextId
  BY DEF CreateImprovementScope
<1>2. c \in civs /\ city \in VisitScopes /\ CanTagLinkScopes("IMPROVEMENT", TypeOf(city))
  BY <1>1, CityFacts
<1>3. class \in {"IMPROVEMENT_CLASS"} \X {c} \X ImprovementClasses
  BY DEF ClassScope
<1>4. /\ CanTagLinkScopes("IMPROVEMENT", TypeOf(class))
      /\ TypeOf(class) \notin GroupTypes /\ TypeOf(city) \notin GroupTypes
  BY <1>1 DEF ClassScope, TypeOf, CanTagLinkScopes, TagTable, GroupTypes, CityOfCivilization
<1>5. CASE CreateImprovementOfKnownClass(city, k)
  <2>1. /\ result \notin VisitScopes /\ TypeOf(result) = "IMPROVEMENT"
        /\ result[3] < nextId' /\ nextId <= nextId'
    BY <1>1, NewNumber DEF NumberedTypes
  <2>2. /\ live' = live \cup {result} /\ parent'[result] = NoScope /\ tags'[result] = {city, class}
        /\ \A n \in live \ {result} : parent'[n] = parent[n] /\ tags'[n] = tags[n]
        /\ UNCHANGED <<civs, childByType, children, improvements, worldSet, registered>>
        /\ class \in childByType[c]
    BY <1>5 DEF CreateImprovementOfKnownClass, NewScopes, session, world, HasChildScope
  <2>3. VisitScopes' = VisitScopes
    BY <2>2 DEF VisitScopes
  <2>4. \A t \in {city, class} : Stored(t)'
    <3>1. Stored(class)
      BY <1>2, <2>2, ChildStored DEF SaveInv
    <3> HIDE DEF class
    <3> QED BY <1>2, <2>3, <3>1 DEF Stored
  <2>5. TypeOf(result) \notin GroupTypes
    BY <2>1 DEF GroupTypes
  <2> HIDE DEF result, class, c
  <2> QED BY <1>2, <1>4, <2>1, <2>2, <2>3, <2>4, <2>5, OneScopePreserves
<1>6. CASE CreateImprovementOfNewClass(city, k)
  <2>1. /\ ~HasChildScope(c, class)
        /\ CreateClassAnd(c, class, result, {city, class})
        /\ UNCHANGED <<civs, improvements, worldSet, ruleset>>
    BY <1>6 DEF CreateImprovementOfNewClass
  <2>2. \A t \in {city, class} : /\ t = class \/ t \in VisitScopes
                                 /\ TypeOf(t) \notin GroupTypes
                                 /\ CanTagLinkScopes("IMPROVEMENT", TypeOf(t))
    BY <1>2, <1>4
  <2> HIDE DEF class, c
  <2> QED BY <1>1, <1>2, <1>3, <2>1, <2>2, CreateClassPreserves
<1>7. CASE FailToCreateImprovementClass(city, k)
  <2>1. FailToCreateClass(c, class) /\ UNCHANGED <<civs, improvements, worldSet, ruleset>>
    BY <1>7 DEF FailToCreateImprovementClass
  <2> HIDE DEF class, c
  <2> QED BY <1>1, <1>2, <1>3, <2>1, FailurePreserves
<1>8. CASE FailForLackOfRuleSet(city, k)
  BY <1>1, <1>8, LostIdPreserves DEF FailForLackOfRuleSet
<1> QED BY <1>5, <1>6, <1>7, <1>8 DEF CreateImprovementScope

\* CreateJobScope leaves the world one that can be saved, also when it fails.
LEMMA CreateJobPreserves ==
  ASSUME SaveInv, TypeInv', NEW c \in Civs, NEW k \in JobClasses,
         CreateJobScope(c, k)
  PROVE  SaveInv'
<1> DEFINE class == ClassScope("JOB_CLASS", c, k)
           result == NumberedScope("JOB", nextId)
<1>1. worldSet /\ c \in civs
  BY DEF CreateJobScope
<1>2. class \in {"JOB_CLASS"} \X {c} \X JobClasses
  BY DEF ClassScope
<1>3. CanTagLinkScopes("JOB", TypeOf(class)) /\ TypeOf(class) \notin GroupTypes
  BY DEF ClassScope, TypeOf, CanTagLinkScopes, TagTable, GroupTypes
<1>4. CASE CreateJobOfKnownClass(c, k)
  <2>1. GetNextId
    BY <1>4 DEF CreateJobOfKnownClass
  <2>2. /\ result \notin VisitScopes /\ TypeOf(result) = "JOB"
        /\ result[3] < nextId' /\ nextId <= nextId'
    BY <2>1, NewNumber DEF NumberedTypes
  <2>3. /\ live' = live \cup {result} /\ parent'[result] = NoScope /\ tags'[result] = {class}
        /\ \A n \in live \ {result} : parent'[n] = parent[n] /\ tags'[n] = tags[n]
        /\ UNCHANGED <<civs, childByType, children, improvements, worldSet, registered>>
        /\ class \in childByType[c]
    BY <1>4 DEF CreateJobOfKnownClass, NewScopes, session, world, HasChildScope
  <2>4. VisitScopes' = VisitScopes
    BY <2>3 DEF VisitScopes
  <2>5. Stored(class)'
    <3>1. Stored(class)
      BY <1>1, <2>3, ChildStored DEF SaveInv
    <3> QED BY <2>4, <3>1 DEF Stored
  <2>6. TypeOf(result) \notin GroupTypes
    BY <2>2 DEF GroupTypes
  <2> HIDE DEF result, class
  <2> QED BY <1>3, <2>2, <2>3, <2>4, <2>5, <2>6, OneScopePreserves
<1>5. CASE CreateJobOfNewClass(c, k)
  <2>1. /\ ~HasChildScope(c, class) /\ GetNextId
        /\ CreateClassAnd(c, class, result, {class})
        /\ UNCHANGED <<civs, improvements, worldSet, ruleset>>
    BY <1>5 DEF CreateJobOfNewClass
  <2>2. \A t \in {class} : /\ t = class \/ t \in VisitScopes
                           /\ TypeOf(t) \notin GroupTypes
                           /\ CanTagLinkScopes("JOB", TypeOf(t))
    BY <1>3
  <2> HIDE DEF class
  <2> QED BY <1>1, <1>2, <2>1, <2>2, CreateClassPreserves
<1>6. CASE FailToCreateJobClass(c, k)
  <2>1. /\ FailToCreateClass(c, class)
        /\ UNCHANGED <<nextId, civs, improvements, worldSet, ruleset>>
    BY <1>6 DEF FailToCreateJobClass
  <2> HIDE DEF class
  <2> QED BY <1>1, <1>2, <2>1, FailurePreserves
<1> QED BY <1>4, <1>5, <1>6 DEF CreateJobScope

\* AddImprovement leaves the world one that can be saved.
LEMMA AddImprovementPreserves ==
  ASSUME SaveInv, TypeInv', NEW x \in Cells, NEW slot \in Slots, NEW s \in live,
         AddImprovement(x, slot, s)
  PROVE  SaveInv'
<1>1. /\ parent' = [parent EXCEPT ![s] = CellScope(x)]
      /\ improvements' = [improvements EXCEPT ![<<x, slot>>] = s]
      /\ improvements[<<x, slot>>] = NoScope
      /\ UNCHANGED <<live, tags, nextId, civs, childByType, children, worldSet, registered>>
  BY DEF AddImprovement, CanPlace, session
<1>2. TypeOf(s) = "IMPROVEMENT" /\ TypeOf(CellScope(x)) = "CELL" /\ CellScope(x) \in MapScopes
  BY DEF AddImprovement, CanLinkScopes, ParentTable, TypeOf, CellScope, MapScopes
<1>3. VisitScopes' = VisitScopes \cup {s} /\ CellScope(x) \in VisitScopes
  <2>1. \A p \in Cells \X Slots :
            improvements'[p] = IF p = <<x, slot>> THEN s ELSE improvements[p]
    BY <1>1 DEF SaveInv, TypeInv, TypeOK
  <2>2. s # NoScope /\ <<x, slot>> \in Cells \X Slots
    BY SentinelAssumption DEF SaveInv, TypeInv, TypeOK
  <2>3. {improvements'[p] : p \in {q \in Cells \X Slots : improvements'[q] # NoScope}}
           = {improvements[p] : p \in {q \in Cells \X Slots : improvements[q] # NoScope}} \cup {s}
    BY <1>1, <2>1, <2>2
  <2> QED BY <1>1, <1>2, <2>3 DEF VisitScopes
<1>4. /\ \A n \in live : n # s => parent'[n] = parent[n] /\ Referred(n)' = Referred(n)
      /\ parent'[s] = CellScope(x) /\ CanLinkScopes(TypeOf(s), TypeOf(CellScope(x)))
      /\ Referred(s)' \subseteq Referred(s) \cup {CellScope(x)}
  BY <1>1, <1>2 DEF SaveInv, TypeInv, TypeOK, CanLinkScopes, ParentTable, Referred
<1>5. LinksTyped'
  BY <1>1, <1>4 DEF SaveInv, LinksTyped
<1>6. ReferencesStored'
  <2>1. \A t : Stored(t) \/ t = CellScope(x) => Stored(t)'
    BY <1>3 DEF Stored
  <2> QED BY <1>1, <1>4, <2>1 DEF SaveInv, ReferencesStored
<1>7. TypeOf(s) \notin GroupTypes
  BY <1>2 DEF GroupTypes
<1>8. IdsUnique'
  <2>1. VisitScopes' \subseteq Scopes
    BY <1>3, VisitedLive DEF SaveInv, TypeInv, TypeOK
  <2> QED BY <1>3, <1>7, <2>1, SharedId DEF SaveInv, IdsUnique, Collides
<1>9. Acyclic(VisitScopes)'
  <2>1. {n \in VisitScopes' : TypeOf(n) \in GroupTypes}
            = {n \in VisitScopes : TypeOf(n) \in GroupTypes}
    BY <1>3, <1>7
  <2>2. \A n \in VisitScopes : TypeOf(n) \in GroupTypes => Referred(n)' = Referred(n)
    BY <1>4, <1>7, VisitedLive DEF SaveInv
  <2> QED BY <2>1, <2>2 DEF SaveInv, Acyclic
<1>10. ChildrenParented'
  BY <1>1, <1>2, <1>4
  DEF SaveInv, ChildrenParented, ChildTypes, ClassTypes, GroupTypes, TypeInv, Held
<1>11. CitiesOwned' /\ ChildrenStored'
  BY <1>1, <1>2, <1>4 DEF SaveInv, CitiesOwned, ChildrenStored
<1>12. Placed'
  BY <1>1, <1>2 DEF SaveInv, Placed, TypeInv, TypeOK
<1>13. CitiesRegistered'
  BY <1>1, <1>2, <1>4 DEF SaveInv, CitiesRegistered, CitiesHeld, TypeInv, TypeOK
<1>14. FreshIds' /\ GroupsTyped'
  BY <1>1 DEF SaveInv, FreshIds, GroupsTyped
<1> QED BY <1>5, <1>6, <1>8, <1>9, <1>10, <1>11, <1>12, <1>13, <1>14 DEF SaveInv

\* What the world visits is all that is left after a save and a load; it refers to what
\* has the ids it referred to.
LEMMA ReloadPreserves ==
  ASSUME SaveInv, TypeInv', Loadable, Reload
  PROVE  SaveInv'
<1>1. VisitScopes \subseteq live /\ VisitScopes \subseteq Scopes /\ NoScope \notin Scopes
  BY VisitedLive, SentinelAssumption DEF SaveInv, TypeInv, TypeOK
<1>2. /\ live' = VisitScopes
      /\ \A s \in VisitScopes :
            /\ parent'[s] = IF parent[s] = NoScope THEN NoScope ELSE Resolve(parent[s])
            /\ tags'[s] = {Resolve(t) : t \in tags[s]}
      /\ childByType' = [c \in Civs |-> IF c \in civs THEN children[c] ELSE {}]
      /\ nextId' = nextId /\ ~worldSet' /\ registered' = {}
      /\ UNCHANGED <<civs, children, improvements>>
  BY InvariantImpliesSortable DEF Reload, RestoredNextId, EmptyRegistry
<1>3. VisitScopes' = VisitScopes
  BY <1>2 DEF VisitScopes
<1>4. \A s \in VisitScopes : \A t \in Referred(s) : Resolve(t) \in VisitScopes
          /\ Id(Resolve(t)) = Id(t)
  BY <1>1, ResolveStored DEF SaveInv, ReferencesStored
<1>5. \A s \in VisitScopes : Referred(s)' = {Resolve(t) : t \in Referred(s)}
  <2> SUFFICES ASSUME NEW s \in VisitScopes PROVE Referred(s)' = {Resolve(t) : t \in Referred(s)}
    OBVIOUS
  <2>1. CASE parent[s] = NoScope
    BY <1>2, <2>1 DEF Referred
  <2>2. CASE parent[s] # NoScope
    <3>1. Resolve(parent[s]) # NoScope
      BY <1>1, <1>4, <2>2 DEF Referred
    <3> QED BY <1>2, <2>2, <3>1 DEF Referred
  <2> QED BY <2>1, <2>2
<1>6. ASSUME NEW s \in VisitScopes, NEW c \in Civs, parent[s] = CivScope(c)
      PROVE  parent'[s] = CivScope(c)
  <2>1. parent[s] \in Scopes /\ TypeOf(parent[s]) \notin GroupTypes
    BY <1>6, ScopeNames DEF CivScope, TypeOf, GroupTypes
  <2>2. parent[s] # NoScope /\ parent[s] \in Referred(s)
    BY <1>1, <2>1 DEF Referred
  <2>3. Resolve(parent[s]) = parent[s]
    BY <1>1, <2>1, <2>2, ResolveNoGroup DEF SaveInv, ReferencesStored
  <2> QED BY <1>2, <1>6, <2>2, <2>3
<1>7. FreshIds' /\ GroupsTyped'
  BY <1>1, <1>2 DEF SaveInv, FreshIds, GroupsTyped
<1>8. LinksTyped'
  <2> SUFFICES ASSUME NEW s \in VisitScopes
               PROVE  /\ parent'[s] # NoScope => CanLinkScopes(TypeOf(s), TypeOf(parent'[s]))
                      /\ \A t \in tags'[s] : CanTagLinkScopes(TypeOf(s), TypeOf(t)) /\ GroupTyped(t)
    BY <1>2 DEF LinksTyped
  <2>1. \A t \in tags[s] : Resolve(t) \in live
    BY <1>1, <1>4 DEF Referred
  <2> QED BY <1>2, <2>1 DEF Loadable, SaveInv, GroupsTyped
<1>9. \A c \in Civs : children[c] \subseteq VisitScopes
  BY DEF VisitScopes, SaveInv, TypeInv, Held
<1>10. ChildrenParented'
  BY <1>2, <1>6, <1>9 DEF SaveInv, ChildrenParented
<1>11. ChildrenStored'
  <2>1. \A c \in Civs : childByType'[c] = children'[c]
    BY <1>2 DEF SaveInv, TypeInv, Held
  <2> QED BY <2>1 DEF ChildrenStored
<1>12. CitiesOwned'
  <2>1. civs \subseteq Civs
    BY DEF SaveInv, TypeInv, TypeOK
  <2> QED BY <1>1, <1>2, <1>6, <2>1 DEF SaveInv, CitiesOwned
<1>13. Placed' /\ CitiesRegistered'
  BY <1>2 DEF SaveInv, Placed, CitiesRegistered, CitiesHeld
<1>14. ReferencesStored' /\ IdsUnique'
  BY <1>2, <1>3, <1>4, <1>5 DEF SaveInv, ReferencesStored, Stored, IdsUnique
<1>15. Acyclic(VisitScopes)'
  BY <1>3, <1>4, <1>5 DEF SaveInv, Acyclic
<1> QED BY <1>7, <1>8, <1>10, <1>11, <1>12, <1>13, <1>14, <1>15 DEF SaveInv

-----------------------------------------------------------------------------
(* The theorems.                                                           *)

LEMMA StutterPreserves ==
  ASSUME SaveInv, TypeInv', UNCHANGED vars
  PROVE  SaveInv'
<1>1. UNCHANGED <<live, parent, tags, nextId, world, worldSet, registered>>
  BY DEF vars, session
<1>2. CitiesRegistered'
  BY <1>1 DEF SaveInv, CitiesRegistered, CitiesHeld, world
<1> QED BY <1>1, <1>2, RegistrationPreserves

\* The first world can be saved.
LEMMA InitSave == Init => SaveInv
<1> SUFFICES ASSUME Init PROVE SaveInv
  OBVIOUS
<1>1. TypeInv
  BY InitType
<1> USE DEF Init
<1>2. \A s \in live : TypeOf(s) \in {"WORLD", "PLANE", "REGION", "CELL", "CIV"} /\ tags[s] = {}
  BY DEF MapScopes, WorldScope, PlaneScope, RegionScope, CellScope, CivScope, TypeOf
<1>3. FreshIds /\ GroupsTyped /\ CitiesOwned
  BY <1>2 DEF FreshIds, GroupsTyped, GroupTyped, CitiesOwned, NumberedTypes, GroupTypes
<1>4. ChildrenStored /\ ChildrenParented /\ Placed /\ CitiesRegistered
  BY DEF ChildrenStored, ChildrenParented, Placed, CitiesRegistered, CitiesHeld
<1>5. ASSUME NEW s \in live, parent[s] # NoScope
      PROVE  /\ parent[s] \in VisitScopes
             /\ CanLinkScopes(TypeOf(s), TypeOf(parent[s]))
  <2>1. MapScopes \subseteq VisitScopes /\ WorldScope \in MapScopes
    BY DEF VisitScopes, MapScopes
  <2>2. CASE s \in MapScopes
    <3>1. parent[s] = MapParent(s)
      BY <2>2
    <3>2. \/ TypeOf(s) = "PLANE" /\ parent[s] = WorldScope
          \/ TypeOf(s) = "REGION" /\ parent[s] = PlaneScope
          \/ TypeOf(s) = "CELL" /\ parent[s] = RegionScope
      BY <1>5, <2>2, <3>1
      DEF MapScopes, MapParent, TypeOf, WorldScope, PlaneScope, RegionScope, CellScope
    <3> QED BY <2>1, <3>2 DEF MapScopes, CanLinkScopes, ParentTable, TypeOf, WorldScope, PlaneScope,
                              RegionScope
  <2>3. CASE s \notin MapScopes
    BY <2>1, <2>3 DEF CivScope, CanLinkScopes, ParentTable, TypeOf, WorldScope
  <2> QED BY <2>2, <2>3
<1>6. LinksTyped /\ ReferencesStored
  BY <1>2, <1>5 DEF LinksTyped, ReferencesStored, Stored, Referred
<1>7. VisitScopes \subseteq live
  BY <1>1, VisitedLive
<1>8. IdsUnique
  BY <1>1, <1>2, <1>7, SharedId DEF IdsUnique, Collides, GroupTypes, TypeInv, TypeOK
<1>9. Acyclic(VisitScopes)
  BY <1>2, <1>7 DEF Acyclic, GroupTypes
<1> QED BY <1>1, <1>3, <1>4, <1>6, <1>8, <1>9 DEF SaveInv

\* Every step leaves the world one that can be saved.
LEMMA NextSave == SaveInv /\ [Next]_vars => SaveInv'
<1> SUFFICES ASSUME SaveInv, [Next]_vars PROVE SaveInv'
  OBVIOUS
<1>1. TypeInv'
  BY NextType DEF SaveInv
<1>2. CASE SetWorld
  BY <1>1, <1>2, SetWorldPreserves
<1>3. CASE \E r \in RuleSets : SetRuleSet(r)
  BY <1>1, <1>3, SetRuleSetPreserves
<1>4. CASE worldSet /\ \E s \in live : AddScope(s)
  BY <1>1, <1>4, AddScopePreserves
<1>5. CASE \E c \in Civs : CreateCivilizationScope(c) \/ CreateCityScope(c)
  BY <1>1, <1>5, CreateCivilizationPreserves, CreateCityPreserves
<1>6. CASE \E city \in registered, k \in ImprovementClasses : CreateImprovementScope(city, k)
  BY <1>1, <1>6, CreateImprovementPreserves
<1>7. CASE \E c \in Civs, k \in JobClasses : CreateJobScope(c, k)
  BY <1>1, <1>7, CreateJobPreserves
<1>8. CASE \E x \in Cells, slot \in Slots, s \in live : AddImprovement(x, slot, s)
  BY <1>1, <1>8, AddImprovementPreserves
<1>9. CASE Reload
  <2>1. CASE Loadable
    BY <1>1, <1>9, <2>1, ReloadPreserves
  <2>2. CASE ~Loadable
    BY <1>1, <1>9, <2>2, StutterPreserves DEF Reload
  <2> QED BY <2>1, <2>2
<1>10. CASE UNCHANGED vars
  BY <1>1, <1>10, StutterPreserves
<1> QED BY <1>2, <1>3, <1>4, <1>5, <1>6, <1>7, <1>8, <1>9, <1>10 DEF Next

\* The game can be saved at any moment: whatever rulesets were set one after another and
\* whatever calls failed half-way, ids are unique, references are to scopes that are saved
\* and no cycle keeps scopes from being sorted (World::SerializeTo,
\* TopologicallySortScopePtrs).
THEOREM GameSaves == Spec => []SaveSucceeds
<1>1. Init => SaveInv
  BY InitSave
<1>2. SaveInv /\ [Next]_vars => SaveInv'
  BY NextSave
<1>3. SaveInv => SaveSucceeds
  BY InvariantImpliesSortable DEF SaveSucceeds
<1> QED BY <1>1, <1>2, <1>3, PTL DEF Spec

\* As long as the rulesets set one after another agree on the type of every group, what
\* was saved can be loaded as well (World::ParseFrom).
THEOREM GameSaveLoads == StableGroupTypes => (Spec => []SaveLoads)
<1> SUFFICES ASSUME StableGroupTypes PROVE Spec => []SaveLoads
  OBVIOUS
<1>1. Init => SaveInv
  BY InitSave
<1>2. SaveInv /\ [Next]_vars => SaveInv'
  BY NextSave
<1>3. SaveInv => SaveLoads
  BY InvariantImpliesSaveLoads
<1> QED BY <1>1, <1>2, <1>3, PTL DEF Spec

\* In every session with a world, each registered city is held by its civilization, so
\* it is there again after the next save (Session::AddScope, Civilization::AddChildScope).
THEOREM CitiesAreHeld == Spec => []CitiesHeld
<1>1. Init => SaveInv
  BY InitSave
<1>2. SaveInv /\ [Next]_vars => SaveInv'
  BY NextSave
<1>3. SaveInv => CitiesHeld
  BY DEF SaveInv, CitiesRegistered
<1> QED BY <1>1, <1>2, <1>3, PTL DEF Spec

-----------------------------------------------------------------------------
(* The registry.  What the world visits is registered, but for civilizations *)
(* and improvements, and nothing refers to an improvement.                  *)

VisitedRegistered ==
    worldSet => \A s \in VisitScopes : s \in registered \/ TypeOf(s) \in {"CIV", "IMPROVEMENT"}

\* What registered scopes refer to is visited, and what is visited is registered.
LEMMA InvariantImpliesRegistryClosed ==
  ASSUME StableGroupTypes, SaveInv, JobsLoose, VisitedRegistered
  PROVE  RegistryClosed
<1> SUFFICES ASSUME worldSet, NEW s \in registered, NEW t \in Referred(s)
             PROVE  t \in registered \/ TypeOf(t) = "CIV"
  BY DEF RegistryClosed
<1>1. s \in live
  BY DEF SaveInv, TypeInv, TypeOK
<1>2. t \in VisitScopes
  BY <1>1, ResolveIsIdentity
<1>3. TypeOf(t) # "IMPROVEMENT"
  <2>1. CASE t \in tags[s]
    BY <1>1, <2>1 DEF SaveInv, LinksTyped, CanTagLinkScopes, TagTable
  <2>2. CASE t = parent[s] /\ parent[s] # NoScope
    <3>1. CanLinkScopes(TypeOf(s), TypeOf(t)) /\ TypeOf(s) # "JOB"
      BY <1>1, <2>2 DEF SaveInv, LinksTyped, JobsLoose
    <3> QED BY <3>1 DEF CanLinkScopes, ParentTable
  <2> QED BY <2>1, <2>2 DEF Referred
<1> QED BY <1>2, <1>3 DEF VisitedRegistered

\* In a session with a world a step registers every child it adds to a civilization.
LEMMA ChildrenAreRegistered ==
  ASSUME SaveInv, worldSet, [Next]_vars
  PROVE  \/ Reload
         \/ /\ registered \subseteq registered'
            /\ \A c \in Civs : children'[c] \subseteq children[c] \cup registered'
<1> DEFINE Goal == /\ registered \subseteq registered'
                   /\ \A c \in Civs : children'[c] \subseteq children[c] \cup registered'
<1> USE DEF SaveInv, TypeInv, TypeOK
<1>1. ASSUME NEW c, NEW new, AddChildScopes(c, new) PROVE Goal
  BY <1>1 DEF AddChildScopes
<1>2. ASSUME NEW c, NEW s, FailToCreateClass(c, s) PROVE Goal
  <2>1. PICK completed : /\ children' = [children EXCEPT ![c] = @ \cup completed]
                         /\ registered' = registered \cup completed
    BY <1>2 DEF FailToCreateClass
  <2> QED BY <2>1
<1>3. ASSUME NEW c, NEW s, NEW result, NEW resultTags, CreateClassAnd(c, s, result, resultTags)
      PROVE  Goal
  <2>1. PICK new : AddChildScopes(c, new)
    BY <1>3 DEF CreateClassAnd
  <2> QED BY <1>1, <2>1
<1>4. ASSUME UNCHANGED <<children, registered>> PROVE Goal
  BY <1>4
<1>5. ASSUME NEW s \in live, AddScope(s) PROVE Goal
  BY <1>5 DEF AddScope
<1>6. ASSUME NEW city, NEW k, CreateImprovementScope(city, k) PROVE Goal
  BY <1>2, <1>3, <1>4, <1>6
  DEF CreateImprovementScope, CreateImprovementOfKnownClass, CreateImprovementOfNewClass,
      FailToCreateImprovementClass, FailForLackOfRuleSet, world, session
<1>7. ASSUME NEW c, NEW k, CreateJobScope(c, k) PROVE Goal
  BY <1>2, <1>3, <1>4, <1>7
  DEF CreateJobScope, CreateJobOfKnownClass, CreateJobOfNewClass, FailToCreateJobClass, world,
      session
<1>8. ASSUME \/ \E r \in RuleSets : SetRuleSet(r)
             \/ \E c \in Civs : CreateCivilizationScope(c) \/ CreateCityScope(c)
             \/ \E x \in Cells, slot \in Slots, s \in live : AddImprovement(x, slot, s)
             \/ UNCHANGED vars
      PROVE  Goal
  BY <1>4, <1>8
  DEF SetRuleSet, CreateCivilizationScope, CreateCityScope, AddImprovement, vars, world, session
<1>9. ~SetWorld
  BY DEF SetWorld
<1> HIDE DEF Goal
<1> QED BY <1>5, <1>6, <1>7, <1>8, <1>9 DEF Next, Goal

\* Every step registers what it adds to the world, civilizations and improvements excepted.
LEMMA NextRegistered ==
  ASSUME SaveInv, SaveInv', VisitedRegistered, [Next]_vars
  PROVE  VisitedRegistered'
<1> SUFFICES ASSUME worldSet', NEW s \in VisitScopes', s \notin registered'
             PROVE  TypeOf(s) \in {"CIV", "IMPROVEMENT"}
  BY DEF VisitedRegistered
<1>1. CASE worldSet
  <2>1. CASE Reload
    <3>1. UNCHANGED vars
      BY <1>1, <2>1 DEF Reload
    <3> QED BY <1>1, <3>1 DEF VisitedRegistered, VisitScopes, vars, world, session
  <2>2. CASE ~Reload
    <3>1. /\ registered \subseteq registered'
          /\ \A c \in Civs : children'[c] \subseteq children[c] \cup registered'
      BY <1>1, <2>2, ChildrenAreRegistered
    <3>2. \A n \in VisitScopes : n \in registered' \/ TypeOf(n) \in {"CIV", "IMPROVEMENT"}
      BY <1>1, <3>1 DEF VisitedRegistered
    <3>3. CASE s \in MapScopes
      BY <3>2, <3>3 DEF VisitScopes
    <3>4. CASE s \in {CivScope(c) : c \in civs'}
      BY <3>4 DEF CivScope, TypeOf
    <3>5. ASSUME NEW c \in civs', s \in children'[c] PROVE TypeOf(s) \in {"CIV", "IMPROVEMENT"}
      <4>1. c \in Civs /\ s \in children[c]
        BY <3>1, <3>5 DEF SaveInv, TypeInv, TypeOK
      <4>2. s \in VisitScopes
        BY <4>1 DEF VisitScopes, SaveInv, TypeInv, Held
      <4> QED BY <3>2, <4>2
    <3>6. ASSUME NEW p \in Cells \X Slots, improvements'[p] # NoScope, s = improvements'[p]
          PROVE  TypeOf(s) = "IMPROVEMENT"
      BY <3>6 DEF SaveInv, Placed
    <3> QED BY <3>3, <3>4, <3>5, <3>6 DEF VisitScopes
  <2> QED BY <2>1, <2>2
<1>2. CASE ~worldSet
  <2>1. SetWorld
    BY <1>2 DEF Next, SetRuleSet, CreateCivilizationScope, CreateCityScope, CreateImprovementScope,
                CreateJobScope, AddImprovement, Reload, vars, session
  <2>2. registered = {} /\ VisitScopes' = VisitScopes
    BY <1>2, <2>1 DEF SaveInv, CitiesRegistered, SetWorld, VisitScopes, world
  <2>3. s \in registered'
    BY <2>1, <2>2 DEF SetWorld, Collides
  <2> QED BY <2>3
<1> QED BY <1>1, <1>2

\* With stable group types, what a registered scope refers to is registered as well, but
\* for civilizations created through the session (Session::AddScope, the creation of classes
\* and groups, and World::VisitScopes in SetWorld).
THEOREM RegistryIsClosed == StableGroupTypes => (Spec => []RegistryClosed)
<1> SUFFICES ASSUME StableGroupTypes PROVE Spec => []RegistryClosed
  OBVIOUS
<1> DEFINE RegistryInv == SaveInv /\ OwnerInv /\ VisitedRegistered
<1>1. Init => RegistryInv
  BY InitSave, InitOwner DEF Init, VisitedRegistered
<1>2. RegistryInv /\ [Next]_vars => RegistryInv'
  BY NextSave, NextOwner, NextRegistered
<1>3. RegistryInv => RegistryClosed
  BY InvariantImpliesRegistryClosed DEF OwnerInv
<1> HIDE DEF RegistryInv
<1> QED BY <1>1, <1>2, <1>3, PTL DEF Spec
=============================================================================
