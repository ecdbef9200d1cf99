--------------------------- MODULE DefinitionsProofs ---------------------------
(***************************************************************************)
(* What the cache of variable definitions guarantees, proved for any tree  *)
(* of scopes in which every scope is finitely many steps from the world.   *)
(***************************************************************************)
EXTENDS Definitions, TLAPS

Ready == worldSet /\ ruleset # NoRuleSet

\* Whoever lives, what is above it lives.
Rooted ==
    /\ live \subseteq Scopes /\ MapScopes \subseteq live
    /\ \A s \in live : Above[s] \subseteq live
    /\ orphans \subseteq live \cap Improvements

\* What is kept belongs to the living, and nothing is kept before the session is ready.
Kept ==
    /\ DOMAIN cached = Scopes
    /\ \A s \in Scopes : s \notin live \/ ~Ready => cached[s] = NoRuleSet
    /\ Ready => cached[World] = ruleset

\* What is kept is current, or comes from above and from before the last change.
Traced ==
    Ready => \A s \in Scopes : cached[s] \in {NoRuleSet, ruleset} \/ Above[s] \cap missed # {}

CacheInv == Rooted /\ Kept /\ Traced

-----------------------------------------------------------------------------
(* The tree.                                                               *)

\* What is above is a path: two scopes above one another are one.
LEMMA AboveOrder ==
  ASSUME NEW s \in Scopes, NEW t \in Above[s]
  PROVE  /\ t \in Scopes /\ s \in Above[s] /\ Above[t] \subseteq Above[s]
         /\ s \in Above[t] => s = t
  BY TreeAssumption

\* Only an improvement's own path holds it.
LEMMA ImprovementsAreLeaves ==
  ASSUME NEW s \in Scopes, NEW t \in Improvements, t \in Above[s]
  PROVE  s = t
  BY TreeAssumption, KindsAssumption

\* So does a city's.
LEMMA CitiesAreLeaves ==
  ASSUME NEW s \in Scopes, NEW t \in Cities, t \in Above[s]
  PROVE  s = t
  BY TreeAssumption, KindsAssumption

\* A walk stays among the scopes above where it starts, and passes through all of them
\* from any point unless it starts at an orphan.
LEMMA ChainShape ==
  ASSUME NEW s \in Scopes, orphans \subseteq Improvements
  PROVE  /\ s \in Chain(s) /\ Chain(s) \subseteq Above[s]
         /\ \A t \in Chain(s) : Chain(t) \subseteq Chain(s) /\ Chain(t) = Above[t] \cap Chain(s)
<1>1. s \in Above[s]
  BY TreeAssumption
<1>2. CASE s \in orphans
  <2>1. Chain(s) = {s}
    BY <1>2 DEF Chain
  <2> QED BY <1>1, <2>1
<1>3. CASE s \notin orphans
  <2>1. Chain(s) = Above[s]
    BY <1>3 DEF Chain
  <2>2. ASSUME NEW t \in Above[s]
        PROVE  Chain(t) = Above[t] /\ Above[t] \subseteq Above[s]
    <3>1. t \in Improvements => s = t
      BY ImprovementsAreLeaves
    <3>2. t \notin orphans
      BY <3>1, <1>3
    <3> QED BY <3>2, AboveOrder DEF Chain
  <2> QED BY <1>1, <2>1, <2>2
<1> QED BY <1>2, <1>3

\* The walk stops at one scope.
LEMMA OneNearest ==
  ASSUME NEW s \in Scopes, orphans \subseteq Improvements, NEW a \in Nearest(s)
  PROVE  Nearest(s) = {a} /\ Effective(s) = cached[a] /\ a \in Scopes
<1>1. Holders(s) \subseteq Scopes
  BY ChainShape, AboveOrder DEF Holders
<1>2. \A b \in Nearest(s) : b = a
  BY <1>1, AboveOrder DEF Nearest
<1> QED BY <1>1, <1>2 DEF Effective, Nearest

\* It stops if anything on it is kept.
LEMMA SomeNearest ==
  ASSUME NEW s \in Scopes, orphans \subseteq Improvements, Holders(s) # {}
  PROVE  Nearest(s) # {}
<1>1. Holders(s) \in SUBSET Above[s]
  BY ChainShape DEF Holders
<1> QED BY <1>1, TreeAssumption DEF Nearest

-----------------------------------------------------------------------------
(* A read.                                                                 *)

\* What a read leaves in each scope.
LEMMA AfterRead ==
  ASSUME NEW s \in Scopes, GetVariableDefinitions(s), NEW t \in Scopes
  PROVE  cached'[t] = IF t \in Asking(s) THEN Effective(s) ELSE cached[t]
  BY DEF GetVariableDefinitions

\* The scopes that ask are those from where the read starts to where it stops.
LEMMA AskingScopes ==
  ASSUME Rooted, NEW s \in Scopes, NEW n \in Nearest(s)
  PROVE  Asking(s) = {t \in Chain(s) : n \in Above[t]}
<1>1. Nearest(s) = {n}
  BY OneNearest DEF Rooted
<1> QED BY <1>1 DEF Asking

\* After a read the walk from any scope ends in the same definitions.
LEMMA ReadLeavesEffective ==
  ASSUME Rooted, Kept, NEW s \in live, GetVariableDefinitions(s), NEW t \in live
  PROVE  Effective(t)' = Effective(t)
<1> USE DEF Rooted
<1> s \in Scopes /\ t \in Scopes /\ orphans \subseteq Improvements
  OBVIOUS
<1>0. \A u : Chain(u)' = Chain(u)
  BY DEF GetVariableDefinitions, Chain
<1>1. CASE Chain(t) \cap Asking(s) = {}
  <2>1. \A a \in Chain(t) : cached'[a] = cached[a]
    <3>1. Chain(t) \subseteq Scopes
      BY ChainShape, TreeAssumption
    <3> QED BY <1>1, <3>1, AfterRead
  <2>2. Holders(t)' = Holders(t)
    BY <1>0, <2>1 DEF Holders
  <2>3. Nearest(t)' = Nearest(t)
    BY <2>2 DEF Nearest
  <2>4. CASE Nearest(t) = {}
    BY <2>3, <2>4 DEF Effective
  <2>5. ASSUME NEW m \in Nearest(t) PROVE Effective(t)' = Effective(t)
    <3>1. Effective(t) = cached[m] /\ Nearest(t) = {m} /\ m \in Chain(t)
      BY <2>5, OneNearest DEF Nearest, Holders
    <3>2. Effective(t)' = cached'[CHOOSE a \in Nearest(t) : TRUE]
      BY <2>3, <2>5 DEF Effective
    <3>3. (CHOOSE a \in Nearest(t) : TRUE) = m
      BY <3>1
    <3> QED BY <2>1, <3>1, <3>2, <3>3
  <2> QED BY <2>4, <2>5
<1>2. CASE Chain(t) \cap Asking(s) # {}
  <2>1. PICK x \in Chain(t) : x \in Asking(s)
    BY <1>2
  <2>2. PICK n \in Nearest(s) : n \in Above[x]
    BY <2>1 DEF Asking
  <2>3. /\ Asking(s) = {u \in Chain(s) : n \in Above[u]}
        /\ Effective(s) = cached[n] /\ n \in Scopes /\ cached[n] # NoRuleSet
        /\ n \in Chain(s) /\ Holders(s) \subseteq Above[n]
    BY <2>2, AskingScopes, OneNearest DEF Nearest, Holders
  <2>4. x \in Scopes /\ x \in Chain(s) /\ Chain(x) = Above[x] \cap Chain(s)
        /\ Chain(x) = Above[x] \cap Chain(t)
    BY <2>1, <2>3, ChainShape, TreeAssumption
  <2>5. n \in Chain(t)
    BY <2>2, <2>3, <2>4
  <2>6. n \in Holders(t)
    BY <2>3, <2>5 DEF Holders
  <2>7. PICK m \in Nearest(t) : TRUE
    BY <2>6, SomeNearest
  <2>8. Effective(t) = cached[m] /\ m \in Scopes /\ n \in Above[m] /\ m \in Chain(t)
        /\ Holders(t) \subseteq Above[m] /\ cached[m] # NoRuleSet
    BY <2>6, <2>7, OneNearest DEF Nearest, Holders
  <2>9. Holders(t)' = Holders(t) \cup (Chain(t) \cap Asking(s))
    <3>1. Chain(t) \subseteq Scopes
      BY ChainShape, TreeAssumption
    <3>2. \A a \in Chain(t) : cached'[a] = IF a \in Asking(s) THEN cached[n] ELSE cached[a]
      BY <2>3, <3>1, AfterRead
    <3> QED BY <1>0, <2>3, <3>2 DEF Holders
  <2>10. PICK l \in Nearest(t)' : TRUE
    <3>1. Holders(t)' \in SUBSET Above[t] /\ Holders(t)' # {}
      BY <2>6, <2>9, ChainShape DEF Holders
    <3>2. \E a \in Holders(t)' : Holders(t)' \subseteq Above[a]
      BY <3>1, TreeAssumption
    <3> QED BY <3>2 DEF Nearest
  <2>11. l \in Holders(t)' /\ Holders(t)' \subseteq Above[l] /\ l \in Scopes /\ l \in Chain(t)
    <3>1. l \in Holders(t)' /\ Holders(t)' \subseteq Above[l]
      BY <2>10 DEF Nearest
    <3>2. l \in Chain(t)
      BY <3>1, <1>0 DEF Holders
    <3> QED BY <3>1, <3>2, ChainShape, TreeAssumption
  <2>12. Effective(t)' = cached'[l]
    <3>1. \A k \in Nearest(t)' : k = l
      <4>1. ASSUME NEW k \in Nearest(t)' PROVE k = l
        <5>1. k \in Holders(t)' /\ l \in Above[k]
          BY <2>11 DEF Nearest
        <5>2. k \in Above[l]
          BY <5>1, <2>11
        <5> QED BY <2>11, <5>1, <5>2, AboveOrder
      <4> QED BY <4>1
    <3>2. Nearest(t)' = {l}
      BY <2>10, <3>1
    <3> QED BY <3>2 DEF Effective
  <2>13. m \in Above[l]
    BY <2>7, <2>9, <2>11 DEF Nearest
  <2>14. CASE l \notin Asking(s)
    <3>1. l \in Holders(t)
      BY <2>9, <2>11, <2>14
    <3>2. l \in Above[m]
      BY <3>1, <2>8
    <3>3. l = m
      BY <3>2, <2>13, <2>11, <2>8, AboveOrder
    <3>4. cached'[l] = cached[l]
      BY <2>11, <2>14, AfterRead
    <3> QED BY <3>3, <3>4, <2>12, <2>8
  <2>15. CASE l \in Asking(s)
    <3>1. l \in Chain(s) /\ cached'[l] = cached[n]
      BY <2>3, <2>11, <2>15, AfterRead
    <3>2. Chain(l) = Above[l] \cap Chain(s) /\ Chain(l) = Above[l] \cap Chain(t)
      BY <3>1, <2>11, ChainShape
    <3>3. m \in Chain(s)
      BY <3>2, <2>8, <2>13
    <3>4. m \in Above[n]
      BY <3>3, <2>3, <2>8 DEF Holders
    <3>5. m = n
      BY <3>4, <2>3, <2>8, AboveOrder
    <3> QED BY <3>1, <3>5, <2>12, <2>8
  <2> QED BY <2>14, <2>15
<1> QED BY <1>1, <1>2

\* What a read keeps was kept above, and is as old as that.
LEMMA ReadKeepsInvariant ==
  ASSUME CacheInv, NEW s \in live, GetVariableDefinitions(s)
  PROVE  CacheInv'
<1> USE DEF CacheInv
<1> s \in Scopes /\ orphans \subseteq Improvements /\ World \in Scopes /\ World \in live
  BY KindsAssumption DEF Rooted
<1>1. UNCHANGED <<live, orphans, registered, worldSet, ruleset, missed>>
  BY DEF GetVariableDefinitions, session
<1>2. CASE Nearest(s) = {}
  <2>1. cached' = [t \in Scopes |-> cached[t]]
    BY <1>2 DEF GetVariableDefinitions, Asking
  <2>2. DOMAIN cached' = Scopes /\ \A t \in Scopes : cached'[t] = cached[t]
    BY <2>1
  <2> QED BY <1>1, <2>2 DEF Rooted, Kept, Traced, Ready
<1>3. ASSUME NEW n \in Nearest(s) PROVE CacheInv'
  <2>1. /\ Asking(s) = {t \in Chain(s) : n \in Above[t]}
        /\ Effective(s) = cached[n] /\ n \in Scopes /\ cached[n] # NoRuleSet
    BY <1>3, AskingScopes, OneNearest DEF Nearest, Holders
  <2>2. ASSUME NEW t \in Scopes
        PROVE  cached'[t] = IF t \in Asking(s) THEN cached[n] ELSE cached[t]
    BY <2>1, AfterRead
  <2>3. Ready
    BY <2>1 DEF Kept
  <2>4. Asking(s) \subseteq live
    BY <2>1, ChainShape DEF Rooted
  <2>5. Kept'
    <3>1. ASSUME NEW t \in Scopes, t \notin live PROVE cached'[t] = NoRuleSet
      BY <2>2, <2>4, <3>1 DEF Kept
    <3>2. cached'[World] = ruleset
      <4>1. CASE World \in Asking(s)
        <5>1. n \in Above[World]
          BY <4>1, <2>1
        <5>2. World \in Above[n]
          BY <2>1, TreeAssumption
        <5>3. n = World
          BY <5>1, <5>2, <2>1, AboveOrder
        <5> QED BY <5>3, <2>2, <2>3, <4>1 DEF Kept
      <4>2. CASE World \notin Asking(s)
        BY <4>2, <2>2, <2>3 DEF Kept
      <4> QED BY <4>1, <4>2
    <3>3. DOMAIN cached' = Scopes
      BY DEF GetVariableDefinitions
    <3> QED BY <1>1, <2>3, <3>1, <3>2, <3>3 DEF Kept, Ready
  <2>6. Traced'
    <3>1. ASSUME NEW t \in Scopes
          PROVE  cached'[t] \in {NoRuleSet, ruleset} \/ Above[t] \cap missed # {}
      <4>1. CASE t \in Asking(s)
        <5>1. Above[n] \subseteq Above[t]
          BY <4>1, <2>1, AboveOrder
        <5>2. cached[n] = ruleset \/ Above[n] \cap missed # {}
          BY <2>1, <2>3 DEF Traced
        <5> QED BY <4>1, <2>2, <5>1, <5>2
      <4>2. CASE t \notin Asking(s)
        BY <4>2, <2>2, <2>3 DEF Traced
      <4> QED BY <4>1, <4>2
    <3> QED BY <1>1, <3>1 DEF Traced, Ready
  <2> QED BY <1>1, <2>5, <2>6 DEF Rooted
<1> QED BY <1>2, <1>3

-----------------------------------------------------------------------------
(* The other calls.                                                        *)

\* Once there are a world and a ruleset, what anyone still keeps was missed.
LEMMA PrepareKeepsInvariant ==
  ASSUME CacheInv, Prepare, UNCHANGED <<live, orphans>>, Ready => Ready',
         worldSet' => World \in registered'
  PROVE  CacheInv'
<1> USE DEF CacheInv
<1>1. Rooted'
  BY DEF Rooted
<1>2. CASE ~Ready'
  <2>1. UNCHANGED <<cached, missed>> /\ ~Ready
    BY <1>2 DEF Prepare, Ready
  <2> QED BY <1>1, <1>2, <2>1 DEF Kept, Traced
<1>3. CASE Ready'
  <2>1. /\ cached' = [s \in Scopes |->
                IF s = World THEN ruleset'
                ELSE IF s \in registered' THEN NoRuleSet ELSE cached[s]]
        /\ missed' = live \ registered'
    BY <1>3 DEF Prepare, Ready
  <2>2. World \in Scopes /\ World \in live
    BY KindsAssumption DEF Rooted
  <2>3. Kept'
    <3>1. \A s \in Scopes : s \notin live => cached'[s] = NoRuleSet
      BY <2>1, <2>2 DEF Kept
    <3> QED BY <1>3, <2>1, <2>2, <3>1 DEF Kept
  <2>4. Traced'
    <3>1. ASSUME NEW s \in Scopes, cached'[s] \notin {NoRuleSet, ruleset'}
          PROVE  Above[s] \cap missed' # {}
      <4>1. s \notin registered' /\ cached[s] # NoRuleSet
        BY <2>1, <3>1
      <4>2. s \in live
        BY <4>1 DEF Kept
      <4>3. s \in missed' /\ s \in Above[s]
        BY <2>1, <4>1, <4>2, TreeAssumption
      <4> QED BY <4>3
    <3> QED BY <3>1 DEF Traced
  <2> QED BY <1>1, <2>3, <2>4
<1> QED BY <1>2, <1>3

\* The session knows the world's scope as soon as it has the world.
WorldKnown == worldSet => World \in registered

\* A new scope keeps nothing.
LEMMA CreationKeepsInvariant ==
  ASSUME CacheInv, NEW s \in Scopes \ live, live' = live \cup {s}, Above[s] \ {s} \subseteq live,
         UNCHANGED <<cached, worldSet, ruleset, missed>>,
         orphans' = orphans \/ (s \in Improvements /\ orphans' = orphans \cup {s})
  PROVE  CacheInv'
<1>1. Rooted'
  BY DEF CacheInv, Rooted
<1> QED BY <1>1 DEF CacheInv, Kept, Traced, Ready

\* What a reload leaves is still rooted.
LEMMA HeldIsRooted ==
  ASSUME Rooted
  PROVE  MapScopes \subseteq Held /\ \A s \in Held : Above[s] \subseteq Held
<1> USE DEF Rooted
<1>1. MapScopes \subseteq Held
  BY KindsAssumption DEF Held
<1>2. ASSUME NEW s \in Held, NEW t \in Above[s] PROVE t \in Held
  <2>1. s \in live /\ s \in Scopes /\ t \in live
    BY DEF Held
  <2>2. t \in orphans \cup Cities => t = s
    BY <2>1, ImprovementsAreLeaves, CitiesAreLeaves
  <2> QED BY <2>1, <2>2 DEF Held
<1> QED BY <1>1, <1>2

\* The invariant is inductive.
LEMMA CacheStep ==
  ASSUME CacheInv, WorldKnown, [Next]_vars
  PROVE  CacheInv' /\ WorldKnown'
<1> USE DEF CacheInv
<1>0. World \in live
  BY KindsAssumption DEF Rooted
<1>1. CASE ReadDefinitions
  <2>1. PICK s \in live : GetVariableDefinitions(s)
    BY <1>1 DEF ReadDefinitions
  <2>2. WorldKnown'
    BY <2>1 DEF GetVariableDefinitions, session, WorldKnown
  <2> QED BY <2>1, <2>2, ReadKeepsInvariant
<1>2. CASE SetWorld
  <2>1. WorldKnown' /\ ~Ready
    BY <1>0, <1>2 DEF SetWorld, WorldKnown, Ready
  <2> QED BY <1>2, <2>1, PrepareKeepsInvariant DEF SetWorld, WorldKnown
<1>3. ASSUME NEW r \in RuleSets, SetRuleSet(r) PROVE CacheInv' /\ WorldKnown'
  <2>1. WorldKnown' /\ (Ready => Ready')
    BY <1>3, KindsAssumption DEF SetRuleSet, WorldKnown, Ready
  <2> QED BY <1>3, <2>1, PrepareKeepsInvariant DEF SetRuleSet, WorldKnown
<1>4. ASSUME NEW s \in Scopes, CreateScope(s) PROVE CacheInv' /\ WorldKnown'
  BY <1>4, CreationKeepsInvariant DEF CreateScope, session, WorldKnown
<1>5. ASSUME NEW s \in Scopes, CreateImprovement(s) PROVE CacheInv' /\ WorldKnown'
  <2>1. Above[s] \ {s} \subseteq live
    BY <1>5, TreeAssumption DEF CreateImprovement, Rooted
  <2> QED BY <1>5, <2>1, CreationKeepsInvariant DEF CreateImprovement, session, WorldKnown
<1>6. ASSUME NEW s \in Scopes, CreateClass(s) PROVE CacheInv' /\ WorldKnown'
  BY <1>6, CreationKeepsInvariant DEF CreateClass, session, WorldKnown
<1>7. ASSUME NEW s \in Scopes, AddImprovement(s) \/ AddScope(s) PROVE CacheInv' /\ WorldKnown'
  <2>1. UNCHANGED <<live, cached, worldSet, ruleset, missed>> /\ orphans' \subseteq orphans
    BY <1>7 DEF AddImprovement, AddScope, session
  <2>2. WorldKnown'
    BY <1>7, <2>1 DEF AddImprovement, AddScope, WorldKnown
  <2> QED BY <2>1, <2>2 DEF Rooted, Kept, Traced, Ready
<1>8. CASE Reload
  <2>1. Rooted'
    BY <1>8, HeldIsRooted DEF Reload, Rooted, Held
  <2>2. Kept' /\ Traced' /\ WorldKnown'
    BY <1>8 DEF Reload, Kept, Traced, WorldKnown, Ready
  <2> QED BY <2>1, <2>2
<1>9. CASE UNCHANGED vars
  BY <1>9 DEF vars, session, Rooted, Kept, Traced, Ready, WorldKnown
<1> QED BY <1>1, <1>2, <1>3, <1>4, <1>5, <1>6, <1>7, <1>8, <1>9 DEF Next

\* What scopes have kept is always current, or something above them was missed.
LEMMA CacheInvariant == Spec => [](CacheInv /\ WorldKnown)
<1>1. Init => CacheInv /\ WorldKnown
  BY KindsAssumption, TreeAssumption
     DEF Init, CacheInv, Rooted, Kept, Traced, Ready, WorldKnown
<1>2. CacheInv /\ WorldKnown /\ [Next]_vars => CacheInv' /\ WorldKnown'
  BY CacheStep
<1> QED BY <1>1, <1>2, PTL DEF Spec

-----------------------------------------------------------------------------
(* Theorems.                                                               *)

\* A scope works with other definitions than the ruleset's only if it, or a scope above
\* it, was unknown to the session when the ruleset was set (Session::Prepare).
THEOREM StaleIsExplained == Spec => []StaleOnlyIfMissed
<1>1. ASSUME CacheInv, Ready, NEW s \in live \ orphans, Effective(s) # ruleset
      PROVE  Above[s] \cap missed # {}
  <2>1. s \in Scopes /\ orphans \subseteq Improvements /\ Chain(s) = Above[s]
    BY <1>1 DEF CacheInv, Rooted, Chain
  <2>2. World \in Holders(s)
    BY <1>1, <2>1, TreeAssumption, KindsAssumption DEF CacheInv, Kept, Ready, Holders
  <2>3. PICK n \in Nearest(s) : TRUE
    BY <2>1, <2>2, SomeNearest
  <2>4. Effective(s) = cached[n] /\ n \in Scopes /\ n \in Above[s] /\ cached[n] # NoRuleSet
    BY <2>1, <2>3, OneNearest DEF Nearest, Holders
  <2>5. Above[n] \cap missed # {}
    BY <1>1, <2>4 DEF CacheInv, Traced
  <2>6. Above[n] \subseteq Above[s]
    BY <2>1, <2>4, AboveOrder
  <2> QED BY <2>5, <2>6
<1>2. CacheInv => StaleOnlyIfMissed
  BY <1>1 DEF StaleOnlyIfMissed, Ready
<1> QED BY <1>2, CacheInvariant, PTL

\* To read definitions changes nobody's (Scope::GetVariableDefinitions).
THEOREM ReadsAreTransparent == Spec => ReadingIsTransparent
<1>1. ASSUME CacheInv, ReadDefinitions, NEW t \in live
      PROVE  Effective(t)' = Effective(t)
  BY <1>1, ReadLeavesEffective DEF ReadDefinitions, CacheInv
<1>2. CacheInv /\ WorldKnown /\ [Next]_vars =>
        [ReadDefinitions => \A s \in live : Effective(s)' = Effective(s)]_vars
  BY <1>1
<1> QED BY <1>2, CacheInvariant, PTL DEF Spec, ReadingIsTransparent
=============================================================================
