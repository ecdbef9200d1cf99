------------------------- MODULE EffectExecutorProofs -------------------------
(***************************************************************************)
(* What EffectExecutor guarantees about turns and times, proved for all    *)
(* values of its constants.                                                *)
(*                                                                         *)
(* The world's turn is the modifier the session keeps in it.  No variable  *)
(* carries a later time; between turns, only what the session writes can   *)
(* carry the same time, as every turn ends by moving it on.  That is what  *)
(* makes the executor's comparison with the current turn mean what it does. *)
(***************************************************************************)
EXTENDS EffectExecutor, TLAPS

Clock == <<World, CoreTurn>>
WorldTurn == mods[Clock][Session]

\* Modifiers and times are tables, and the world's turn is a number.
Tables ==
    /\ DOMAIN mods = Places
    /\ \A p \in Places : DOMAIN mods[p] = Keys
    /\ stamp \in [Places -> Nat]
    /\ WorldTurn \in Nat /\ turn \in Nat
    /\ executing => Ready

Follows == \A p \in Places : stamp[p] <= WorldTurn

\* The session's counter is never ahead of the world's, and is it when both are set.
Carried == turn <= WorldTurn /\ (Ready => turn = WorldTurn)

\* Between turns only the session's own variables can have been modified now.
Quiet ==
    ~executing => \A s \in Scopes, v \in Variables \ {CoreTurn, CoreClass} :
        stamp[<<s, v>>] < WorldTurn \/ stamp[<<s, v>>] = 0

\* A scope created in this turn is known, and its class carries the time.
Fresh ==
    /\ fresh \subseteq present
    /\ present \subseteq Scopes
    /\ worldSet => fresh \subseteq registered
    /\ \A s \in fresh : stamp[<<s, CoreClass>>] = WorldTurn

\* The ruleset in force is one of the rulesets; what waits are effects and scopes.
Known ==
    /\ ruleset \in RuleSets \cup {NoRuleSet}
    /\ registered \subseteq Scopes
    /\ pending \subseteq Effects \X Scopes

TurnInv == Tables /\ Follows /\ Carried /\ Quiet /\ Fresh

-----------------------------------------------------------------------------
(* Places and times.                                                       *)

\* The clock is a place and the session's key one of the keys.
LEMMA ClockPlace == Clock \in Places /\ Session \in Keys
  BY ScopesAssumption, EffectsAssumption DEF Clock, Places, Keys

\* The turn is never the time of a scope's class or of a plain variable.
LEMMA NotClock ==
  ASSUME NEW s \in Scopes, NEW v \in Variables \ {CoreTurn}
  PROVE  <<s, v>> \in Places /\ <<s, v>> # Clock
  BY DEF Clock, Places

\* A modification in the current turn leaves a time that is not later.
LEMMA StampedBound ==
  ASSUME NEW old \in Nat, NEW time \in Nat, old <= time
  PROVE  Stamped(old, time) \in Nat /\ Stamped(old, time) = time
  BY DEF Stamped

\* Tables of modifiers.
Modifiers(m) == DOMAIN m = Places /\ \A p \in Places : DOMAIN m[p] = Keys

\* Setting one modifier leaves a table, and every other modifier as it was.
LEMMA SetOne ==
  ASSUME NEW m, Modifiers(m), NEW p \in Places, NEW k \in Keys, NEW amount
  PROVE  /\ Modifiers(SetModifier(m, p, k, amount))
         /\ SetModifier(m, p, k, amount)[p][k] = amount
         /\ \A q \in Places : q # p => SetModifier(m, p, k, amount)[q] = m[q]
  BY DEF SetModifier, Modifiers

\* SetCurrentTurn moves the clock and nothing else, and the clock's time is the turn.
LEMMA ClockSet ==
  ASSUME NEW value \in Nat, NEW m, NEW st,
         Modifiers(m), st \in [Places -> Nat], \A p \in Places : st[p] <= value,
         SetCurrentTurn(value, m, st)
  PROVE  /\ Modifiers(mods)'
         /\ WorldTurn' = value /\ turn' = value
         /\ stamp' \in [Places -> Nat]
         /\ \A p \in Places : stamp'[p] <= value
         /\ \A p \in Places : p # Clock => stamp'[p] = st[p]
<1>1. Modifiers(mods)' /\ mods'[Clock][Session] = value
  BY ClockPlace, SetOne DEF SetCurrentTurn, Clock, Modifiers
<1>2. stamp' = [st EXCEPT ![Clock] = Stamped(st[Clock], value)]
  BY DEF SetCurrentTurn, Clock
<1>3. Stamped(st[Clock], value) = value
  BY ClockPlace, StampedBound
<1>4. stamp' \in [Places -> Nat] /\ \A p \in Places : stamp'[p] = IF p = Clock THEN value ELSE st[p]
  BY <1>2, <1>3, ClockPlace
<1> QED BY <1>1, <1>4 DEF SetCurrentTurn, WorldTurn, Clock

\* Prepare leaves the world's turn and reads it back if there is a world and a ruleset.
LEMMA Prepared ==
  ASSUME Tables, Follows, Carried, Prepare
  PROVE  /\ Modifiers(mods)'
         /\ WorldTurn' = WorldTurn /\ turn' \in Nat
         /\ stamp' \in [Places -> Nat]
         /\ Follows'
         /\ Carried'
         /\ \A p \in Places : p # Clock => stamp'[p] = stamp[p]
<1>1. CASE worldSet' /\ ruleset' # NoRuleSet
  <2>1. SetCurrentTurn(WorldTurn, mods, stamp)
    BY <1>1 DEF Prepare, WorldTurn, Clock
  <2> QED BY <2>1, ClockSet DEF Tables, Modifiers, Follows, Carried
<1>2. CASE ~(worldSet' /\ ruleset' # NoRuleSet)
  <2>1. UNCHANGED <<turn, mods, stamp>>
    BY <1>2 DEF Prepare
  <2> QED BY <1>2, <2>1 DEF Tables, Modifiers, Follows, Carried, Ready, WorldTurn, Clock
<1> QED BY <1>1, <1>2

-----------------------------------------------------------------------------
(* The calls between turns.                                                *)

\* A new game.
LEMMA TurnInit == ExecutorInit => TurnInv
<1> SUFFICES ASSUME ExecutorInit PROVE TurnInv OBVIOUS
<1>1. mods[Clock][Session] = 0
  BY ClockPlace DEF ExecutorInit, Init
<1> USE DEF ExecutorInit, Init
<1>2. Tables BY <1>1 DEF Tables, WorldTurn, Ready
<1>3. Follows BY <1>1 DEF Follows, WorldTurn
<1>4. Carried BY <1>1 DEF Carried, WorldTurn, Ready
<1>5. Quiet BY DEF Quiet, Places
<1>6. Fresh BY ScopesAssumption DEF Fresh
<1> QED BY <1>2, <1>3, <1>4, <1>5, <1>6 DEF TurnInv

\* What a call between turns leaves to show: scopes and times.
LEMMA QuietKept ==
  ASSUME TurnInv, stamp' \in [Places -> Nat], WorldTurn' = WorldTurn,
         ~executing, ~executing',
         \A s \in Scopes, v \in Variables \ {CoreTurn, CoreClass} :
             stamp'[<<s, v>>] = stamp[<<s, v>>]
  PROVE  Quiet'
  BY DEF TurnInv, Quiet

\* What every call between turns keeps, once it is known to keep scopes in order.
LEMMA CallKeeps ==
  ASSUME TurnInv, ~executing, ~executing',
         Modifiers(mods)', WorldTurn' = WorldTurn, turn' \in Nat,
         stamp' \in [Places -> Nat], Follows', Carried', Fresh',
         \A s \in Scopes, v \in Variables \ {CoreTurn, CoreClass} :
             stamp'[<<s, v>>] = stamp[<<s, v>>]
  PROVE  TurnInv'
<1>1. Tables'
  BY DEF TurnInv, Tables, Modifiers
<1>2. Quiet'
  BY QuietKept
<1> QED BY <1>1, <1>2 DEF TurnInv

\* Session::SetWorld.
LEMMA SetWorldTurn ==
  ASSUME TurnInv, ~executing, ~executing', SetWorld, fresh' = fresh
  PROVE  TurnInv'
<1> USE DEF TurnInv
<1>1. Prepare BY DEF SetWorld
<1>2. \A s \in Scopes, v \in Variables \ {CoreTurn} : stamp'[<<s, v>>] = stamp[<<s, v>>]
  BY <1>1, Prepared, NotClock
<1>3. Fresh'
  <2>1. \A s \in fresh : stamp'[<<s, CoreClass>>] = WorldTurn'
    BY <1>1, <1>2, Prepared, EffectsAssumption DEF Fresh
  <2> QED BY <2>1 DEF Fresh, SetWorld
<1> QED BY <1>1, <1>2, <1>3, Prepared, CallKeeps

\* Session::SetRuleSet.
LEMMA SetRuleSetTurn ==
  ASSUME TurnInv, ~executing, ~executing', NEW r \in RuleSets, SetRuleSet(r),
         fresh' = fresh
  PROVE  TurnInv'
<1> USE DEF TurnInv
<1>1. Prepare BY DEF SetRuleSet
<1>2. \A s \in Scopes, v \in Variables \ {CoreTurn} : stamp'[<<s, v>>] = stamp[<<s, v>>]
  BY <1>1, Prepared, NotClock
<1>3. Fresh'
  <2>1. \A s \in fresh : stamp'[<<s, CoreClass>>] = WorldTurn'
    BY <1>1, <1>2, Prepared, EffectsAssumption DEF Fresh
  <2> QED BY <2>1 DEF Fresh, SetRuleSet, Ready
<1> QED BY <1>1, <1>2, <1>3, Prepared, CallKeeps

\* Session::CreateCivilizationScope.
LEMMA CreateCivilizationTurn ==
  ASSUME TurnInv, ~executing, ~executing', NEW c \in Civs, CreateCivilization(c), fresh' = fresh
  PROVE  TurnInv'
<1> USE DEF TurnInv, CreateCivilization
<1>1. Modifiers(mods)' /\ WorldTurn' = WorldTurn /\ turn' \in Nat /\ stamp' \in [Places -> Nat]
  BY DEF Tables, Modifiers, WorldTurn
<1>2. Follows' /\ Carried'
  BY <1>1 DEF Follows, Carried, Ready
<1>3. Fresh'
  BY <1>1, ScopesAssumption DEF Fresh
<1> QED BY <1>1, <1>2, <1>3, CallKeeps

\* The other creations: the class is stamped with the current turn.
LEMMA CreateScopeTurn ==
  ASSUME TurnInv, ~executing, ~executing', NEW s \in Scopes, NEW class, CreateScope(s, class),
         fresh' = IF Ready THEN fresh \cup {s} ELSE fresh
  PROVE  TurnInv'
<1> USE DEF TurnInv, CreateScope, PlaceAndRegister
<1> DEFINE p == <<s, CoreClass>>
<1>1. p \in Places /\ p # Clock
  BY NotClock, EffectsAssumption
<1>2. Modifiers(mods)' /\ WorldTurn' = WorldTurn
  BY <1>1, SetOne, ClockPlace DEF Tables, Modifiers, WorldTurn
<1>3. turn' \in Nat /\ turn' = turn /\ (Ready' <=> Ready)
  BY DEF Tables, Ready
<1>4. /\ stamp' \in [Places -> Nat]
      /\ stamp'[p] = Stamped(stamp[p], turn)
      /\ \A q \in Places : q # p => stamp'[q] = stamp[q]
  BY <1>1 DEF Tables, Stamped
<1>5. /\ stamp'[p] <= WorldTurn
      /\ Ready => stamp'[p] = WorldTurn
  <2>1. stamp[p] \in Nat /\ stamp[p] <= WorldTurn /\ turn <= WorldTurn
    BY <1>1 DEF Tables, Follows, Carried
  <2>2. stamp'[p] <= WorldTurn
    BY <1>4, <2>1 DEF Stamped
  <2>3. Ready => stamp'[p] = WorldTurn
    BY <1>4, <2>1, StampedBound DEF Tables, Carried
  <2> QED BY <2>2, <2>3
<1>6. Follows' /\ Carried'
  BY <1>2, <1>3, <1>4, <1>5 DEF Follows, Carried
<1>7. \A t \in Scopes, v \in Variables \ {CoreTurn, CoreClass} : stamp'[<<t, v>>] = stamp[<<t, v>>]
  BY <1>4, NotClock
<1>8. Fresh'
  <2>1. \A t \in fresh : t # s /\ <<t, CoreClass>> \in Places
    BY EffectsAssumption DEF Fresh, Places
  <2>2. \A t \in fresh : stamp'[<<t, CoreClass>>] = WorldTurn'
    BY <2>1, <1>2, <1>4 DEF Fresh
  <2> QED BY <2>2, <1>2, <1>5 DEF Fresh
<1> QED BY <1>2, <1>3, <1>4, <1>6, <1>7, <1>8, CallKeeps

\* Map generation and the debug tools.
LEMMA AddModifierTurn ==
  ASSUME TurnInv, ~executing, ~executing', NEW p \in Given, NEW amount,
         AddModifier(p, amount), fresh' = fresh
  PROVE  TurnInv'
<1> USE DEF TurnInv, AddModifier
<1>1. p \in Places /\ p # Clock
  BY NumbersAssumption DEF Places, Clock
<1>2. Modifiers(mods)' /\ WorldTurn' = WorldTurn
  BY <1>1, SetOne, ClockPlace DEF Tables, Modifiers, WorldTurn
<1>3. Follows' /\ Carried' /\ Fresh'
  BY <1>2 DEF Follows, Carried, Ready, Fresh
<1> QED BY <1>2, <1>3, CallKeeps DEF Tables

\* A new session for the saved world.
LEMMA ReloadTurn ==
  ASSUME TurnInv, ~executing, ~executing', Reload, fresh' = fresh
  PROVE  TurnInv'
<1> USE DEF TurnInv, Reload
<1>1. Modifiers(mods)' /\ WorldTurn' = WorldTurn
  BY DEF Tables, Modifiers, WorldTurn
<1>2. Follows' /\ Carried' /\ Fresh'
  BY <1>1 DEF Follows, Carried, Ready, Fresh, Tables
<1> QED BY <1>1, <1>2, CallKeeps DEF Tables

\* Any call between turns.
LEMMA CallTurn == ASSUME TurnInv, CallBetweenTurns PROVE TurnInv'
<1>1. ~executing /\ ~executing'
  BY DEF CallBetweenTurns
<1>2. CASE SetWorld
  <2>1. fresh' = fresh BY <1>2 DEF CallBetweenTurns, SetWorld
  <2> QED BY <1>1, <1>2, <2>1, SetWorldTurn
<1>3. ASSUME NEW r \in RuleSets, SetRuleSet(r) PROVE TurnInv'
  <2>1. fresh' = fresh BY <1>3 DEF CallBetweenTurns, SetRuleSet
  <2> QED BY <1>1, <1>3, <2>1, SetRuleSetTurn
<1>4. ASSUME NEW c \in Civs, CreateCivilization(c) PROVE TurnInv'
  <2>1. fresh' = fresh BY <1>4 DEF CallBetweenTurns, CreateCivilization
  <2> QED BY <1>1, <1>4, <2>1, CreateCivilizationTurn
<1>5. ASSUME NEW s \in Scopes, NEW class \in Amounts, CreateScope(s, class) PROVE TurnInv'
  <2>1. present' \ (present \cup Civs) = {s}
    BY <1>5 DEF CreateScope, PlaceAndRegister
  <2>2. fresh' = IF Ready THEN fresh \cup {s} ELSE fresh
    BY <2>1 DEF CallBetweenTurns
  <2> QED BY <1>1, <1>5, <2>2, CreateScopeTurn
<1>6. ASSUME NEW p \in Given, NEW amount \in Amounts, AddModifier(p, amount) PROVE TurnInv'
  <2>1. fresh' = fresh BY <1>6 DEF CallBetweenTurns, AddModifier
  <2> QED BY <1>1, <1>6, <2>1, AddModifierTurn
<1>7. CASE Reload
  <2>1. fresh' = fresh BY <1>7 DEF CallBetweenTurns, Reload
  <2> QED BY <1>1, <1>7, <2>1, ReloadTurn
<1> QED BY <1>2, <1>3, <1>4, <1>5, <1>6, <1>7 DEF CallBetweenTurns, BetweenTurns

-----------------------------------------------------------------------------
(* The steps of a turn.                                                    *)

\* A step of the executor changes modifiers of effects only, never the session's.
LEMMA ScriptKeepsClock ==
  ASSUME Modifiers(mods), NEW e \in Effects, NEW s, NEW view
  PROVE  /\ Modifiers(AfterScript(e, s, view, mods))
         /\ AfterScript(e, s, view, mods)[Clock][Session] = mods[Clock][Session]
<1>1. \A p \in Places : DOMAIN AfterScript(e, s, view, mods)[p] = Keys
  BY DEF AfterScript, Modifiers
<1>2. e # Session
  BY EffectsAssumption
<1> QED BY <1>1, <1>2, ClockPlace DEF AfterScript, Modifiers

\* EffectExecutor::Execute, one iteration of its second loop.
LEMMA ExecuteTurn ==
  ASSUME TurnInv, NEW e \in Effects, NEW s, ExecuteEffect(e, s)
  PROVE  TurnInv'
<1> USE DEF TurnInv, ExecuteEffect
<1> DEFINE P == Modifies(e, s, View(e, s, mods))
<1>1. Modifiers(mods)' /\ WorldTurn' = WorldTurn
  BY ScriptKeepsClock DEF Tables, Modifiers, WorldTurn
<1>2. turn \in Nat /\ turn = WorldTurn /\ Ready
  BY DEF Tables, Carried
<1>3. stamp' = StampsAfter(P, stamp)
  OBVIOUS
<1>4. ASSUME NEW p \in Places
      PROVE  stamp'[p] \in Nat /\ (stamp'[p] = stamp[p] \/ stamp'[p] = WorldTurn)
  BY <1>2, <1>3 DEF StampsAfter, Stamped, Tables
<1>5. stamp' \in [Places -> Nat]
  BY <1>3, <1>4 DEF StampsAfter
<1>6. Tables'
  BY <1>1, <1>2, <1>5 DEF Tables, Modifiers, Ready
<1>7. Follows' /\ Carried'
  BY <1>1, <1>2, <1>4 DEF Follows, Carried, Ready, Tables
<1>8. Quiet'
  BY DEF Quiet, Tables
<1>9. Fresh'
  <2>1. \A t \in fresh : <<t, CoreClass>> \in Places
    BY EffectsAssumption DEF Fresh, Places
  <2> QED BY <1>1, <1>4, <2>1 DEF Fresh, scopes
<1> QED BY <1>6, <1>7, <1>8, <1>9

\* Session::AdvanceNextTurn, its end: the clock leaves every other time behind.
LEMMA EndTurnTurn ==
  ASSUME TurnInv, EndTurn
  PROVE  TurnInv'
<1> USE DEF TurnInv, EndTurn
<1>1. turn \in Nat /\ turn = WorldTurn /\ Ready /\ WorldTurn \in Nat
  BY DEF Tables, Carried
<1>2. \A p \in Places : stamp[p] \in Nat /\ stamp[p] <= turn + 1
  BY <1>1 DEF Tables, Follows
<1>3. /\ Modifiers(mods)'
      /\ WorldTurn' = turn + 1 /\ turn' = turn + 1
      /\ stamp' \in [Places -> Nat]
      /\ \A p \in Places : stamp'[p] <= turn + 1
      /\ \A p \in Places : p # Clock => stamp'[p] = stamp[p]
  BY <1>1, <1>2, ClockSet DEF Tables, Modifiers
<1>4. Tables'
  BY <1>1, <1>3 DEF Tables, Modifiers, Ready
<1>5. Follows' /\ Carried'
  BY <1>1, <1>3 DEF Follows, Carried
<1>6. Quiet'
  <2> SUFFICES ASSUME NEW s \in Scopes, NEW v \in Variables \ {CoreTurn, CoreClass}
               PROVE  stamp'[<<s, v>>] < WorldTurn'
    BY DEF Quiet
  <2>1. <<s, v>> \in Places /\ <<s, v>> # Clock
    BY NotClock
  <2>2. stamp'[<<s, v>>] = stamp[<<s, v>>] /\ stamp[<<s, v>>] \in Nat
            /\ stamp[<<s, v>>] <= WorldTurn
    BY <2>1, <1>3 DEF Tables, Follows
  <2> QED BY <2>2, <1>1, <1>3
<1>7. Fresh'
  BY DEF Fresh, scopes
<1> QED BY <1>4, <1>5, <1>6, <1>7

\* What is known stays in order.
LEMMA KnownStep == ASSUME TurnInv, Known, [ExecutorNext]_allVars PROVE Known'
<1> USE DEF Known
<1>1. ASSUME CallBetweenTurns PROVE Known'
  <2>1. pending' = pending BY <1>1 DEF CallBetweenTurns
  <2>2. ruleset' \in RuleSets \cup {NoRuleSet}
    BY <1>1 DEF CallBetweenTurns, BetweenTurns, SetWorld, SetRuleSet, CreateCivilization,
                CreateScope, AddModifier, Reload
  <2>3. registered' \subseteq Scopes
    BY <1>1 DEF CallBetweenTurns, BetweenTurns, SetWorld, SetRuleSet, CreateCivilization,
                CreateScope, PlaceAndRegister, AddModifier, Reload, TurnInv, Fresh
  <2> QED BY <2>1, <2>2, <2>3
<1>2. CASE BeginTurn
  <2>1. ruleset \subseteq Effects
    BY <1>2, EffectsAssumption DEF BeginTurn, Ready
  <2> QED BY <1>2, <2>1 DEF BeginTurn, Collect, Due, vars
<1>3. ASSUME NEW x \in pending, ExecuteEffect(x[1], x[2]) PROVE Known'
  BY <1>3 DEF ExecuteEffect, scopes
<1>4. CASE EndTurn
  BY <1>4 DEF EndTurn, scopes
<1>5. CASE UNCHANGED allVars
  BY <1>5 DEF allVars, executorVars, vars
<1> QED BY <1>1, <1>2, <1>3, <1>4, <1>5 DEF ExecutorNext

\* The invariant is inductive.
LEMMA TurnStep == ASSUME TurnInv, Known, [ExecutorNext]_allVars PROVE TurnInv'
<1>1. CASE CallBetweenTurns
  BY <1>1, CallTurn
<1>2. ASSUME \/ BeginTurn
             \/ UNCHANGED allVars
      PROVE  TurnInv'
  <2>1. UNCHANGED <<vars, fresh>> /\ (executing' => executing \/ Ready) /\ (~executing'
            => ~executing)
    BY <1>2 DEF BeginTurn, allVars, executorVars
  <2>2. WorldTurn' = WorldTurn /\ (Ready' <=> Ready)
    BY <2>1 DEF vars, WorldTurn, Ready
  <2> QED BY <2>1, <2>2 DEF vars, TurnInv, Tables, Follows, Carried, Quiet, Fresh
<1>3. ASSUME NEW x \in pending, ExecuteEffect(x[1], x[2]) PROVE TurnInv'
  BY <1>3, ExecuteTurn DEF Known
<1>4. CASE EndTurn
  BY <1>4, EndTurnTurn
<1> QED BY <1>1, <1>2, <1>3, <1>4 DEF ExecutorNext

-----------------------------------------------------------------------------
(* Theorems.                                                               *)

\* Both invariants hold throughout.
LEMMA TurnInvariant == ExecutorSpec => [](TurnInv /\ Known)
<1>1. ExecutorInit => TurnInv /\ Known
  BY TurnInit DEF ExecutorInit, Init, Known
<1>2. TurnInv /\ Known /\ [ExecutorNext]_allVars => TurnInv' /\ Known'
  BY TurnStep, KnownStep
<1> QED BY <1>1, <1>2, PTL DEF ExecutorSpec

\* No variable carries a time later than the current turn, whatever effects the
\* ruleset has and however often the game is saved, loaded or given another ruleset:
\* what EffectExecutor::Execute compares with >= can only be equal.
THEOREM StampsNeverLater == ExecutorSpec => []StampsFollowTurn
<1>1. TurnInv => StampsFollowTurn
  BY DEF TurnInv, Carried, Follows, StampsFollowTurn
<1> QED BY <1>1, TurnInvariant, PTL

\* The session's turn is the one its world carries (Session::Prepare).
THEOREM TurnIsTheWorlds == ExecutorSpec => []TurnCarried
<1>1. TurnInv => TurnCarried
  BY DEF TurnInv, Carried, WorldTurn, Clock, TurnCarried
<1> QED BY <1>1, TurnInvariant, PTL

\* After the first turn no effect runs unless it depends on a variable that the
\* session writes: what effects change wakes nothing (EffectExecutor::Execute).
THEOREM OnlySessionWakesEffects == ExecutorSpec => OnlySessionWakes
<1>1. ASSUME TurnInv, Known, BeginTurn, turn > 0, NEW x \in pending'
      PROVE  Deps[x[1]] \cap {CoreTurn, CoreClass} # {}
  <2>1. x \in Due
    BY <1>1 DEF BeginTurn, Collect
  <2>2. x[1] \in Effects /\ x[2] \in Scopes
    BY <1>1, <2>1, EffectsAssumption DEF Due, BeginTurn, Ready, Known
  <2>3. PICK p \in Reach[x[2]] \X Deps[x[1]] : stamp[p] >= turn
    BY <2>1 DEF Due, Recent
  <2>4. p = <<p[1], p[2]>> /\ p[1] \in Scopes /\ p[2] \in Deps[x[1]] /\ p[2] \in Variables
    BY <2>2, <2>3, ScopesAssumption, EffectsAssumption
  <2>5. turn \in Nat /\ turn = WorldTurn /\ stamp[p] \in Nat
    BY <1>1, <2>4 DEF TurnInv, Tables, Carried, BeginTurn, Places
  <2>6. CASE p[2] \notin {CoreTurn, CoreClass}
    <3>1. stamp[p] < WorldTurn \/ stamp[p] = 0
      BY <1>1, <2>4, <2>6 DEF TurnInv, Quiet, BeginTurn
    <3> QED BY <3>1, <2>3, <2>5, <1>1
  <2>7. CASE p[2] \in {CoreTurn, CoreClass}
    BY <2>4, <2>7
  <2> QED BY <2>6, <2>7
<1>2. TurnInv /\ Known /\ [ExecutorNext]_allVars =>
        [BeginTurn /\ turn > 0 =>
            \A x \in pending' : Deps[x[1]] \cap {CoreTurn, CoreClass} # {}]_allVars
  BY <1>1
<1> QED BY <1>2, TurnInvariant, PTL DEF ExecutorSpec, OnlySessionWakes

\* A scope runs the effects of its class in the turn it was created in, whatever the
\* session did before the turn began (Session::SetCoreClass, EffectExecutor::Execute).
THEOREM CreatedScopesAreWoken == ExecutorSpec => CreatedScopesWake
<1>1. ASSUME TurnInv, Known, BeginTurn, NEW s \in fresh, NEW e \in ruleset, CoreClass \in Deps[e]
      PROVE  RunsFor(e, s)
  <2> SUFFICES ASSUME s \in Targets[e], Possible(e, View(e, s, mods))
               PROVE  <<e, s>> \in Due
    BY <1>1 DEF RunsFor, BeginTurn, Collect
  <2>1. Ready /\ s \in registered /\ s \in Scopes
    BY <1>1 DEF BeginTurn, TurnInv, Fresh, Ready
  <2>2. stamp[<<s, CoreClass>>] = turn /\ turn \in Nat
    BY <1>1, <2>1 DEF TurnInv, Fresh, Carried, Tables
  <2>3. Recent(e, s, stamp, turn)
    <3>1. <<s, CoreClass>> \in Reach[s] \X Deps[e]
      BY <1>1, <2>1, ScopesAssumption
    <3>2. stamp[<<s, CoreClass>>] >= turn
      BY <2>2
    <3> QED BY <3>1, <3>2 DEF Recent
  <2> QED BY <1>1, <2>1, <2>3 DEF Due
<1>2. TurnInv /\ Known /\ [ExecutorNext]_allVars =>
        [BeginTurn => \A s \in fresh, e \in ruleset : CoreClass \in Deps[e]
             => RunsFor(e, s)]_allVars
  BY <1>1
<1> QED BY <1>2, TurnInvariant, PTL DEF ExecutorSpec, CreatedScopesWake

-----------------------------------------------------------------------------
(* A turn taken effect by effect is a turn taken at once: EffectExecutor    *)
(* implements Turns, for any world and any rulesets whose effects are       *)
(* independent, in any order of the effects.                                *)

\* Scripts modify the variables their effect declares.
ScriptsWriteDeclared == \A e \in Effects : \A view : DOMAIN Script(e, view) \subseteq Writes[e]

IndependentRuleSets == \A r \in RuleSets : Independent(r)

\* Modifiers and times a turn leaves when, of all that is due, done has run.
ModsAfter(done) ==
    [p \in Places |-> [k \in Keys |->
        IF <<k, p[1]>> \in done
        THEN AfterScript(k, p[1], View(k, p[1], before[1]), before[1])[p][k]
        ELSE before[1][p][k]]]

PlacesAfter(done) == UNION {Modifies(x[1], x[2], View(x[1], x[2], before[1])) : x \in done}

\* The effects that were due when the turn began.
DueBefore ==
    {x \in ruleset \X registered :
        /\ x[2] \in Targets[x[1]]
        /\ Recent(x[1], x[2], before[2], turn)
        /\ Possible(x[1], View(x[1], x[2], before[1]))}

\* A function of places and of keys.
IsTable(m) == m = [p \in Places |-> [k \in Keys |-> m[p][k]]]

\* Outside a turn everybody sees what there is; inside, it is what the effects that have
\* run would have left had each of them seen the state the turn found.
HalfDone ==
    /\ IsTable(before[1])
    /\ before[2] \in [Places -> Nat]
    /\ ~executing => before = data
    /\ executing =>
        /\ turn < MaxTurn
        /\ pending \subseteq DueBefore
        /\ mods = ModsAfter(DueBefore \ pending)
        /\ stamp = StampsAfter(PlacesAfter(DueBefore \ pending), before[2])

-----------------------------------------------------------------------------
(* Tables.                                                                 *)

LEMMA TableSet ==
  ASSUME NEW m, IsTable(m), NEW p \in Places, NEW k \in Keys, NEW amount
  PROVE  IsTable(SetModifier(m, p, k, amount))
<1> DEFINE n == SetModifier(m, p, k, amount)
<1>1. n = [q \in Places |-> n[q]]
  BY DEF IsTable, SetModifier
<1>2. ASSUME NEW q \in Places PROVE n[q] = [j \in Keys |-> n[q][j]]
  <2>1. m[q] = [j \in Keys |-> m[q][j]]
    BY DEF IsTable
  <2>2. CASE q = p
    BY <2>1, <2>2 DEF SetModifier, IsTable
  <2>3. CASE q # p
    <3>1. n[q] = m[q]
      BY <2>3 DEF SetModifier, IsTable
    <3> QED BY <2>1, <3>1
  <2> QED BY <2>2, <2>3
<1> HIDE DEF n
<1>3. [q \in Places |-> n[q]] = [q \in Places |-> [j \in Keys |-> n[q][j]]]
  BY <1>2
<1>4. IsTable(n)
  BY <1>1, <1>3, Zenon DEF IsTable
<1> QED BY <1>4 DEF n

\* Two tables with the same modifiers are the same.
LEMMA SameModifiers ==
  ASSUME NEW m, NEW n, IsTable(m), IsTable(n), NEW p \in Places,
         \A k \in Keys : m[p][k] = n[p][k]
  PROVE  m[p] = n[p]
<1>1. m[p] = [k \in Keys |-> m[p][k]] /\ n[p] = [k \in Keys |-> n[p][k]]
  BY DEF IsTable
<1>2. [k \in Keys |-> m[p][k]] = [k \in Keys |-> n[p][k]]
  OBVIOUS
<1> QED BY <1>1, <1>2, Zenon

\* The modifiers that some effects of a turn leave are a table.
LEMMA AfterIsTable == ASSUME NEW done PROVE IsTable(ModsAfter(done))
<1>1. ASSUME NEW p \in Places
      PROVE  ModsAfter(done)[p] = [k \in Keys |-> ModsAfter(done)[p][k]]
  BY DEF ModsAfter
<1>2. ModsAfter(done) = [p \in Places |-> ModsAfter(done)[p]]
  BY DEF ModsAfter
<1> QED BY <1>1, <1>2 DEF IsTable

-----------------------------------------------------------------------------
(* One effect after another.                                               *)

\* Nothing an effect reads was changed by those that ran before it.
LEMMA SeesTheSame ==
  ASSUME IndependentRuleSets, ScriptsWriteDeclared, Known, IsTable(before[1]),
         Ready, NEW done \in SUBSET DueBefore, NEW x \in DueBefore \ done,
         mods = ModsAfter(done)
  PROVE  View(x[1], x[2], mods) = View(x[1], x[2], before[1])
<1> DEFINE e == x[1]
           s == x[2]
<1>1. /\ ruleset \in RuleSets /\ ruleset \subseteq Effects /\ registered \subseteq Scopes
      /\ x = <<e, s>> /\ e \in ruleset /\ s \in Scopes /\ s \in Targets[e]
  BY EffectsAssumption DEF Known, Ready, DueBefore
<1>2. Reach[s] \subseteq Scopes /\ Reads[e] \subseteq Variables
  BY <1>1, ScopesAssumption, EffectsAssumption
<1> SUFFICES ASSUME NEW p \in Reach[s] \X Reads[e] PROVE mods[p] = before[1][p]
  BY DEF View
<1>3. p \in Places /\ p = <<p[1], p[2]>> /\ p[1] \in Reach[s] /\ p[2] \in Reads[e]
  BY <1>2 DEF Places
<1>4. ASSUME NEW k \in Keys PROVE mods[p][k] = before[1][p][k]
  <2>1. mods[p][k] = IF <<k, p[1]>> \in done
                     THEN AfterScript(k, p[1], View(k, p[1], before[1]), before[1])[p][k]
                     ELSE before[1][p][k]
    BY <1>3 DEF ModsAfter
  <2>2. CASE <<k, p[1]>> \in done
    <3>1. k \in ruleset /\ k \in Effects /\ p[1] \in Targets[k] /\ <<k, p[1]>> # <<e, s>>
      BY <1>1, <2>2 DEF DueBefore
    <3>2. Reads[e] \cap Writes[k] = {}
      BY <1>1, <1>3, <3>1 DEF IndependentRuleSets, Independent
    <3>3. p[2] \notin DOMAIN Script(k, View(k, p[1], before[1]))
      BY <1>3, <3>1, <3>2 DEF ScriptsWriteDeclared
    <3>4. p \notin Modifies(k, p[1], View(k, p[1], before[1]))
      BY <1>3, <3>3 DEF Modifies
    <3> QED BY <1>3, <2>1, <2>2, <3>4 DEF AfterScript
  <2> QED BY <2>1, <2>2
<1> QED BY <1>3, <1>4, AfterIsTable, SameModifiers

\* Stamping in two steps is stamping once.
LEMMA StampedTwice ==
  ASSUME NEW st \in [Places -> Nat], turn \in Nat, NEW P, NEW Q
  PROVE  StampsAfter(Q, StampsAfter(P, st)) = StampsAfter(P \cup Q, st)
  BY DEF StampsAfter, Stamped

\* What an effect changes was not changed before it ran, under its key.
LEMMA OneMoreDone ==
  ASSUME IsTable(before[1]), NEW done, NEW e \in Effects, NEW s, <<e, s>> \notin done
  PROVE  AfterScript(e, s, View(e, s, before[1]), ModsAfter(done)) = ModsAfter(done \cup {<<e, s>>})
<1> DEFINE view == View(e, s, before[1])
           left == AfterScript(e, s, view, ModsAfter(done))
           right == ModsAfter(done \cup {<<e, s>>})
<1> SUFFICES ASSUME NEW p \in Places PROVE left[p] = right[p]
  BY DEF AfterScript, ModsAfter
<1>1. /\ ModsAfter(done)[p] = [k \in Keys |-> ModsAfter(done)[p][k]]
      /\ right[p] = [k \in Keys |-> right[p][k]]
  BY DEF ModsAfter
<1>2. DOMAIN before[1][p] = Keys /\ e \in Keys
  <2>1. before[1][p] = [k \in Keys |-> before[1][p][k]]
    BY DEF IsTable
  <2> QED BY <2>1 DEF Keys
<1>3. left[p] = [k \in Keys |-> left[p][k]]
  BY <1>1 DEF AfterScript
<1>4. ASSUME NEW k \in Keys, <<k, p[1]>> # <<e, s>> PROVE left[p][k] = right[p][k]
  <2>1. right[p][k] = ModsAfter(done)[p][k]
    BY <1>4 DEF ModsAfter
  <2>2. left[p][k] = ModsAfter(done)[p][k]
    <3>1. CASE k = e
      <4>1. p \notin Modifies(e, s, view)
        BY <1>4, <3>1 DEF Modifies
      <4> QED BY <4>1 DEF AfterScript
    <3>2. CASE k # e
      BY <1>1, <3>2 DEF AfterScript
    <3> QED BY <3>1, <3>2
  <2> QED BY <2>1, <2>2
<1>5. ASSUME p[1] = s PROVE left[p][e] = right[p][e]
  <2>1. ModsAfter(done)[p][e] = before[1][p][e]
    BY <1>2, <1>5 DEF ModsAfter
  <2>2. right[p][e] = AfterScript(e, s, view, before[1])[p][e]
    BY <1>2, <1>5 DEF ModsAfter
  <2>3. CASE p \in Modifies(e, s, view)
    <3>1. left[p][e] = Applied(Script(e, view)[p[2]], ModsAfter(done)[p][e])
      BY <1>1, <1>2, <2>3 DEF AfterScript
    <3>2. AfterScript(e, s, view, before[1])[p][e] = Applied(Script(e, view)[p[2]], before[1][p][e])
      BY <1>2, <2>3 DEF AfterScript
    <3> QED BY <2>1, <2>2, <3>1, <3>2
  <2>4. CASE p \notin Modifies(e, s, view)
    BY <2>1, <2>2, <2>4 DEF AfterScript
  <2> QED BY <2>3, <2>4
<1>6. \A k \in Keys : left[p][k] = right[p][k]
  BY <1>4, <1>5
<1> QED BY <1>1, <1>3, <1>6

\* One more effect leaves what it would have left alone, as no other one writes what it reads.
LEMMA ExecuteHalfDone ==
  ASSUME IndependentRuleSets, ScriptsWriteDeclared, TurnInv, Known, HalfDone,
         NEW x \in pending, ExecuteEffect(x[1], x[2])
  PROVE  HalfDone' /\ UNCHANGED <<before, present, registered, worldSet, ruleset, turn>>
<1> DEFINE done == DueBefore \ pending
           view == View(x[1], x[2], before[1])
<1>1. /\ executing /\ executing' /\ pending' = pending \ {x}
      /\ mods' = AfterScript(x[1], x[2], View(x[1], x[2], mods), mods)
      /\ stamp' = StampsAfter(Modifies(x[1], x[2], View(x[1], x[2], mods)), stamp)
      /\ UNCHANGED <<before, present, registered, worldSet, ruleset, turn>>
      /\ x = <<x[1], x[2]>> /\ x[1] \in Effects
  BY DEF ExecuteEffect, scopes, Known
<1>2. /\ x \in DueBefore \ done /\ DueBefore' = DueBefore
      /\ (DueBefore \ pending)' = done \cup {x}
  <2>1. DueBefore' = DueBefore
    BY <1>1 DEF DueBefore, Recent, View
  <2>2. pending \subseteq DueBefore
    BY <1>1 DEF HalfDone
  <2>3. (DueBefore \ pending)' = DueBefore \ (pending \ {x})
    BY <1>1, <2>1
  <2>4. x \in pending
    OBVIOUS
  <2> QED BY <2>1, <2>2, <2>3, <2>4
<1>3. View(x[1], x[2], mods) = view
  BY <1>1, <1>2, SeesTheSame DEF HalfDone, TurnInv, Tables
<1>4. mods' = ModsAfter(done \cup {x})
  BY <1>1, <1>2, <1>3, OneMoreDone DEF HalfDone
<1>5. stamp' = StampsAfter(PlacesAfter(done \cup {x}), before[2])
  <2>1. PlacesAfter(done \cup {x}) = PlacesAfter(done) \cup Modifies(x[1], x[2], view)
    BY DEF PlacesAfter
  <2>2. stamp' = StampsAfter(Modifies(x[1], x[2], view), StampsAfter(PlacesAfter(done), before[2]))
    BY <1>1, <1>3 DEF HalfDone
  <2>3. before[2] \in [Places -> Nat] /\ turn \in Nat
    BY DEF HalfDone, TurnInv, Tables
  <2>4. StampsAfter(Modifies(x[1], x[2], view), StampsAfter(PlacesAfter(done), before[2]))
            = StampsAfter(PlacesAfter(done) \cup Modifies(x[1], x[2], view), before[2])
    BY <2>3, StampedTwice
  <2> QED BY <2>1, <2>2, <2>4
<1>6. /\ ModsAfter(DueBefore \ pending)' = ModsAfter(done \cup {x})
      /\ StampsAfter(PlacesAfter(DueBefore \ pending), before[2])'
            = StampsAfter(PlacesAfter(done \cup {x}), before[2])
  <2>1. ModsAfter(DueBefore \ pending)' = ModsAfter(done \cup {x})
    BY <1>1, <1>2 DEF ModsAfter
  <2>2. PlacesAfter(DueBefore \ pending)' = PlacesAfter(done \cup {x})
    BY <1>1, <1>2 DEF PlacesAfter
  <2>3. StampsAfter(PlacesAfter(DueBefore \ pending), before[2])'
            = StampsAfter(PlacesAfter(done \cup {x}), before[2])
    BY <1>1, <2>2 DEF StampsAfter
  <2> QED BY <2>1, <2>3
<1>7. pending' \subseteq DueBefore' /\ turn' < MaxTurn
  BY <1>1, <1>2 DEF HalfDone
<1> QED BY <1>1, <1>4, <1>5, <1>6, <1>7 DEF HalfDone

-----------------------------------------------------------------------------
(* The invariant.                                                          *)

\* SetCurrentTurn leaves tables of modifiers and of times.
LEMMA ClockSetTable ==
  ASSUME NEW value \in Nat, NEW m, NEW st, IsTable(m), st \in [Places -> Nat],
         SetCurrentTurn(value, m, st)
  PROVE  IsTable(mods') /\ stamp' \in [Places -> Nat]
<1>1. mods' = SetModifier(m, Clock, Session, value)
  BY DEF SetCurrentTurn, Clock
<1>2. IsTable(mods')
  BY <1>1, ClockPlace, TableSet
<1>3. stamp' \in [Places -> Nat]
  BY ClockPlace DEF SetCurrentTurn, Stamped, Clock
<1> QED BY <1>2, <1>3

\* Calls between turns leave the modifiers a table.
LEMMA CallTables ==
  ASSUME TurnInv, IsTable(mods), BetweenTurns
  PROVE  IsTable(mods')
<1>1. ASSUME Prepare PROVE IsTable(mods')
  BY <1>1, ClockSetTable DEF Prepare, TurnInv, Tables, WorldTurn, Clock
<1>2. ASSUME NEW s \in Scopes, NEW class, CreateScope(s, class) PROVE IsTable(mods')
  <2>1. <<s, CoreClass>> \in Places /\ Session \in Keys
    BY ClockPlace, EffectsAssumption DEF Places
  <2> QED BY <1>2, <2>1, TableSet DEF CreateScope
<1>3. ASSUME NEW p \in Given, NEW amount, AddModifier(p, amount) PROVE IsTable(mods')
  <2>1. p \in Places /\ Session \in Keys
    BY ClockPlace, NumbersAssumption DEF Places
  <2> QED BY <1>3, <2>1, TableSet DEF AddModifier
<1>4. ASSUME UNCHANGED mods PROVE IsTable(mods')
  BY <1>4
<1> QED
  BY <1>1, <1>2, <1>3, <1>4
  DEF BetweenTurns, SetWorld, SetRuleSet, CreateCivilization, Reload

\* Before the first turn nothing is half done.
LEMMA InitHalfDone == ExecutorInit => HalfDone
<1> SUFFICES ASSUME ExecutorInit PROVE HalfDone
  OBVIOUS
<1>1. before = <<mods, stamp>> /\ ~executing
  BY DEF ExecutorInit, data
<1>2. mods = [p \in Places |-> [k \in Keys |-> 0]] /\ stamp \in [Places -> Nat]
  BY DEF ExecutorInit, Init
<1>3. IsTable(mods)
  BY <1>2 DEF IsTable
<1> QED BY <1>1, <1>2, <1>3 DEF HalfDone, data

\* Calls between turns leave nothing half done.
LEMMA CallHalfDone ==
  ASSUME TurnInv, TurnInv', HalfDone, CallBetweenTurns
  PROVE  HalfDone'
<1>1. /\ ~executing' /\ before = <<mods, stamp>> /\ before' = <<mods', stamp'>> /\ BetweenTurns
  BY DEF CallBetweenTurns, HalfDone, data
<1>2. IsTable(mods')
  BY <1>1, CallTables DEF HalfDone
<1> QED BY <1>1, <1>2 DEF HalfDone, data, TurnInv, Tables

\* A turn begins with no effect done.
LEMMA BeginHalfDone ==
  ASSUME TurnInv, HalfDone, BeginTurn
  PROVE  HalfDone'
<1>1. /\ before = <<mods, stamp>> /\ turn < MaxTurn /\ executing'
      /\ UNCHANGED <<mods, stamp, present, registered, worldSet, ruleset, turn, before>>
      /\ pending' = Due
  BY DEF BeginTurn, Collect, HalfDone, data, vars
<1>2. Due = DueBefore /\ DueBefore' = DueBefore
  BY <1>1 DEF Due, DueBefore, Recent, View
<1>3. (DueBefore \ pending)' = {}
  BY <1>1, <1>2
<1>4. ModsAfter(DueBefore \ pending)' = mods
  <2>1. ModsAfter(DueBefore \ pending)' = [p \in Places |-> [k \in Keys |-> mods[p][k]]]
    BY <1>1, <1>3 DEF ModsAfter
  <2> QED BY <1>1, <2>1 DEF HalfDone, IsTable
<1>5. StampsAfter(PlacesAfter(DueBefore \ pending), before[2])' = stamp
  <2>1. PlacesAfter(DueBefore \ pending)' = {}
    BY <1>3 DEF PlacesAfter
  <2> QED BY <1>1, <2>1 DEF StampsAfter, TurnInv, Tables
<1> QED BY <1>1, <1>2, <1>4, <1>5 DEF HalfDone

\* A turn ends with all of them done.
LEMMA EndHalfDone ==
  ASSUME TurnInv, TurnInv', HalfDone, EndTurn
  PROVE  HalfDone'
<1>1. /\ ~executing' /\ before' = <<mods', stamp'>>
      /\ SetCurrentTurn(turn + 1, mods, stamp)
  BY DEF EndTurn, data
<1>2. IsTable(mods)
  BY AfterIsTable DEF HalfDone, EndTurn
<1>3. turn + 1 \in Nat /\ stamp \in [Places -> Nat]
  BY DEF TurnInv, Tables
<1>4. IsTable(mods') /\ stamp' \in [Places -> Nat]
  BY <1>1, <1>2, <1>3, ClockSetTable
<1> QED BY <1>1, <1>4 DEF HalfDone, data

\* Every step keeps what is true in the middle of a turn.
LEMMA HalfDoneStep ==
  ASSUME IndependentRuleSets, ScriptsWriteDeclared, TurnInv, TurnInv', Known, HalfDone,
         [ExecutorNext]_allVars
  PROVE  HalfDone'
<1>1. CASE UNCHANGED allVars
  <2>1. UNCHANGED <<mods, stamp, registered, ruleset, turn, executing, pending, before>>
    BY <1>1 DEF allVars, executorVars, vars
  <2>2. DueBefore' = DueBefore
    BY <2>1 DEF DueBefore, Recent, View
  <2>3. ModsAfter(DueBefore \ pending)' = ModsAfter(DueBefore \ pending)
    BY <2>1, <2>2 DEF ModsAfter
  <2>4. PlacesAfter(DueBefore \ pending)' = PlacesAfter(DueBefore \ pending)
    BY <2>1, <2>2 DEF PlacesAfter
  <2>5. StampsAfter(PlacesAfter(DueBefore \ pending), before[2])'
            = StampsAfter(PlacesAfter(DueBefore \ pending), before[2])
    BY <2>1, <2>4 DEF StampsAfter
  <2> QED BY <2>1, <2>2, <2>3, <2>5 DEF HalfDone, data
<1> QED
  BY <1>1, CallHalfDone, BeginHalfDone, ExecuteHalfDone, EndHalfDone DEF ExecutorNext

-----------------------------------------------------------------------------
(* The refinement.                                                         *)

\* The operators of Turns mean the same wherever they are instantiated.
LEMMA SameOperators ==
  /\ \A e, s, m : Promise!View(e, s, m) = View(e, s, m)
  /\ \A e, s, view, m : Promise!AfterScript(e, s, view, m) = AfterScript(e, s, view, m)
  /\ \A e, s, view : Promise!Modifies(e, s, view) = Modifies(e, s, view)
  /\ \A P, st : Promise!StampsAfter(P, st) = StampsAfter(P, st)
  /\ \A m, p, k, amount : Promise!SetModifier(m, p, k, amount) = SetModifier(m, p, k, amount)
  /\ \A old, time : Promise!Stamped(old, time) = Stamped(old, time)
  /\ Promise!Due = DueBefore
  BY DEF Promise!View, View, Promise!AfterScript, AfterScript, Promise!Modifies, Modifies,
         Promise!StampsAfter, StampsAfter, Promise!Stamped, Stamped, Promise!Applied, Applied,
         Promise!SetModifier, SetModifier, Promise!Due, DueBefore, Promise!Recent, Recent,
         Promise!Places, Places, Promise!Keys, Keys

\* A first state of the executor is one of Turns.
LEMMA PromiseInit == ExecutorInit => Promise!Init
<1> SUFFICES ASSUME ExecutorInit PROVE Promise!Init
  OBVIOUS
<1>1. before[1] = mods /\ before[2] = stamp
  BY DEF ExecutorInit, data
<1> QED
  BY <1>1 DEF ExecutorInit, Init, Promise!Init, Promise!Places, Places, Promise!Keys, Keys

\* A call between turns is one.
LEMMA PromiseCall ==
  ASSUME HalfDone, CallBetweenTurns
  PROVE  Promise!BetweenTurns
<1>1. /\ before[1] = mods /\ before[2] = stamp /\ before'[1] = mods' /\ before'[2] = stamp'
      /\ BetweenTurns
  BY DEF CallBetweenTurns, HalfDone, data
<1> QED
  BY <1>1, SameOperators
  DEF BetweenTurns, SetWorld, SetRuleSet, CreateCivilization, CreateScope, AddModifier, Reload,
      Prepare, SetCurrentTurn, PlaceAndRegister,
      Promise!BetweenTurns, Promise!SetWorld, Promise!SetRuleSet, Promise!CreateCivilization,
      Promise!CreateScope, Promise!AddModifier, Promise!Reload, Promise!Prepare,
      Promise!SetCurrentTurn, Promise!PlaceAndRegister

\* The end of a turn is the turn.
LEMMA PromiseTurn ==
  ASSUME TurnInv, HalfDone, EndTurn
  PROVE  Promise!AdvanceNextTurn
<1>1. /\ executing /\ pending = {} /\ SetCurrentTurn(turn + 1, mods, stamp)
      /\ before'[1] = mods' /\ before'[2] = stamp'
      /\ UNCHANGED <<present, registered, worldSet, ruleset>>
  BY DEF EndTurn, data, scopes
<1>2. turn < MaxTurn /\ Ready /\ DueBefore \ pending = DueBefore
  BY <1>1 DEF HalfDone, TurnInv, Tables
<1>3. mods = ModsAfter(DueBefore) /\ stamp = StampsAfter(PlacesAfter(DueBefore), before[2])
  BY <1>1, <1>2 DEF HalfDone
<1>4. Promise!SetCurrentTurn(turn + 1, ModsAfter(DueBefore),
                             StampsAfter(PlacesAfter(DueBefore), before[2]))
  BY <1>1, <1>3, SameOperators DEF SetCurrentTurn, Promise!SetCurrentTurn
<1> QED
  BY <1>1, <1>2, <1>4, SameOperators
  DEF Promise!AdvanceNextTurn, Ready, Promise!Ready, ModsAfter, PlacesAfter, Promise!Places, Places,
      Promise!Keys, Keys

\* Every step of the executor is a step of Turns, or none.
LEMMA PromiseStep ==
  ASSUME IndependentRuleSets, ScriptsWriteDeclared, TurnInv, Known, HalfDone,
         [ExecutorNext]_allVars
  PROVE  [Promise!Next]_(Promise!vars)
<1>1. CASE CallBetweenTurns
  BY <1>1, PromiseCall DEF Promise!Next
<1>2. CASE BeginTurn \/ UNCHANGED allVars
  BY <1>2 DEF BeginTurn, allVars, executorVars, vars, Promise!vars
<1>3. CASE \E x \in pending : ExecuteEffect(x[1], x[2])
  BY <1>3, ExecuteHalfDone DEF Promise!vars
<1>4. CASE EndTurn
  BY <1>4, PromiseTurn DEF Promise!Next
<1> QED BY <1>1, <1>2, <1>3, <1>4 DEF ExecutorNext

\* If no effect reads what another one modifies where it runs, a turn is one step that
\* nobody sees half done: every effect acts on the state the turn found, and the order of
\* effects and scopes does not matter (EffectExecutor::Execute).
THEOREM TurnIsAtOnce ==
  ASSUME IndependentRuleSets, ScriptsWriteDeclared
  PROVE  ExecutorSpec => ImplementsTurns
<1>1. ExecutorInit => Promise!Init /\ TurnInv /\ Known /\ HalfDone
  BY PromiseInit, TurnInit, InitHalfDone DEF ExecutorInit, Init, Known
<1>2. TurnInv /\ Known /\ HalfDone /\ [ExecutorNext]_allVars => (TurnInv /\ Known /\ HalfDone)'
  BY TurnStep, KnownStep, HalfDoneStep
<1>3. TurnInv /\ Known /\ HalfDone /\ [ExecutorNext]_allVars => [Promise!Next]_(Promise!vars)
  BY PromiseStep
<1> QED BY <1>1, <1>2, <1>3, PTL DEF ExecutorSpec, ImplementsTurns, Promise!Spec
=============================================================================
