---------------------------- MODULE EffectExecutor ----------------------------
(***************************************************************************)
(* A turn as the code takes it (core/session/effect_executor.inl): first   *)
(* the effects to run are collected, then they run one after another, each  *)
(* seeing what the ones before it have changed.  The order is that of the  *)
(* ruleset and of registration; it is left open here, and nothing may      *)
(* depend on it.                                                           *)
(*                                                                         *)
(* A call of AdvanceNextTurn runs to its end before any other call.        *)
(***************************************************************************)
EXTENDS Turns

VARIABLES
    executing,      \* the executor is in its second loop
    pending,        \* pending_executions that are left
    before,         \* history: modifiers and times as the calls outside a turn see them
    fresh           \* history: scopes created since the turn began, while there was a ruleset

executorVars == <<executing, pending, before, fresh>>
allVars == <<vars, executorVars>>

ExecutorTypeOK ==
    /\ TypeOK
    /\ executing \in BOOLEAN
    /\ pending \subseteq Effects \X registered
    /\ ~executing => pending = {} /\ before = data
    /\ fresh \subseteq present

ExecutorInit ==
    /\ Init
    /\ executing = FALSE
    /\ pending = {}
    /\ before = data
    /\ fresh = {}

\* Fault: CheckPossible is not called.
CollectUnchecked ==
    {x \in ruleset \X registered :
        x[2] \in Targets[x[1]] /\ Recent(x[1], x[2], stamp, turn)}

\* The first loop.
Collect == Due

BeginTurn ==
    /\ ~executing
    /\ Ready
    /\ turn < MaxTurn
    /\ executing' = TRUE
    /\ pending' = Collect
    /\ UNCHANGED <<vars, before, fresh>>

\* One iteration of the second loop.
ExecuteEffect(e, s) ==
    /\ executing
    /\ <<e, s>> \in pending
    /\ pending' = pending \ {<<e, s>>}
    /\ mods' = AfterScript(e, s, View(e, s, mods), mods)
    /\ stamp' = StampsAfter(Modifies(e, s, View(e, s, mods)), stamp)
    /\ UNCHANGED <<scopes, worldSet, ruleset, turn, executing, before, fresh>>

EndTurn ==
    /\ executing
    /\ pending = {}
    /\ executing' = FALSE
    /\ SetCurrentTurn(turn + 1, mods, stamp)
    /\ before' = data'
    /\ fresh' = {}
    /\ UNCHANGED <<scopes, worldSet, ruleset, pending>>

\* Any other call.
CallBetweenTurns ==
    /\ ~executing
    /\ BetweenTurns
    /\ before' = data'
    /\ fresh' = IF Ready THEN fresh \cup (present' \ (present \cup Civs)) ELSE fresh
    /\ UNCHANGED <<executing, pending>>

ExecutorNext ==
    \/ CallBetweenTurns
    \/ BeginTurn
    \/ \E x \in pending : ExecuteEffect(x[1], x[2])
    \/ EndTurn

ExecutorSpec == ExecutorInit /\ [][ExecutorNext]_allVars

-----------------------------------------------------------------------------
(* What the executor guarantees.                                           *)

\* No effect reads, from any scope it runs for, what another effect of the ruleset
\* modifies there, nor what it modifies itself elsewhere.
Independent(r) ==
    \A e, f \in r : \A s \in Targets[e], t \in Targets[f] :
        <<e, s>> # <<f, t>> /\ t \in Reach[s] => Reads[e] \cap Writes[f] = {}

\* With independent effects a turn is one step that nobody sees half done, whatever
\* the order of the effects (EffectExecutor::Execute, its two loops).
Promise ==
    INSTANCE Turns WITH mods <- before[1], stamp <- before[2]

ImplementsTurns == Promise!Spec

\* What effects change wakes no effect in a later turn: after the first turn
\* only those run that depend on a variable the session writes.
OnlySessionWakes ==
    [][BeginTurn /\ turn > 0 =>
         \A x \in pending' : Deps[x[1]] \cap {CoreTurn, CoreClass} # {}]_allVars

\* What a turn does about scope s and effect e if e is to run for it.
RunsFor(e, s) ==
    s \in Targets[e] /\ Possible(e, View(e, s, mods)) => <<e, s>> \in pending'

\* A scope runs the effects of its class in the turn it was created in, also if the
\* game was saved, loaded or given another ruleset in between
\* (Session::SetCoreClass, Session::Prepare, RuleSet::LoadEffects).
CreatedScopesWake ==
    [][BeginTurn =>
         \A s \in fresh, e \in ruleset : CoreClass \in Deps[e] => RunsFor(e, s)]_allVars

=============================================================================
