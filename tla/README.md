# Hic Sunt: specifications of the game's core

Hic Sunt is a turn-based strategy game.  Its rules are data: a *ruleset* declares variables, classes
of improvements and jobs, groups they belong to, and *effects*, small Lua scripts that change
variables.  The C++ core (`src/core`) keeps the world and runs the effects; a Godot module
(`src/ui/godot/module`) hands it to the GDScript game (`src/ui/godot/project/game`).

This directory specifies that core in TLA+.  TLC checks the specifications on small worlds; TLAPS
proves the properties that matter most for worlds of any size.

| file | what it is |
|---|---|
| `ScopeTypes.tla` | the tables of which scope may refer to which |
| `Session.tla` | scopes, their creation, registration, saving and loading |
| `SessionProofs.tla` | theorems about `Session` |
| `MCSession.tla`, `MCSession*.cfg` | instances of `Session` for TLC |
| `Turns.tla` | what a turn promises: all effects at once |
| `EffectExecutor.tla` | a turn as the executor takes it |
| `EffectExecutorProofs.tla` | theorems about `EffectExecutor`, and that it implements `Turns` |
| `MCEffectExecutor.tla`, `MCEffectExecutor.cfg` | an instance of `EffectExecutor` for TLC |
| `Definitions.tla` | which variable definitions a scope works with |
| `DefinitionsProofs.tla` | theorems about `Definitions` |
| `MCDefinitions.tla`, `MCDefinitions.cfg` | an instance of `Definitions` for TLC |
| `Traversal.tla` | the order in which a lookup visits scopes |
| `Walk.tla` | that walk, call by call |
| `MCWalk.tla`, `MCWalk.cfg` | all small graphs for `Walk` |
| `Lookup.tla`, `LookupProofs.tla` | what a scope finds when it looks a variable up, and theorems about it and about the walk |
| `MCLookup.tla`, `MCLookup.cfg` | an instance of `Lookup` for TLC |
| `VariableIds.tla` | how ids of variables and patterns of definitions are read |
| `VariableTables.tla` | the tables of definitions: what they answer, what a call makes of them |
| `Variables.tla` | those tables over time |
| `MCVariables.tla`, `MCVariables.cfg` | an instance of `Variables` for TLC |
| `RuleFiles.tla` | how the tables of a ruleset come together from files |
| `EffectCode.tla` | how the code of an effect is prepared for Lua |
| `RuleSetLoad.tla` | loading, saving and restoring a ruleset |
| `RuleSetProofs.tla` | theorems about `Variables` and `RuleSetLoad` |
| `MCRuleSetLoad.tla`, `MCRuleSet*.cfg` | directories of rules for TLC |
| `Surfaces.tla` | surfaces of hexagons and the arrays behind them |
| `Map.tla`, `MapProofs.tla` | planes, regions and cells: making, finding, saving and loading, and theorems about them |
| `MCMap.tla`, `MCMap.cfg` | an instance of `Map` for TLC |
| `CityProjects.tla`, `CityProjectsProofs.tla` | the projects of a city, and theorems about them |
| `MCCityProjects.tla`, `MCCityProjects.cfg` | an instance of `CityProjects` for TLC |
| `Recursion.tla` | induction and recursion over numbers, as facts about sets, functions and lists of lists, for the proofs |
| `PROJECT.json` | components, runs, mutants, hazards, theorems, and the lines each definition models |

## 1. The system

Nothing in the core runs concurrently: the game makes one call at a time from the main thread, and
each call runs to its end.  What is hard is not interleaving but *histories*: which calls were made in
which order, which of them failed half-way, what was saved and loaded, and what data was replaced in
between.  Three holders of references to the same objects (world, session, caller) must agree after
all of it.

### Components

**Scopes** (`core/scope`, `core/types/scope_type.*`, `core/variables`).
*State:* id, type, one parent, tag links, numeric and string variables (each a table of modifiers by
key and a time of last modification), a cache of variable definitions.
*Operations:* link, tag, set and change modifiers, look values up through everything reachable by
parents and tags, save and load.
*Correct when:* references respect the tables of types; a value is the sum (or the highest level) of the
modifiers of every scope reached, each once; times never exceed the current turn; cached definitions
are those of the ruleset in force.

**World** (`core/terra`, `core/region`, `core/geometry`).
*State:* planes, regions, cells with their improvements, civilizations with their child scopes (by type
and by id), the counter of ids; per plane a surface of regions and an index of regions by id.
*Operations:* create civilizations and planes, replace a region, found a city, add child scopes, place an improvement, visit
all scopes, measure distances, save (scopes in topological order of their references) and load (with a check for cycles).
*Correct when:* what is held is closed under references, ids are unique, an improvement is in one cell, a region is found where
it is, saving and loading always succeed and restore the same world.

**Session** (`core/session/session.*`).
*State:* the world, the ruleset, a registry of scopes by id and by type, the turn counter.
*Operations:* `SetWorld`, `SetRuleSet`, `AddScope`, `Create{Civilization,City,Improvement,Job}Scope`,
which create class and group scopes lazily, `AdvanceNextTurn`.
*Correct when:* the registry is closed under references, what it holds of civilizations the world holds
too, an improvement's class belongs to its owner, ids are never reused, the counter is the one the
world carries.

**Effect executor** (`core/session/effect_executor.inl`, `effect_instance.inl`,
`core/scope/scope_change_set.inl`).
*State:* per turn, the list of pending executions.
*Operations:* collect (type, id, modification time of dependencies, class and predicate), then execute.
*Correct when:* an effect runs exactly when what it depends on changed; the order of effects does not
matter for effects that do not touch each other's variables; a new scope's effects run in the turn it
appears in.

**Ruleset** (`core/ruleset`).
*State:* tables of objects, indices by id, definitions of variables, prepared effects.
*Operations:* load and merge files, validate references and the graph of groups, generate effects, prepare their code, save and restore;
add definitions, resolve names and queries (parameterized variables, wildcards), look up classes and groups.
*Correct when:* only acyclic, well-typed groups are accepted, a later file overrides an earlier one and nothing else does, loading leaves nothing of a
former ruleset, a query means exactly the variables its pattern names, an id has one type, restoring gives what was saved.

**Cities and their projects** (`game/city/*.gd`).
*State:* a queue of projects; of a construction project the cost, what was paid, and the finisher.
*Operations:* add, swap, remove, take resources each turn, finish, save, load.
*Correct when:* what is taken is what is paid, a project finishes once and after it is paid for, and the
queue survives a save.

**Game** (`game/game.gd`, `game/world/*.gd`, `session_object.cpp`).
*State:* which world, which session, which files.
*Operations:* new game, load, save (two files), end turn, add city, add improvement.
*Correct when:* the calls come in an order the core accepts.

World generation, rendering, localisation, logging and the user interface carry no state the
above depends on.

### How they interact

The game creates a world, gives it to the session (`SetWorld`), gives it a ruleset (`SetRuleSet`) and
creates civilizations.  To found a city it asks the session for a city scope, which carries a new id and is
held by nobody else, and registers it (`AddScope`), which also makes it a child of its civilization.  To
build an improvement it asks for its scope; the session looks for the class scope of the owner's
civilization, creates it and the groups it inherits from if they are missing, registers these and links
them; the caller then places the improvement in a cell and registers it.  At the end of a turn the
session runs the executor and moves the counter on.  Saving writes the world only: the registry is built
anew by the next `SetWorld`, and the counter is read back from a variable of the world.

### What is hard

`PROJECT.json` lists every hazard at its line.  The main ones: creation that fails in the middle and leaves
part of its scopes behind; rulesets that replace each other while scopes made under the old one live on;
ids taken by scopes that are lost; scopes that one holder knows and another does not at the time of a
save; times of modification compared over saves and rulesets; effects that see what earlier ones of
the turn changed; definitions, files and objects that are added in any order and override each other; what is saved by one order of
steps and restored by another; objects named after an address that is free again.

## 2. Models

### Session

The variables are the fields: `parent`, `tags` (`Scope`), `civs`, `childByType`, `children`
(`World::civilizations_`, `Civilization::child_scopes_`, `all_child_scopes_`), `improvements`
(`Cell::improvements_`), `nextId` (`ControlObject`), `worldSet`, `ruleset`, `registered` (`Session`).
`live` is history: which objects somebody holds.  The caller of a `Create` call holds what it returns until the
next reload, so it may place and register it at any later time or never.

A scope is named by its type and the parts of its id.  `Id` is the string by which the maps of the code know it;
the ids of improvement groups and job groups have one form, so two groups of one name and different
types collide, which the code refuses in `Civilization::AddChildScope` after it has changed
one of its two maps.  `FailToCreateClass` is that path, with every part of the groups that may already have
been completed.

One action is one public call: `SetWorld`, `SetRuleSet`, `AddScope`, `CreateCivilizationScope`,
`CreateCityScope`, `CreateImprovementScope`, `CreateJobScope`, `AddImprovement`, and `Reload`,
which saves and loads the world and starts a session for it.  Calls that are refused without a change are
not actions.  A refused call that did change something (an id used up, groups left
behind) is one.  `Next` restricts callers to what they can hold: `AddScope` needs a world, because scopes
come from it.

`Acyclic` says that every set of scopes has one that refers to none of the set, which is what the
depth-first searches of `TopologicallySortScopePtrs` and `CheckCycles` establish.  `ValidGraph` is the same for groups of a
ruleset.  Both are stated this way, and `MissingGroups` as a least closed set, so that no operator is recursive and the module can be
proved about.

### Turns and EffectExecutor

`Turns` is the abstract specification: a scope sees the variables of what it reaches; a turn runs all due
effects on the state it found, at once.  `EffectExecutor` extends it with the executor's own state: `executing` and `pending`
(`pending_executions`) and two history variables: `before`, what a caller outside the turn could read, and `fresh`, the scopes
created since the turn began.  `Collect` is the first loop, `ExecuteEffect` an iteration of the second, `EndTurn`
the rest of `AdvanceNextTurn`.

Data is abstract: `Reach` says which scopes a scope reaches, `Script(e, view)` which operations an
effect's scripts come to given what they see, `Possible` whether class selector and predicate
accept it, `Deps`, `Reads` and `Writes` which variables are involved.  Modifiers are numbers by key, an effect writes under its own key and the session under
`Session`.  A failed script changes nothing (the change set is dropped).

The order in which pending effects run is left open.  In the code it is the order of effects in the ruleset and of scopes in the
registry; the model allows every order, and the check shows the outcome is the same.

The game's calls between turns are `BetweenTurns`: setting world and ruleset, creating civilizations and other scopes, the debug tools and map generation, which modify
variables without a time, and a reload.  Creation, placing and registration, separate calls in
`Session`, are one step here: what goes wrong between them is the subject of `Session`.

### Definitions

A scope's `cached_definitions_` is `cached`; `NoRuleSet` stands for the empty definitions.  `GetVariableDefinitions`
climbs from parent to parent to the nearest scope that has definitions and leaves a copy in every scope it came through:
`Chain` is what a walk can meet, `Nearest` where it ends, `Asking` who copies.  A parent never changes once it is set, so the
tree is a constant (`Above`: each scope with everything over it) and only whether an improvement has its parent yet is state (`orphans`).
`Prepare` drops the copies of the scopes the session knows and gives the new definitions to the world's scope.  `missed` is history: the scopes
it did not reach when it last ran.  `ReadDefinitions` is any lookup, by anybody, at any time; creation itself keeps no copy, because
a new scope's class is set before it has a parent.  Groups, classes and ids are the subject of `Session`; here a scope is created
once what is above it exists.

### Traversal, Walk and Lookup

Every lookup is one recursive function over scopes with one set of visited scopes: the scope, its parent with all that follows, its tag
links in order.  `Traversal!Visits` is the order that results.  `Walk` is the recursion itself: `todo` holds what the calls on the stack have
still to call, `visited` is the set, `order` is history.  The graph is any graph; the tables of types would leave circles to groups only.

`Lookup` has the tables of modifiers as one function of places (scope, variable, key), `modifiers`, and the times of `VariableBase`; `before` is history, the
table as it was when the turn began.  A variable is a sequence of its name and arguments, which is what the parser makes of
`job/@miner/output/@ore`; its normalized id has `Placeholder` for each argument.  The three setters are the actions, with what the
definitions allow (`Writable`); `GetNumericValue`, `GetStringValue`, the two queries and the two kinds of modification time are operators named like the
functions, each a fold over the walk.  The conditions under which tables are iterated in no order (hash maps) are harmless by construction: keys of one table
differ.  Numbers are integers, so rounding is left out.  Changes by tools, which carry no time, are in `Turns`.

### VariableIds, VariableTables, Variables

An id is the sequence of its segments: text, `@argument`, `{placeholder}`, or text with a brace in it that is neither.  `VariableIds` reads ids as queries and patterns as
definitions, matches, validates and expands; operators have the names of the functions of `parameterized_variable_definition.inl`.  `VariableTables` holds the four tables (numeric and string, plain and by pattern) and the values of the
built-in domains `job` and `resource` in one record, with the finders (`FindNumericVariable`, `FindStringVariable`, `FindVariable`, `FindParameterizedVariables`), both forms of `GetVariableType`, which differ, and
what each addition accepts.  `Variables` is the history: every addition, in any order, every setting of a domain, and `Clear`.  A call that refuses its argument changes nothing and is no action.  Bounds,
defaults and scopes of a definition are left out; nothing here looks at them.

### RuleFiles, EffectCode, RuleSetLoad

`RuleFiles` says which files are read (`CollectRuleFiles`), what a YAML file may contain, and how objects of later files replace those of earlier ones in place (`UpsertRepeatedField`).  What the parsers of protobuf
text and YAML accept is a property of the file.  `EffectCode` is the scanner of `effect.inl`: it walks over the signs of a source and knows comments, strings and long brackets; `Scan` is a turn of
its loop, which takes a sign at least, so as many turns as there are signs are enough (`Scanned`).  The name with an index, `LuaName`, is a parameter.  `Modes` is what state a reader of Lua is in before each sign, and `Wanted` what code it wants, stated without the scanner.  `RuleSetLoad` has one ruleset object, loaded over and over (`Load`), saved and restored (`SaveAndRestore`): the steps of
`RuleSet::Load` and `ParseFrom` are operators on a record that has the fields of the class, in the order of the calls, each with what it does after a failure of an earlier one.  `Loaded` and `ParseFrom` differ in that order.
`Cleared` is `RuleSet::Clear`, member by member, of whatever ruleset is loaded over; it calls `ClearTables` (`RuleSetBase::Clear`, message by message) and `ClearDefinitions` (`VariableDefinitions::Clear`, map by map), and every step that
follows adds to what they leave: indices by `try_emplace`, lists and effects behind what is there, definitions after a look at all former ones, objects of files into the tables.  Generated effects have ids of two parts, those of files of one:
a file that names an effect like a generated one is left out.
Objects keep what others refer to; amounts and texts are left out.

### Surfaces and Map

A surface is an array over the box around its shape; `GetCell` finds the element of a place, `Foreach` the order of a visit, which is not the order of the array.  A `Map` is planes of regions of cells.  World, planes and regions give their
scopes ids; a cell does not, and a `Scope` without id is named after its address (`scope.inl:67`), so objects have addresses, consecutive in an array, and where an array begins is the allocator's choice (`base`) among what
is free.  A loaded cell has the scope it was saved with, at an address of its own.  Actions are `AddPlane`, `SetRegion`, `SetCityId`, `Save` and `Load`; saving
goes by array position and visits by place, as in the code.  `SetRegion` is public and has no caller in the game.  Distances are squares, so no root is rounded.

### CityProjects

The queue of a city: `AddProject`, `SwapProjects`, `Process` (one call, which serves all projects, runs finishers and removes what is finished), `Save`, `Load`.  Inside `Process` the helpers of
`construction_project.gd` work on a record with the pool of the turn.  `bare` are projects that were loaded: cost, accumulated resources and civilization are not among the saved properties.  `finishers` and `turn` are history.  All projects are
construction projects, the one kind there is; progress estimates and signals are left out.

## 3. What TLC checks

| run | what it shows | distinct states |
|---|---|---|
| `session` | whatever calls are made in whatever order, ids are never reused, the registry is closed, the world can be saved and loaded, owner and class agree, cities are held, improvements are in one place | 17,507 |
| `session_retyped` | if a new ruleset changes the type of a group, creation fails half-way, and still the world can be saved | 19,369 |
| `session_civilization` | *violation*: see findings | |
| `effects` | with independent effects a turn is atomic and its order immaterial; times and the counter agree; what wakes an effect | 29,544 |
| `definitions` | definitions of a former ruleset are used only where the session could not reach, and reading never changes what is read | 11,336 |
| `walk` | on any graph the walk ends, having visited what is in reach once, depth first | 352,072 |
| `lookup` | numbers are sums, strings the highest, queries and plain lookups agree, changes show in the time of modification | 66,693 |
| `variables` | an id has one type, values of domains are never stale, the ways of reading a pattern agree | 6,480 |
| `ruleset` | a ruleset loaded over another derives all it has from its own tables, overriding is by id, references resolve, code is prepared as Lua reads it, saving and restoring loses nothing unless improvements give jobs | 124 |
| `ruleset_restored` | *violation*: see findings | |
| `map` | regions are found where they are, a load brings everything back, ids of cells clash only in a map that grew after a load, places of different regions coincide only if these are too large | 5,830 |
| `projects` | workforce is never spent in advance, projects finish once and paid for, nobody is passed over | 42,790 |

**Bounds of the session runs.**  Two interchangeable civilizations (symmetry is sound: nothing orders them), so that a class can be linked to
the wrong one; one improvement class and one job class; three groups, so that inheritance has a chain and a group can be created before
or after the group it inherits from; two rulesets that turn the inheritance of two groups around, or that change
the type of one; one cell with two slots, enough to offer an improvement twice; three ids: a city,
an improvement and a job, or two cities with an improvement, or two ids lost.  A fourth id multiplies the states
and adds a second scope of a kind that is already there.

**Bounds of the effects run.**  A cell, a farm built on it, a civilization; an effect woken by the turn, one by the farm's class, one by a variable that
another effect changes while another ruleset is in force, one of a civilization, which needs to be registered; three turns, enough for a
change in one turn, its effect in the next and a change of ruleset between; two amounts, which put a predicate on both sides of its
threshold.  Scripts both set and change modifiers, and one fails.

**Bounds of the definitions run.**  One path through the map with an improvement at its end, one through a civilization with a city and
a class, so that walks of length one to three pass through scopes of each kind of registration: with the world, by the call that
creates, by the caller, never.  Two rulesets, to replace one by the other and back.

**Bounds of the walk run.**  Four scopes, each with up to two links: in three scopes depth-first and breadth-first order hardly differ, and two ways to a scope
that itself leads on need four.  Circles of every length up to four occur.  Of two lists that differ in order only, one is left out.

**Bounds of the lookup run.**  A class, its group and the civilization both belong to, which the class reaches twice; two modifiers at a time anywhere, so that any two
compete: across scopes, keys, levels (below, at and above that of the default), normalized and not; two turns, so that a change follows one of the turn before.  Variables have two parameters, so
queries with one wildcard of two occur.  Strings are interchangeable (symmetry is sound: they
are only compared for equality, never ordered).  Left out to keep the run short, as it would only repeat what is there: a second key and a second name of a string elsewhere than in the group, numbers in the group.

**Bounds of the variables run.**  Patterns over one domain, over the other, over both, with an open parameter, and one of each kind that is refused; ids that are instances of these, queries with a wildcard in each
position, ids with a placeholder or an empty value; domains with a value twice, with the two values exchanged, with none, with one that is refused.

**Bounds of the ruleset run.**  A complete directory (a job with its resources, groups that inherit, definitions, code in each place that may have some) before and after each of ten others that change one thing: jobs taken away, a resource
that is missing or provided by another directory, groups retyped, in a circle, missing, a contradicting definition, files to be ignored, an invalid id, no directory; and three directories in a row where the second is overridden or
repaired by the third.  The ruleset is loaded from any of them after any other, also after a failure, and restored any number of times: few states, but each is a ruleset.  `NamesReplaceReferences` takes all sources of up to four signs and longer ones
that begin in a string.

**Bounds of the map run.**  Two planes of two regions, one beside and one below the other, with the default and a given external radius; cells of radius one, which is a box with cells off the shape; memory for two planes, so that a plane loaded while
the former world is alive takes other addresses than its ids say and the next one takes those that the ids do say.

**Bounds of the projects run.**  Three projects that need one resource, two, and none; five pools: too little, enough, more than enough, nothing to move with, a debt.

**What the properties say.**

- `RegistryClosed`: a registered scope refers to registered scopes only, so caches are cleared and effects run for a
  class whenever they do for its members.  A civilization is the exception: `CreateCivilizationScope` does not register it, and its
  cities refer to it (finding 1); the property excludes just that.
- `SaveLoads`: saving meets no unknown reference, no duplicate id and no cycle, and loading finds
  every reference of a type it may have.  It needs `StableGroupTypes`; without it `SaveSucceeds` still holds and loading does not.
- `CitiesHeld`, `OwnerMatchesClass`, `PlacedOnce`, `FreshIds`: relations between holders, after any history.
- `ImplementsTurns`: refinement.  `EffectExecutor` implements `Turns`, where modifiers and times of the abstract specification are `before`.
  `Independent` is required of each ruleset, by an `ASSUME` of the instance and as hypothesis of the theorem.
- `OnlySessionWakes`: after the first turn only effects that depend on the turn or a class run.  Every change
  an effect makes carries the turn it was made in, and the next turn asks for later times.  This is what the code does; a
  designer of rulesets has to know it: an effect that depends on another one's result never runs again, unless it also depends on the turn.
- `CreatedScopesWake`: a scope created in a turn runs its class's effects in that turn, whatever was
  saved, loaded or replaced between.
- `StaleOnlyIfMissed`: staleness is never created by a read; it can be traced to a scope the session did not know at the last change of ruleset.
  With every civilization registered it would say that all scopes use the ruleset in force.
- `ReadingIsTransparent`: caches are a matter of speed only.  A copy is taken from the nearest holder and stays below it, so no walk that
  starts elsewhere meets anything new.
- `VisitsReachableOnce`, `VisitsInOrder`: the recursion agrees with reachability, defined without any walk, and with the order `Lookup` relies on.
- `StringIsHighest`: including ties, which the order of the walk decides.
- `QueriesAgree`: a query merges in another order than a plain lookup does.  The two cases in which they come apart are named: two
  modifiers of the same level and key, and none but negative levels.
- `ChangesAreSeen`: whatever differs from what could be seen when the turn began has this turn as its time.  This is what makes the executor's choice of effects right for a
  dependency that many scopes contribute to.
- `OneTypePerId`: each way of adding a definition looks at some of the four tables; together they suffice, in every order.
- `FixedValuesCurrent`: definitions hold copies of their domains' values; none is ever left behind.
- `FindersAgree`, `QueriesExpand`, `DumpIsWhatIsFound`: one pattern is read to find an id, to tell its type, to match a query, to expand it and to list it.  The first property relates the finders to each other, the others what is
  listed to what is found.
- `DerivedFromTables`: indices lead to objects of the tables there are now and to no others, lists and domains name them once, definitions are of declared variables, no effect is twice or of a ruleset that failed.  It is stated on the
  ruleset alone, without `Loaded` or `Cleared`, after successes, failures and restores alike.  Any one of the five indices, the two lists, the four maps of definitions or the effects left out of `Clear` violates it.  A table left out is caught by
  `LastFileWins`, as both calls of `RuleSetBase::Clear` miss it (biomes and rendering, of which nothing is derived, are empty in the run).  Domains alone need no reset: loading sets both of them before it reads them.
- `LastFileWins`: stated on the list of all objects read; an object keeps the place of the first file that has it and the content of the last.
- `GroupsResolve`, `GeneratedEffectsResolve`: what sessions and effects rely on, for what the merged tables came to be, although references are checked table by table while loading goes on after errors.
- `NamesReplaceReferences`: the scanner and a reader of Lua agree on what is code, and nothing else is touched; the two pieces of an effect never share a name.
- `RestoredUnlessJobs`: all derived tables come back; the exception is finding 2.
- `RegionIndexExact`: index, array and shape agree after any replacement, numbering and load.
- `MapRestored`: by place, not by array position, and with parents that the saved region did not have.
- `DuplicatesOnlyAfterLoad`: two scopes with one id make a world that cannot be saved.  New cells of a world that was never loaded have ids of their own, addresses being theirs; after a load this no longer holds.
- `PlacesOverlapOnlyIfClose`: with neighbouring regions the converse, too: an external radius no larger than both radii together makes cells coincide.  The default, one and a half radii and one, is never larger.
- `WorkforceMovesResources`, `FinishedOncePaid`, `ServedInOrder`: the accounts of several projects, over several turns with shortages and debts.  A loaded project is excepted from having been paid for: see below.

**Liveness.**  `WalkEnds`: a lookup ends, circles or not.  Weak fairness of the walk's steps is justified because nothing else runs until the call returns.  Elsewhere nothing
waits: the executor's second loop is over a finite list that does not grow.  No part of the program promises that a call is ever made, so no other fairness is assumed.

**Mutants.**  For each property `PROJECT.json` names a plausible bug (operators marked `Fault` in the modules); with it, TLC
finds the property violated under the same configuration.

### Findings

1. `CreateCivilizationScope` (`session.inl:384`) does not register what it creates; `session.hpp:82` says it "creates and registers new civilization".
   Its effects do not run, and its cached definitions are not cleared, until the next `SetWorld`.  (`session.hpp:85` says the same of
   `CreateCityScope`; there all callers register the city themselves, so no run is about it.)
2. `ParseFrom(RuleSet)` (`ruleset.inl:599`) looks improvements through before it has jobs, `Load` (`ruleset.inl:131`) after.  An improvement that gives jobs then refers to an unknown one, and no effect is loaded: a restored
   ruleset with such an improvement has no effects at all.  `ruleset_serialize_test.cpp:40` names what it tests `RoundTripRestoresGroupsAndGeneratedEffects`; its improvement gives no jobs.

### Observed, not checked by a run

What the models show or reading the code showed, and no run is about.

*Sessions and turns.*
`Civilization::AddChildScope` (`civilization.inl:33`) changes one map and then fails on the other; a later job is linked to the half-added group, which is not registered.  This takes rulesets that disagree on the type of a group.
`Prepare` (`session.inl:98`) clears the caches of registered scopes, "in all scopes" by its comment; the civilizations of a new game and what is below them go on with the old definitions after `replace_ruleset`.
An effect's `schedule` is never read (`effect_executor.inl:105`), and `worldgen.txt:5` asks for `EVERY_TURN` on an effect that runs in turn 0 only.
Between `SetWorld` and `SetRuleSet` of a loaded game the session's turn is still 0 (`session.inl:74`).
A plane added after `SetWorld` is not registered with the session; the game's world generator adds planes first (`world_generator.gd:12-27`).
`game.gd` makes calls with effects inside `assert()`, which release builds do not evaluate, and on loading creates the civilization again that the world has (`game.gd:44`).

*Lookups and variables.*
A wildcard query starts with an empty string of level 0 (`scope.inl:689`), so with negative levels only it finds that string and a plain lookup the default.
`GetVariableType` of an id checks neither the domain nor the number of arguments; the finders do.  A plain definition of an id with an argument is found by none of them, and whether two definitions are accepted can depend on their order.
`FindVariable` does not know `job/{}` where `FindNumericVariable` finds it.  The query `job/{}/@a` matches `job/@a/{}`.

*Rulesets.*
`VAR(` is also replaced in Lua's long strings and as the end of another identifier.  Code that is refused has used up indices of names.

*Maps.*
`scope.hpp:84` calls an id "Unique id for this scope object"; with cells, see `DuplicatesOnlyAfterLoad`.
Equality of surfaces compares neither the last row nor the last column (`surface.inl:26`; `box.hpp:9`: "Both points are inclusive"), that of cells is always true, and that of worlds compares pointers of planes.
A distance to a cell outside its region is -2, -1 by `plane.hpp`; distances are Euclidean and not in cells; centres of neighbouring regions are one external radius apart (`plane.hpp:53`).
A region set from outside may have an id of the form `rgn_{n}`, which the next plane gives one of its own (`plane.inl:39`); nothing refuses either.  `region_radius_` is not saved.  `IntDelta::operator-` adds (`coord_system.hpp:34`).

*Projects.*
A loaded project has neither cost nor civilization: it is finished with the next workforce, whatever was missing, and its finisher has no civilization (`construction_project.gd:30`).
The finisher passes the civilization's id where a city's is wanted (`construction_project.gd:249`), so `add_improvement` fails and the project is removed all the same.
A project that is not possible would be skipped and then take resources (`city_projects_queue.gd:73`); no kind of project ever is.  `swap` accepts an index equal to the size (`:48`), which the user interface never passes.
The preview of profit and loss is given empty totals; a turn that pays for assembly only reports no change.

## 4. What is proved

For all values of the constants, from the assumptions named in the modules:

| module | assumptions |
|---|---|
| `Session` | `RuleSetsAssumption`: rulesets are validated.  `NamesAssumption`, `SentinelAssumption`: sentinels are none of the values |
| `Turns` | `ScopesAssumption`, `EffectsAssumption`, `NumbersAssumption`: shapes of the parameters, and that no effect writes the turn or a class |
| `Definitions` | `KindsAssumption`, `TreeAssumption`: kinds of scopes are disjoint, and parents form a tree, each scope finitely many steps below the world |
| `Traversal`, `Walk` | `ScopesAssumption`, `LinksAssumption`: finitely many scopes, and links lead to scopes |
| `Lookup` | `GraphAssumption`: the same of its one graph.  `NamesAssumption`: variables have a name, a query a name that is no wildcard, of a variable that is defined.  `KeysAssumption`: the key 0 is no modifier's.  `AmountsAssumption`, `LimitsAssumption`: numbers are integers, the minimum is not above the maximum |
| `VariableIds`, `Variables` | `DomainsAssumption`, `PlainIdsAssumption`: domains have names, ids that are defined can be asked for.  `SegmentsAssumption`: ids and patterns are sequences of segments.  `ParametersAssumption`: their number is limited (`kMaxParameterizedVariableParameters`) |
| `RuleSetLoad` | `RootsAssumption`: a directory has finitely many files, each with a place in their order, and what is read from one is lists of objects of the shape the parsers give; nothing is assumed of ids and references.  `SourcesAssumption`: sources are made of signs.  `FixedAssumption`: `job` and `resource` are domains |
| `Map` | `PlansAssumption`, `BasesAssumption`: corners are pairs of integers, radii integers (the code corrects those that are not positive), addresses natural numbers |
| `CityProjects` | `CostAssumption`: costs are not negative.  `ResourcesAssumption`: a resource has one cost, and workforce is no resource.  `PoolsAssumption`: amounts are integers, debts included |

| theorem | statement |
|---|---|
| `SessionProofs!TypeCorrect` | `Spec => []TypeOK` |
| `SessionProofs!IdsAreFresh` | `Spec => []FreshIds` |
| `SessionProofs!GameSaves` | `Spec => []SaveSucceeds` |
| `SessionProofs!GameSaveLoads` | `StableGroupTypes` implies `Spec => []SaveLoads` |
| `SessionProofs!CitiesAreHeld` | `Spec => []CitiesHeld` |
| `SessionProofs!OwnersMatch` | `Spec => []OwnerMatchesClass` |
| `SessionProofs!PlacedAtMostOnce` | `Spec => []PlacedOnce` |
| `SessionProofs!RegistryIsClosed` | `StableGroupTypes` implies `Spec => []RegistryClosed` |
| `EffectExecutorProofs!StampsNeverLater` | `ExecutorSpec => []StampsFollowTurn` |
| `EffectExecutorProofs!TurnIsTheWorlds` | `ExecutorSpec => []TurnCarried` |
| `EffectExecutorProofs!OnlySessionWakesEffects` | `ExecutorSpec => OnlySessionWakes` |
| `EffectExecutorProofs!CreatedScopesAreWoken` | `ExecutorSpec => CreatedScopesWake` |
| `EffectExecutorProofs!TurnIsAtOnce` | `IndependentRuleSets` and `ScriptsWriteDeclared` imply `ExecutorSpec => ImplementsTurns` |
| `DefinitionsProofs!StaleIsExplained` | `Spec => []StaleOnlyIfMissed` |
| `DefinitionsProofs!ReadsAreTransparent` | `Spec => ReadingIsTransparent` |
| `LookupProofs!LookupVisitsReachableOnce` | `WalkSpec => []VisitsReachableOnce` |
| `LookupProofs!LookupVisitsInOrder` | `WalkSpec => []VisitsInOrder` |
| `LookupProofs!NumbersAddUp` | `Spec => []NumberIsSum` |
| `LookupProofs!StringsAreHighestInReach` | `Spec => []StringIsHighest` |
| `LookupProofs!QueriesAgreeWithLookups` | `Spec => []QueriesAgree` |
| `LookupProofs!OldValuesHold` | `Spec => []ChangesAreSeen` |
| `RuleSetProofs!TypeCorrect` | `Spec => []VariablesTypeOK` |
| `RuleSetProofs!OneTypeAlways` | `Spec => []OneTypePerId` |
| `RuleSetProofs!FixedValuesAlwaysCurrent` | `Spec => []FixedValuesCurrent` |
| `RuleSetProofs!FindersAlwaysAgree` | `Spec => []FindersAgree` |
| `RuleSetProofs!QueriesAlwaysExpand` | `Spec => []QueriesExpand` |
| `RuleSetProofs!DumpIsAlwaysWhatIsFound` | `Spec => []DumpIsWhatIsFound` |
| `RuleSetProofs!AlwaysDerivedFromTables` | `RuleSetSpec => []DerivedFromTables` |
| `RuleSetProofs!LastFileAlwaysWins` | `RuleSetSpec => []LastFileWins` |
| `RuleSetProofs!GroupsAlwaysResolve` | `RuleSetSpec => []GroupsResolve` |
| `RuleSetProofs!GeneratedEffectsAlwaysResolve` | `RuleSetSpec => []GeneratedEffectsResolve` |
| `RuleSetProofs!RestoredUnlessJobsAlways` | `RuleSetSpec => []RestoredUnlessJobs` |
| `RuleSetProofs!NamesAlwaysReplaceReferences` | `NamesDiffer` implies `RuleSetSpec => []NamesReplaceReferences` |
| `RuleSetProofs!LoadedDefinitionsHaveOneType` | `RuleSetSpec => []OneType(ruleset.definitions)` |
| `MapProofs!MapTypes` | `ForeignRegionIds` implies `Spec => []MapTypeOK` |
| `MapProofs!RegionsAreFound` | `ForeignRegionIds` implies `Spec => []RegionIndexExact` |
| `MapProofs!LoadsRestore` | `ForeignRegionIds` implies `Spec => []MapRestored` |
| `MapProofs!MapsCanBeSaved` | `ForeignRegionIds` implies `Spec => []DuplicatesOnlyAfterLoad` |
| `MapProofs!DistancesTellPlaces` | `ForeignRegionIds` implies `Spec => []PlacesOverlapOnlyIfClose` |
| `CityProjectsProofs!WorkforceIsNotSpentInAdvance` | `Spec => []WorkforceMovesResources` |
| `CityProjectsProofs!FinishedOnlyOnce` | `Spec => []FinishedOncePaid` |
| `CityProjectsProofs!NobodyIsPassedOver` | `Spec => []ServedInOrder` |

**Saving.**  `SaveSucceeds` and `SaveLoads` are not inductive: they speak only of what the world visits, and a lost improvement may be placed later.  `SaveInv` speaks of every live scope.  Where rulesets disagree on the type
of a group, two scopes may have one id, so what a scope refers to need not be what is stored; what is kept is that something of its id is (`ReferencesStored`), perhaps a group of another type.  It is kept because a class is
created with all the groups it needs (`Creatable`), because a group that could not be added collides with a stored one (`ChildrenStored`: the map of a type may have a scope that the map of all children has under another
type), and because cities are owned and, once registered, held (`CitiesOwned`, `CitiesRegistered`; an improvement can only refer to a registered city).  No two scopes the world visits have one id (`IdsUnique`), and their references have
no circle (`Acyclic`): a group created later may refer to earlier ones, never the other way round, as tags are set once at creation, and new groups are well-founded among themselves because the ruleset was validated.
So `GameSaves` and `CitiesAreHeld` need no assumption on group types, and hold after creations that failed half-way (`HalfCreates`).  With stable group types an id means one scope, so loading resolves each reference to the scope
it was made from: `GameSaveLoads`.  The proof has one lemma per action, over one kind of step (`Grows`).

**Owners, places, the registry.**  `OwnerInv` needs no assumption on the rulesets, because a creation that fails half-way leaves groups behind and never an improvement or its class.  It says of every live scope: ids are fresh, so a new improvement is none
that is linked already; a class has its civilization as parent (`ClassesOwned`), a job none (`JobsLoose`); `OwnerMatchesClass`; and `PlacedAt`, which is `PlacedOnce` without counting: an improvement has no parent and is nowhere, or its parent is the cell
of the one place that has it.  All actions that create are treated as one kind of step (`Creates`: new scopes of known types are added, old ones keep their links), so each conjunct is proved for that step once.  `RegistryClosed` follows from
`SaveInv`, `OwnerInv` and `VisitedRegistered`: with a world, what the world visits is registered, but for civilizations and improvements, to which nothing refers.

**Turns.**  The counter in the session and the one in the world are two copies, and the session's starts at 0 whenever a session is
created.  `TurnInv` says: no time is later than the *world's* turn (`Follows`), the session's counter is never ahead of it and equal once both world and ruleset are set (`Carried`),
between turns no variable other than turn and class carries the current time, except time 0 (`Quiet`), and the class of each fresh scope does (`Fresh`).
`StampsFollowTurn` alone is not inductive, as a reload makes it vacuous and the next `Prepare` has to re-establish it from the
world.

Steps of `Known` and `TurnInv` are proved separately, the first from the second.

**A turn at once.**  `ImplementsTurns` maps what `Turns` shows to `before`, so that the effects of a turn in progress are stutters and `EndTurn` is the abstract turn.  `HalfDone` says what is true in between: modifiers and times are what the effects
that have run would have left had each seen the state the turn found (`ModsAfter`, `PlacesAfter`).  An effect keeps it because what it reads where it runs no other effect of the ruleset modifies (`Independent`): its view is the one it would have had
at the beginning, and it writes under a key of its own.  Two hypotheses are named: rulesets are independent, and a script modifies only variables its effect declares (`ScriptsWriteDeclared`); the code enforces neither, they are what a designer of rulesets
has to keep for the order of effects not to matter.

**Recursion without induction over operators.**  The provers cannot instantiate a theorem that takes a predicate, so `Recursion` states induction for *sets*: a set with zero and every successor has all numbers
(`SetInduction`, `BoundedInduction`, `LeastExists`, from the library's well-foundedness of numbers).  A function that is defined by recursion over 0..N exists, whatever its step is (`RecursionExists`).  The models use recursive functions,
not recursive operators, and each proof about one chooses a set: the numbers for which the claim holds.

**Variables.**  `VariablesInv` is the type, `OneTypePerId`, `FixedValuesCurrent` and `ProperDomains`: values of a domain are valid and no value is listed twice.  `OneTypePerId` needs of each addition just the tables it looks at;
`FixedValuesCurrent` that each entry is a function of its pattern and the domains.  The other three follow from the invariant by what the operators compute.  An instance of a pattern is rebuilt from its arguments
and gives them back (`BuildRestores`, `BuildIs`); a list of choices is expanded to every way to take one of each, and to none twice (`ExtendedAre`, `SelectionsAre`); an id is found with a type exactly if it is in a plain table or is an instance of the one pattern of its normalized
id and its arguments are allowed.  So what `FindParameterizedVariables` lists and what the finders find is the same set of ids.  `QueriesExpand` leaves out ids with placeholders or empty arguments and `DumpIsWhatIsFound` open parameters, as the code does.

**Rulesets.**  `RuleSetInv` says how a ruleset came about: it is empty; or it is what one of the two orders of steps, that of `Load` or that of `ParseFrom`, makes of some tables (`IsMade`), and these are the tables of the directories loaded last or of the save.
What a step computes is stated once for each: a list after `Selected` or `UpsertRepeatedField`, tables after all files (`Merges`, which is kept object by object, file by file), the index of groups after so many of them (`Added`, `Fresh`), the definitions after so many variables.
The steps change different fields, so both orders give one ruleset, except for what the other order looks up too early: the jobs of improvements (`RestoredUnlessJobsAlways`).  `SuccessSays` is what a call has checked when it succeeds, whichever the order; that no group inherits from itself follows
from the condition on sets of groups, as otherwise the groups that lead to it would be such a set (`NoCircle`).  Every effect that is generated, for each kind of object, is `IsSound`; its variables are those of jobs and resources the ruleset has just validated.
That `IsMade` speaks of the new tables only rests on `ClearedIs`: of *any* value of the class, whatever its indices, lists, definitions and tables, `Cleared` leaves an empty ruleset; so nothing of the former one enters a step.  From there `DerivedFromTables` is proved member by member:
an index filled from nothing leads (`EmplaceLeads`, `GroupsAreLed`), a list names each once (`ListNames`), definitions are added one by one (`SomeAreDeclared`), and effects have keys that tell objects and kinds of code apart (`EffectsAreKeyed`), as tables have each id once.

**Code of effects.**  The scanner's loop has an invariant (`Follows`): it stands where a reader of Lua is in code, what it has written is what is wanted of all it has read, and the next index is the number of references before it.
A turn keeps it for each kind of sign: a comment or string that is copied ends where the reader's does (`Modes` between two places, escapes included), and a reference ends at the next bracket.  Nothing is written for a refused source.  That names are not given twice in an effect
needs that the second piece of code begins at the index where the first one ended, and that names with different numbers differ (`NamesDiffer`, a hypothesis; the code writes the number in decimals).

**Definitions.**  `StaleOnlyIfMissed` speaks of what a scope is given; `CacheInv` of what each has kept: it is current, or something above is in `missed`
(`Traced`); the world's scope always has the current ones, and a scope that is not live has none (`Kept`); whoever lives has everything above it alive (`Rooted`), so nothing
is created on top of a copy.  A read keeps `Traced` because a copy comes from above.  The lemma behind both theorems is `ReadLeavesEffective`: after
a read the nearest holder of every other walk is either the one it was or a scope that has just copied from it.  That a walk has a nearest
holder at all (`SomeNearest`) is the clause of `TreeAssumption` on subsets of a path: any scopes on one path to the world have a lowest.

**The walk.**  `OrderInv` says that what was visited, followed by what the recursive definition makes of the calls that are left, is what it makes of the whole walk; at the end nothing is left, which is `VisitsInOrder`.
That such a definition has one solution is proved by what a walk can still call: a call either takes a scope that was not visited, of finitely many, or shortens the list (`CallsLeaveLess`, `WalksKnown`).
`VisitsReachableOnce` is then a fact about that function: by the same induction its result lists what is reachable from the calls without passing what was visited, each once (`WalksSweep`, `VisitsSweep`).

**Lookups.**  `ChangesAreSeen` is kept by `Stamped`: a modifier that differs from the one the turn began with belongs to a variable stamped with this turn, and none goes away.  The others say what a fold computes.  The walk lists what is in reach, each once
(`VisitsSweep`), so the places a lookup looks at are disjoint.  A sum over a finite set is the same in any order (`GatheringIsUnique`, `AnyOrder`), so folding table by table gives the sum over all places.  For strings, merging keeps the one of
highest level, then key (`Highest`), from the first place of the walk that has it.  A query groups what it finds by variable; each group is what a plain lookup finds, and the normalized variable is met by both.

**Maps.**  At the bottom is one fact about arrays: the places of the box around a shape and the elements of its array are one to one (`RowsApart`, `Division`, `ElementsApart`, `PlaceOfElement`), though a visit takes them in another order; so a visit comes to
each place of the shape once (`ForeachIs`), and regions that are numbered in the order of the visit have numbers of their own (`TurnsDiffer`).  Cells that are laid out one after the other have addresses of their own (`LaidApart`).  `MapInv` says of all planes of a world:
ids of regions are apart and below the next number (`IdsApart`, `IdsGiven`), addresses of cells are apart (`AddressesApart`), indexes are exact (`Indexed`).  Until a load, each cell has the scope of its own address, so scopes are apart because addresses are; after one,
`ScopesDiffer` is carried over from the save, and lost when something new is allocated.  `WellSave` says of a save what is needed to build a world of it again, and that its view is what it has (`ViewOfSave`); planes and what is saved of them resemble each other
place by place (`Resemble`), before a save (`SaveIsWell`) and after a load (`LoadIsWell`), which is `MapRestored`.  The sort of scopes refuses a world exactly if two cells share a scope (`DuplicatesAre`, by counting).  `PlacesOverlapOnlyIfClose` is arithmetic: a multiple of
the external radius is no closer to zero than the radius itself (`MultiplesApart`), and two hexagons that are larger share a place on the line between their centres (`CloseRegions`).
The one hypothesis, `ForeignRegionIds`, is that a region from outside has no id of the form the world gives its own; without it `RegionIndexExact` is false, as the next plane may number a region with that id.

**Projects.**  A turn is followed project by project (`Run`, `Progress`), and a project resource by resource (`Exhausted`, `Fair`).  `ProjectsInv` has what `FinishedOncePaid` needs: a project is in the queue once, what is finished is no longer in it, and the
same holds in the save, which brings back queue and accounts together (`Settled`); what is finished, since it was saved, is paid for (`Paid`).  `ServedInOrder` rests on monotony: what a turn has left of a resource only shrinks, so
a project that was sated or left empty-handed stays so while later ones are served.

Only model-checked: `WalkEnds`, as liveness is out of the prover's reach, and the two violations, which are findings.  Every other property of a run is a theorem.

## 5. What is not modelled

- What `Explain*` shows, statistics of the executor, aggregates over the cells of a region: for display.
- The Lua state that the scopes of one effect share; which text Lua accepts is a parameter.
- Equality operators, directions and transformations of coordinates, rectangular views: pure functions that the game's state does not depend on, or only tests use.
- Cutting a parent or a tag link off, which the game never does.  `SetCurrentTurn` from outside and the session's own save (two fields), which has no caller in the game.
- World generation (random, by noise); it is the modifiers a world starts with.
- `Map` and `Session` are separate: planes added while a session has the world would be in neither its registry nor its turns, which reading shows and the game avoids.
- The other scripts of the game: their copies of cities, the two files a game is saved in (`game.gd:102`; the code itself says the two are not compared), estimates of progress, signals.
- Rendering, localisation, logging, resource paths, bindings: input, output and presentation.

## 6. Plan

Done, each module with its instance for TLC before its proofs: `Session`, `Turns`, `EffectExecutor`, `Definitions`, `Traversal`, `Walk`, `Lookup`, `Variables`, `RuleSetLoad`, `Map`, `CityProjects`; theorems as listed.  Left, in this order:

1. The composition of `Lookup` and `Variables`: modifiers of variables whose arguments left their domain with a change of ruleset stay, wildcard queries list them and plain lookups refuse them (`scope.inl:685`).
2. The game's two files with a crash between them, and the script-side copies of cities they pair with a world.
