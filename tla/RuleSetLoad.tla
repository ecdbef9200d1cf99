----------------------------- MODULE RuleSetLoad -----------------------------
(***************************************************************************)
(* A ruleset (core/ruleset/ruleset): how it is loaded from files, over     *)
(* whatever it held before, what it derives from its tables, and how it is *)
(* saved and restored.                                                     *)
(*                                                                         *)
(* Objects have an id and what others refer to: an improvement its groups, *)
(* the jobs it gives, the code of its class and of its instances; a job    *)
(* its groups, the resources of its input and output, the code of its      *)
(* class; a group its groups and its code; a variable its type.  Optional  *)
(* code is a sequence of at most one.  Amounts play no part.               *)
(***************************************************************************)
EXTENDS RuleFiles, EffectCode, VariableTables

CONSTANTS
    InvalidIds,         \* ids with other signs than a-z, 0-9 and '.', and the empty one
    RootSequences,      \* the sequences of directories the program may be given
    Sources             \* codes of effects

\* What the parsers of files make: lists, finite sets, codes of signs.
IsList(s) == s \in Seq(ToSet(s))
IsCode(code) ==
    /\ code = Code(code.lua, code.dependencies)
    /\ code.lua \in Seq(Signs) /\ IsList(code.dependencies)
AreCodes(codes) ==
    IsList(codes) /\ Len(codes) <= 1 /\ \A code \in ToSet(codes) : IsCode(code)

WellRead(table, object) ==
    CASE table = "improvements" ->
            /\ IsList(object.groups)
            /\ IsFiniteSet(object.jobs)
            /\ AreCodes(object.classEffect) /\ AreCodes(object.instanceEffect)
      [] table = "jobs" ->
            /\ IsList(object.groups)
            /\ IsFiniteSet(object.input \cup object.output)
            /\ AreCodes(object.classEffect)
      [] table \in {"improvement_groups", "job_groups"} ->
            IsList(object.groups) /\ AreCodes(object.groupEffect)
      [] table = "variables" -> object.id \in Seq(Segments)
      [] table = "effects" -> AreCodes(object.possible) /\ IsCode(object.effect)
      [] OTHER -> TRUE

ASSUME RootsAssumption ==
    \A directories \in RootSequences :
        /\ IsList(directories)
        /\ \A root \in ToSet(directories) : \A table \in TableNames :
              /\ IsFiniteSet(root.files[Directory[table]])
              /\ \A file \in root.files[Directory[table]] :
                    /\ file.path \in Nat
                    /\ \A t \in DOMAIN file.message :
                          /\ IsList(file.message[t])
                          /\ \A object \in ToSet(file.message[t]) : WellRead(t, object)

ASSUME SourcesAssumption == Sources \subseteq Seq(Signs)
ASSUME FixedAssumption == {"job", "resource"} \subseteq FixedDomains

NoIndex == [id \in {} |-> 0]

\* A ruleset; success is what the call that filled it returned.
EmptyRuleSet == [
    tables |-> NoObjects,
    improvementsByType |-> NoIndex, jobsByType |-> NoIndex, resourcesById |-> NoIndex,
    groupsById |-> NoIndex, projectsByType |-> NoIndex,
    jobIds |-> <<>>, resourceIds |-> <<>>,
    definitions |-> EmptyTables,
    effectDefinitions |-> <<>>,
    success |-> TRUE]

VARIABLES
    ruleset,
    roots,              \* history: the directories it was loaded from last, if any
    former              \* history: the ruleset whose save it was restored from, if any

ruleSetVars == <<ruleset, roots, former>>

-----------------------------------------------------------------------------
(* Indices.                                                                *)

IsValidIdentifier(id) == id \notin InvalidIds

ValidIds(objects) ==
    Selected([i \in DOMAIN objects |-> objects[i].id],
             {i \in DOMAIN objects : IsValidIdentifier(objects[i].id)})
ValidateIdentifiers(objects) == \A object \in ToSet(objects) : IsValidIdentifier(object.id)

\* try_emplace of each: what the index has already stays.
Emplace(index, objects, ids) ==
    [id \in DOMAIN index \cup ids |->
        IF id \in DOMAIN index THEN index[id]
        ELSE Min({i \in DOMAIN objects : objects[i].id = id})]

AddGroup(r, table, scopeType, i) ==
    LET id == r.tables[table][i].id
    IN  IF ~IsValidIdentifier(id) \/ id \in DOMAIN r.groupsById
        THEN [r EXCEPT !.success = FALSE]
        ELSE [r EXCEPT !.groupsById =
                 [other \in DOMAIN r.groupsById \cup {id} |->
                     IF other = id THEN [scopeType |-> scopeType, index |-> i]
                     ELSE r.groupsById[other]]]

AddGroups(r, table, scopeType) ==
    LET added[n \in 0 .. Len(r.tables[table])] ==
            IF n = 0 THEN r ELSE AddGroup(added[n - 1], table, scopeType, n)
    IN  added[Len(r.tables[table])]

LoadResources(r) ==
    LET resources == r.tables.resources
    IN  [r EXCEPT
            !.resourcesById = Emplace(@, resources, ToSet(ValidIds(resources))),
            !.resourceIds = @ \o ValidIds(resources),
            !.success = @ /\ ValidateIdentifiers(resources)]

\* Fault: the resources of a job may be missing.
LoadJobsUnchecked(r) ==
    LET jobs == r.tables.jobs
    IN  AddGroups(
            [r EXCEPT
                !.jobsByType = Emplace(@, jobs, ToSet(ValidIds(jobs))),
                !.jobIds = @ \o ValidIds(jobs),
                !.success = @ /\ ValidateIdentifiers(jobs)],
            "job_groups", "job group")

LoadJobs(r) ==
    LET jobs == r.tables.jobs
    IN  AddGroups(
            [r EXCEPT
                !.jobsByType = Emplace(@, jobs, ToSet(ValidIds(jobs))),
                !.jobIds = @ \o ValidIds(jobs),
                !.success = @ /\ ValidateIdentifiers(jobs)
                              /\ \A job \in ToSet(jobs) :
                                    job.input \cup job.output \subseteq DOMAIN r.resourcesById],
            "job_groups", "job group")

LoadImprovements(r) ==
    LET improvements == r.tables.improvements
    IN  AddGroups(
            [r EXCEPT
                !.improvementsByType = Emplace(@, improvements, ToSet(ValidIds(improvements))),
                !.success = @ /\ ValidateIdentifiers(improvements)
                              /\ \A improvement \in ToSet(improvements) :
                                    improvement.jobs \subseteq DOMAIN r.jobsByType],
            "improvement_groups", "improvement group")

LoadProjects(r) ==
    LET projects == r.tables.projects
    IN  [r EXCEPT !.projectsByType =
            Emplace(@, projects, {project.id : project \in ToSet(projects)})]

-----------------------------------------------------------------------------
(* Groups.                                                                 *)

IdsOf(objects) == {object.id : object \in ToSet(objects)}

ValidateGroupReferences(object, groups) ==
    /\ IsInjective(object.groups)
    /\ \A group \in ToSet(object.groups) : IsValidIdentifier(group) /\ group \in IdsOf(groups)

\* No set of groups each of which inherits from another one of the set.
ValidateGroupGraph(groups) ==
    /\ \A group \in ToSet(groups) : ValidateGroupReferences(group, groups)
    /\ \A cycle \in SUBSET {g \in ToSet(groups) : IsValidIdentifier(g.id)} :
          cycle # {} => \E g \in cycle : {c.id : c \in cycle} \cap ToSet(g.groups) = {}

\* Fault: groups are not compared with groups.
ValidateClassesOnly(r) ==
    [r EXCEPT !.success =
        /\ @
        /\ \A object \in ToSet(r.tables.improvements) :
              ValidateGroupReferences(object, r.tables.improvement_groups)
        /\ \A object \in ToSet(r.tables.jobs) :
              ValidateGroupReferences(object, r.tables.job_groups)]

ValidateGroups(r) ==
    [r EXCEPT !.success =
        /\ @
        /\ \A object \in ToSet(r.tables.improvements) :
              ValidateGroupReferences(object, r.tables.improvement_groups)
        /\ \A object \in ToSet(r.tables.jobs) :
              ValidateGroupReferences(object, r.tables.job_groups)
        /\ ValidateGroupGraph(r.tables.improvement_groups)
        /\ ValidateGroupGraph(r.tables.job_groups)]

-----------------------------------------------------------------------------
(* Variables.                                                              *)

IsPattern(id) == \E i \in DOMAIN id : id[i].kind \in {"placeholder", "braced"}

Accepts(d, variable) ==
    CASE variable.type \in {"numeric", "boolean"} ->
            IF IsPattern(variable.id) THEN AcceptsParameterizedNumeric(d, variable.id)
            ELSE AcceptsNumeric(d, variable.id)
      [] variable.type = "string" ->
            IF IsPattern(variable.id) THEN AcceptsParameterizedString(d, variable.id)
            ELSE AcceptsString(d, variable.id)
      [] OTHER -> FALSE

Add(d, variable) ==
    IF variable.type = "string"
    THEN IF IsPattern(variable.id) THEN AddParameterizedStringDefinition(d, variable.id)
         ELSE AddStringDefinition(d, variable.id)
    ELSE IF IsPattern(variable.id) THEN AddParameterizedNumericDefinition(d, variable.id)
         ELSE AddNumericDefinition(d, variable.id)

\* The first definition that is not accepted ends the loading of definitions.
AddVariable(r, variable) ==
    IF ~r.success THEN r
    ELSE IF Accepts(r.definitions, variable)
    THEN [r EXCEPT !.definitions = Add(@, variable)]
    ELSE [r EXCEPT !.success = FALSE]

\* The domains are registered first, whatever failed before.
LoadVariableDefinitions(r) ==
    LET accepted == AcceptsDomainValues(r.jobIds) /\ AcceptsDomainValues(r.resourceIds)
        registered ==
            SetFixedParameterDomainValues(
                SetFixedParameterDomainValues(r.definitions, "job", r.jobIds),
                "resource", r.resourceIds)
        variables == r.tables.variables
        loaded[n \in 0 .. Len(variables)] ==
            IF n = 0 THEN [r EXCEPT !.definitions = registered, !.success = TRUE]
            ELSE AddVariable(loaded[n - 1], variables[n])
    IN  IF ~accepted THEN [r EXCEPT !.success = FALSE]
        ELSE [loaded[Len(variables)] EXCEPT !.success = @ /\ r.success]

-----------------------------------------------------------------------------
(* Effects.                                                                *)

CoreClass == <<"core.class">>
JobCount(job) == <<Text("job"), Argument(job), Text("count")>>
Consumes(resource) == <<Text("consumes"), Argument(resource)>>
Produces(resource) == <<Text("produces"), Argument(resource)>>

\* A script that sets each of the variables, whose ids it has in strings.
Setting(variables) ==
    Code(FlattenSeq([i \in 1..Cardinality(variables) |-> <<"x", "'", "x", "'">>]), <<>>)

\* An effect, the class it selects and the variables a generated one sets.
EffectOf(definition, id, scopeType, class, sets) ==
    [id |-> id, scopeType |-> scopeType, class |-> class, sets |-> sets,
     names |-> definition.names, dependencies |-> definition.dependencies,
     broken |-> definition.broken]

Effect(id, scopeType, class, possible, code, sets) ==
    EffectOf(EffectDefinition(possible, code), id, scopeType, class, sets)

\* Effects of classes and groups depend on core.class, which is written when a scope of
\* the class is created.
WithCoreClass(code) ==
    IF CoreClass \in ToSet(code.dependencies) THEN code
    ELSE [code EXCEPT !.dependencies = Append(@, CoreClass)]

ClassEffect(object, name, scopeType, code, sets) ==
    Effect(<<object.id, name>>, scopeType, object.id, <<>>, WithCoreClass(code), sets)

\* Nothing if there is none to make.
When(condition, effect) == IF condition THEN <<effect>> ELSE <<>>

EffectsOfImprovement(improvement) ==
    LET counts == {JobCount(job) : job \in improvement.jobs}
    IN  [i \in DOMAIN improvement.classEffect |->
            ClassEffect(improvement, "class.effect", "improvement class",
                        improvement.classEffect[i], {})]
        \o When(counts # {},
                ClassEffect(improvement, "jobs.effect", "improvement class",
                            Setting(counts), counts))
        \o [i \in DOMAIN improvement.instanceEffect |->
               Effect(<<improvement.id, "instance.effect">>, "improvement", improvement.id,
                      <<Code(<<"x">>, <<>>)>>, improvement.instanceEffect[i], {})]

EffectsOfJob(job) ==
    LET amounts == {Consumes(resource) : resource \in job.input}
                       \cup {Produces(resource) : resource \in job.output}
    IN  [i \in DOMAIN job.classEffect |->
            ClassEffect(job, "class.effect", "job class", job.classEffect[i], {})]
        \o When(amounts # {},
                ClassEffect(job, "resources.effect", "job class", Setting(amounts), amounts))

EffectsOfGroup(group, scopeType) ==
    [i \in DOMAIN group.groupEffect |->
        ClassEffect(group, "group.effect", scopeType, group.groupEffect[i], {})]

LoadEffects(r) ==
    LET t == r.tables
        Given(e) == Effect(<<e.id>>, e.scopeType, e.class, e.possible, e.effect, {})
    IN  [r EXCEPT !.effectDefinitions = @
            \o [i \in DOMAIN t.effects |-> Given(t.effects[i])]
            \o FlattenSeq([i \in DOMAIN t.improvements |->
                               EffectsOfImprovement(t.improvements[i])])
            \o FlattenSeq([i \in DOMAIN t.jobs |-> EffectsOfJob(t.jobs[i])])
            \o FlattenSeq([i \in DOMAIN t.improvement_groups |->
                               EffectsOfGroup(t.improvement_groups[i], "improvement group")])
            \o FlattenSeq([i \in DOMAIN t.job_groups |->
                               EffectsOfGroup(t.job_groups[i], "job group")])]

-----------------------------------------------------------------------------
(* Loading, saving, restoring.                                             *)

\* Fault: the index of jobs stays.
ClearAllButJobs(r) ==
    [r EXCEPT
        !.tables = ClearTables(@),
        !.improvementsByType = NoIndex, !.resourcesById = NoIndex,
        !.groupsById = NoIndex, !.projectsByType = NoIndex,
        !.resourceIds = <<>>, !.jobIds = <<>>,
        !.definitions = ClearDefinitions(@),
        !.effectDefinitions = <<>>]

\* Clear, member by member.
Cleared(r) ==
    [r EXCEPT
        !.tables = ClearTables(@),
        !.improvementsByType = NoIndex, !.resourcesById = NoIndex, !.jobsByType = NoIndex,
        !.groupsById = NoIndex, !.projectsByType = NoIndex,
        !.resourceIds = <<>>, !.jobIds = <<>>,
        !.definitions = ClearDefinitions(@),
        !.effectDefinitions = <<>>]

\* What the ruleset r becomes when it is loaded from the directories.
Loaded(r, directories) ==
    LET base == [Cleared(r) EXCEPT !.tables = LoadTables(@, directories), !.success = TRUE]
        classes == LoadImprovements(LoadJobs(LoadResources(base)))
        all == LoadVariableDefinitions(LoadProjects(ValidateGroups(classes)))
    IN  IF all.success THEN LoadEffects(all) ELSE all

\* Fault: variables are left out.
SerializeWithoutVariables(r) == [r.tables EXCEPT !.variables = <<>>]

SerializeTo(r) == r.tables

\* The ruleset a save gives.  Improvements are looked through before there are jobs.
ParseFrom(saved) ==
    LET base == [Cleared(EmptyRuleSet) EXCEPT !.tables = saved]
        classes == LoadJobs(LoadResources(LoadImprovements(base)))
        all == LoadVariableDefinitions(LoadProjects(ValidateGroups(classes)))
    IN  IF all.success THEN LoadEffects(all) ELSE all

RuleSetInit ==
    /\ ruleset = EmptyRuleSet
    /\ roots = <<>>
    /\ former = <<>>

Load(directories) ==
    /\ ruleset' = Loaded(ruleset, directories)
    /\ roots' = <<directories>>
    /\ former' = <<>>

SaveAndRestore ==
    /\ roots # <<>>
    /\ ruleset' = ParseFrom(SerializeTo(ruleset))
    /\ former' = <<ruleset>>
    /\ UNCHANGED roots

RuleSetNext ==
    \/ \E directories \in RootSequences : Load(directories)
    \/ SaveAndRestore

RuleSetSpec == RuleSetInit /\ [][RuleSetNext]_ruleSetVars

-----------------------------------------------------------------------------
(* Properties.                                                             *)

WasLoaded == roots # <<>> /\ former = <<>>
WasRestored == former # <<>>

\* An index leads from each of the ids to the object that has it, and from no other id.
Leads(index, objects, ids) ==
    /\ DOMAIN index = ids
    /\ \A i \in DOMAIN objects : objects[i].id \in ids => index[objects[i].id] = i

ValidIdsOf(objects) == {id \in IdsOf(objects) : IsValidIdentifier(id)}

IndicesLead(r) ==
    LET t == r.tables
    IN  /\ Leads(r.improvementsByType, t.improvements, ValidIdsOf(t.improvements))
        /\ Leads(r.jobsByType, t.jobs, ValidIdsOf(t.jobs))
        /\ Leads(r.resourcesById, t.resources, ValidIdsOf(t.resources))
        /\ Leads(r.projectsByType, t.projects, IdsOf(t.projects))

\* The list has each valid id once, and the domain is either unset or has the same ids.
NamesOnce(ids, objects, domain) ==
    /\ ToSet(ids) = ValidIdsOf(objects)
    /\ IsInjective(ids)
    /\ domain # Unset => ToSet(domain) = ToSet(ids)

ListsName(r) ==
    /\ NamesOnce(r.jobIds, r.tables.jobs, r.definitions.domains["job"])
    /\ NamesOnce(r.resourceIds, r.tables.resources, r.definitions.domains["resource"])

GroupsOf(tables, scopeType) ==
    IF scopeType = "improvement group" THEN tables.improvement_groups ELSE tables.job_groups

\* The id of a group leads to an object that has it, also when several have it.
GroupsLead(r) ==
    /\ DOMAIN r.groupsById =
           ValidIdsOf(r.tables.improvement_groups) \cup ValidIdsOf(r.tables.job_groups)
    /\ \A id \in DOMAIN r.groupsById :
          LET group == r.groupsById[id]
              groups == GroupsOf(r.tables, group.scopeType)
          IN  /\ group.scopeType \in {"improvement group", "job group"}
              /\ group.index \in DOMAIN groups
              /\ groups[group.index].id = id

\* The ids under which the variables of these types are defined.
DefinedId(variable) == IF IsPattern(variable.id) THEN DefinitionId(variable.id) ELSE variable.id
Declared(variables, types) ==
    {DefinedId(variable) : variable \in {v \in ToSet(variables) : v.type \in types}}

DefinitionsAreOf(r) ==
    LET d == r.definitions
        numbers == Declared(r.tables.variables, {"numeric", "boolean"})
        strings == Declared(r.tables.variables, {"string"})
    IN  /\ d.numeric \cup DOMAIN d.numericPatterns \subseteq numbers
        /\ d.string \cup DOMAIN d.stringPatterns \subseteq strings
        /\ r.success => /\ numbers \subseteq d.numeric \cup DOMAIN d.numericPatterns
                        /\ strings \subseteq d.string \cup DOMAIN d.stringPatterns

\* Ids of generated effects have two parts here, those of files one: that a file names
\* an effect like a generated one is left out.
Differ(effects) ==
    \A i, j \in DOMAIN effects :
        /\ effects[i].id = effects[j].id
        /\ effects[i].scopeType = effects[j].scopeType
        => i = j

Origins == {"effects", "improvements", "jobs", "improvement_groups", "job_groups"}

EffectsAreOf(r) ==
    /\ ~r.success => r.effectDefinitions = <<>>
    /\ \A effect \in ToSet(r.effectDefinitions) :
          \E table \in Origins : effect.id[1] \in IdsOf(r.tables[table])
    /\ Differ(r.effectDefinitions)

\* Whatever was loaded or restored before, and with or without success, all that a
\* ruleset derives is of the objects its tables have now: every index leads to them and
\* only to them, lists and domains name them once, definitions are of declared
\* variables, and no effect is there twice or of a ruleset that failed.  Load goes on
\* after an error, and whatever Clear missed would stay (RuleSet::Clear and the Clear of
\* its members).
DerivedFromTables ==
    /\ IndicesLead(ruleset)
    /\ ListsName(ruleset)
    /\ GroupsLead(ruleset)
    /\ DefinitionsAreOf(ruleset)
    /\ EffectsAreOf(ruleset)

\* Every table has each id once, in the order in which the files first name them, with
\* the object of the last file that has it: later directories override earlier ones
\* without moving anything (UpsertRepeatedField, LoadOrderedFilesInto).
LastFileWins ==
    WasLoaded =>
        \A table \in TableNames :
            LET files == CollectRuleFiles(FilterValidRuleRoots(Head(roots)), Directory[table])
                read == FlattenSeq([i \in DOMAIN files |-> Objects(files[i], table)])
                Places(id) == {i \in DOMAIN read : read[i].id = id}
                merged == ruleset.tables[table]
            IN  /\ {merged[i].id : i \in DOMAIN merged} = {read[i].id : i \in DOMAIN read}
                /\ \A i \in DOMAIN merged : merged[i] = read[Max(Places(merged[i].id))]
                /\ \A i, j \in DOMAIN merged :
                      i < j => Min(Places(merged[i].id)) < Min(Places(merged[j].id))

\* The ids that a group inherits from in at most so many steps.
Inherited(groups, group) ==
    LET known[n \in 0 .. Len(groups)] ==
            IF n = 0 THEN ToSet(group.groups)
            ELSE known[n - 1] \cup UNION {ToSet(g.groups) :
                     g \in {h \in ToSet(groups) : h.id \in known[n - 1]}}
    IN  known[Len(groups)]

\* If loading succeeds, whatever an improvement, a job or a group names as its group is
\* found under that id, in the table of its own type, and no group inherits from
\* itself: what sessions rely on when they create classes.
GroupsResolve ==
    ruleset.success =>
        \A own \in {<<"improvements", "improvement_groups", "improvement group">>,
                    <<"jobs", "job_groups", "job group">>} :
            LET groups == ruleset.tables[own[2]]
            IN  /\ \A object \in ToSet(ruleset.tables[own[1]]) \cup ToSet(groups) :
                      \A id \in ToSet(object.groups) :
                          /\ id \in DOMAIN ruleset.groupsById
                          /\ ruleset.groupsById[id].scopeType = own[3]
                          /\ groups[ruleset.groupsById[id].index].id = id
                /\ \A group \in ToSet(groups) : group.id \notin Inherited(groups, group)

\* The generated effects set variables of registered jobs and resources only, whichever
\* directory overrode which, and wait for core.class: an effect is generated for the
\* merged tables after all references were checked, not when its object is read.
GeneratedEffectsResolve ==
    \A effect \in ToSet(ruleset.effectDefinitions) :
        effect.sets # {} =>
            /\ CoreClass \in ToSet(effect.dependencies)
            /\ \A variable \in effect.sets :
                  LET domain == IF variable[1] = Text("job") THEN "job" ELSE "resource"
                  IN  Arguments(variable)[1] \in ToSet(ruleset.definitions.domains[domain])

\* A name stands for one reference: in place of the references a Lua reader would take
\* for code, and of nothing in comments and strings, and never twice in an effect,
\* whose two pieces of code run in one Lua state.
NamesReplaceReferences ==
    /\ \A source \in Sources :
          LET prepared == PreprocessCode(Code(source, <<>>), 0)
          IN  prepared.valid => prepared.code = Wanted(source)
    /\ \A effect \in ToSet(ruleset.effectDefinitions) : IsInjective(effect.names)

\* What is restored is what was saved, and all that was derived from it, as long as no
\* improvement gives jobs.
RestoredUnlessJobs ==
    WasRestored /\ Head(former).success =>
        /\ ruleset.tables = Head(former).tables
        /\ \/ ruleset = Head(former)
           \/ \E i \in ToSet(Head(former).tables.improvements) : i.jobs # {}

\* "Round trip restores groups and generated effects."
RestoresGeneratedEffects ==
    WasRestored /\ Head(former).success =>
        ruleset.effectDefinitions = Head(former).effectDefinitions
=============================================================================
