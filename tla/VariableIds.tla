----------------------------- MODULE VariableIds -----------------------------
(***************************************************************************)
(* The ids of variables (core/ruleset/parameterized_variable_definition):  *)
(* how an id is read as a query, how a definition with parameters is read  *)
(* from its pattern, which ids a definition stands for.                    *)
(*                                                                         *)
(* An id is the sequence of its segments, which is what splitting it at    *)
(* every '/' gives and joining puts together again.  A segment is plain    *)
(* text, an argument "@value" ("@*" asks for every value, "@" alone is     *)
(* malformed), a placeholder "{name}" ("{}" has no name), or text with an  *)
(* opening brace in it that is no placeholder.                             *)
(***************************************************************************)
EXTENDS Naturals, FiniteSets, Sequences, SequencesExt

CONSTANTS
    FixedDomains,       \* the names of the built-in domains: job, resource
    MaxParameters,      \* kMaxParameterizedVariableParameters
    Unset               \* a domain that was not registered

ASSUME DomainsAssumption == "" \notin FixedDomains
ASSUME ParametersAssumption == MaxParameters \in Nat

Text(t) == [kind |-> "text", of |-> t]
Argument(v) == [kind |-> "argument", of |-> v]
Placeholder(n) == [kind |-> "placeholder", of |-> n]
Braced(t) == [kind |-> "braced", of |-> t]

Segments == [kind : {"text", "argument", "placeholder", "braced"}, of : STRING]

Open == ""              \* the name of "{}"
Wildcard == "*"

\* The segments of a kind among the first n of an id, for every n; and all of them.
Taken(id, kind) ==
    LET taken[n \in 0 .. Len(id)] ==
            IF n = 0 THEN <<>>
            ELSE IF id[n].kind = kind THEN Append(taken[n - 1], id[n]) ELSE taken[n - 1]
    IN  taken
OfKind(id, kind) == Taken(id, kind)[Len(id)]
Names(segments) == [i \in DOMAIN segments |-> segments[i].of]

-----------------------------------------------------------------------------
(* Queries.                                                                *)

Arguments(id) == Names(OfKind(id, "argument"))
IsParameterized(id) == Arguments(id) # <<>>
HasWildcard(id) == Wildcard \in ToSet(Arguments(id))

\* A domain holds, and an argument names, no empty value and no "*"
\* (a value with '/' in it is the third of these).
InvalidValues == {"", Wildcard, "a/b"}
IsValidConcreteParameterValue(v) == v \notin InvalidValues

ParseVariableQuery(id, allowWildcard) ==
    \A v \in ToSet(Arguments(id)) :
        IF v = Wildcard THEN allowWildcard ELSE IsValidConcreteParameterValue(v)

NormalizedId(id) ==
    [i \in DOMAIN id |->
        IF id[i].kind = "argument"
        THEN Placeholder(Open) ELSE id[i]]

\* Fault: the values of the arguments are not compared.
SameShape(query, concrete) ==
    /\ IsParameterized(query) /\ IsParameterized(concrete)
    /\ ~HasWildcard(concrete)
    /\ NormalizedId(query) = NormalizedId(concrete)

QueryMatchesConcreteId(query, concrete) ==
    /\ IsParameterized(query) /\ IsParameterized(concrete)
    /\ ~HasWildcard(concrete)
    /\ NormalizedId(query) = NormalizedId(concrete)
    /\ Len(Arguments(query)) = Len(Arguments(concrete))
    /\ \A i \in DOMAIN Arguments(query) :
          Arguments(query)[i] \in {Wildcard, Arguments(concrete)[i]}

-----------------------------------------------------------------------------
(* Definitions.                                                            *)

IsPlaceholder(segment) == segment.kind = "placeholder"
Parameters(pattern) == Names(OfKind(pattern, "placeholder"))

ParseParameterizedDefinition(pattern) ==
    /\ \A i \in DOMAIN pattern : pattern[i].kind \in {"text", "placeholder"}
    /\ \A i \in DOMAIN Parameters(pattern) :
          Parameters(pattern)[i] # Open =>
              /\ Parameters(pattern)[i] \in FixedDomains
              /\ \A j \in 1..(i - 1) : Parameters(pattern)[j] # Parameters(pattern)[i]
    /\ Len(Parameters(pattern)) \in 1..MaxParameters

DefinitionId(pattern) ==
    [i \in DOMAIN pattern |->
        IF IsPlaceholder(pattern[i]) THEN Placeholder(Open) ELSE pattern[i]]

\* A definition that was read: its pattern and its parameters, each with the values its
\* domain had when it was last filled in.
Definition(pattern, registered) ==
    [pattern |-> pattern,
     parameters |-> [i \in DOMAIN Parameters(pattern) |->
        LET name == Parameters(pattern)[i]
        IN  [name |-> name, values |-> IF name = Open THEN Unset ELSE registered[name]]]]

Allows(parameter, value) ==
    \/ parameter.name = Open
    \/ parameter.values # Unset /\ value \in ToSet(parameter.values)

ValidateConcreteParameterBindings(query, definition) ==
    /\ IsParameterized(query)
    /\ ~HasWildcard(query)
    /\ NormalizedId(query) = DefinitionId(definition.pattern)
    /\ Len(Arguments(query)) = Len(definition.parameters)
    /\ \A i \in DOMAIN definition.parameters :
          Allows(definition.parameters[i], Arguments(query)[i])

\* The n-th placeholder of the pattern gives way to the n-th value.
BuildConcreteVariableId(pattern, values) ==
    [i \in DOMAIN pattern |->
        IF IsPlaceholder(pattern[i])
        THEN Argument(values[Len(Taken(pattern, "placeholder")[i])])
        ELSE pattern[i]]

-----------------------------------------------------------------------------
(* The ids a definition stands for.                                        *)

\* Each of some selections with each of a choice.
Extended(selections, choice) ==
    LET extended[i \in 0 .. Len(selections)] ==
            IF i = 0 THEN <<>>
            ELSE extended[i - 1] \o [j \in DOMAIN choice |-> Append(selections[i], choice[j])]
    IN  extended[Len(selections)]

\* Every way to take one of each of a sequence of choices, the last turning fastest.
Selections(choices) ==
    LET selections[n \in 0 .. Len(choices)] ==
            IF n = 0 THEN << <<>> >> ELSE Extended(selections[n - 1], choices[n])
    IN  selections[Len(choices)]

Refused(error) == [error |-> error, ids |-> <<>>]

\* The first parameter that cannot be chosen for says what is wrong.
GenerateParameterizedInstances(query, definition) ==
    LET Error(i) ==
            LET parameter == definition.parameters[i]
                value == Arguments(query)[i]
            IN  IF value = Wildcard /\ parameter.name = Open THEN "invalid reference"
                ELSE IF value = Wildcard /\ parameter.values = Unset THEN "no such variable"
                ELSE IF value # Wildcard /\ ~Allows(parameter, value) THEN "no such variable"
                ELSE "none"
        Choice(i) ==
            IF Arguments(query)[i] = Wildcard
            THEN definition.parameters[i].values ELSE <<Arguments(query)[i]>>
        wrong == {i \in DOMAIN definition.parameters : Error(i) # "none"}
        chosen == Selections([i \in DOMAIN definition.parameters |-> Choice(i)])
    IN  IF ~IsParameterized(query) \/ NormalizedId(query) # DefinitionId(definition.pattern)
            \/ Len(Arguments(query)) # Len(definition.parameters)
        THEN Refused("no such variable")
        ELSE IF wrong # {}
        THEN Refused(Error(CHOOSE i \in wrong : \A j \in wrong : i <= j))
        ELSE [error |-> "none",
              ids |-> [n \in DOMAIN chosen |->
                          BuildConcreteVariableId(definition.pattern, chosen[n])]]

\* What the table of all variables lists for a definition: open parameters stay open,
\* a definition over a domain that was not registered is left out.
Dumped(definition) ==
    LET Choice(parameter) ==
            IF parameter.name = Open THEN <<Placeholder(Open)>>
            ELSE IF parameter.values = Unset THEN <<>>
            ELSE [i \in DOMAIN parameter.values |-> Argument(parameter.values[i])]
        chosen == Selections([i \in DOMAIN definition.parameters |->
                                  Choice(definition.parameters[i])])
    IN  [n \in DOMAIN chosen |-> [i \in DOMAIN definition.pattern |->
            IF IsPlaceholder(definition.pattern[i])
            THEN chosen[n][Len(Taken(definition.pattern, "placeholder")[i])]
            ELSE definition.pattern[i]]]
=============================================================================
