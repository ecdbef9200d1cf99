--------------------------- MODULE VariableTables ---------------------------
(***************************************************************************)
(* The tables of variable definitions (core/ruleset/variable_definition):  *)
(* plain and parameterized, numeric and string, with the values of the     *)
(* built-in domains; what they answer and what a call makes of them.       *)
(*                                                                         *)
(* What a definition says of its variable (bounds, default, scopes) plays  *)
(* no part: a plain table is the set of its ids.                           *)
(***************************************************************************)
EXTENDS VariableIds

Tables(numeric, string, numericPatterns, stringPatterns, domains) ==
    [numeric |-> numeric, string |-> string,
     numericPatterns |-> numericPatterns,       \* by normalized id
     stringPatterns |-> stringPatterns,
     domains |-> domains]                       \* fixed_parameter_domain_values_

NoDefinitions == [id \in {} |-> Unset]

\* What a ruleset begins with.
EmptyTables ==
    Tables({}, {}, NoDefinitions, NoDefinitions, [n \in FixedDomains |-> Unset])

\* Clear, map by map.
ClearDefinitions(d) ==
    [d EXCEPT !.numeric = {}, !.string = {},
              !.numericPatterns = NoDefinitions, !.stringPatterns = NoDefinitions,
              !.domains = [n \in FixedDomains |-> Unset]]

-----------------------------------------------------------------------------
(* What an id is.                                                          *)

\* Fault: plain definitions alone.
PlainType(d, id) ==
    IF id \in d.numeric THEN "numeric" ELSE IF id \in d.string THEN "string" ELSE "missing"

\* GetVariableType of a raw id: the id itself in any of the tables, or else the
\* definition it is an instance of.
GetVariableType(d, id) ==
    IF id \in d.numeric THEN "numeric"
    ELSE IF id \in d.string THEN "string"
    ELSE IF id \in DOMAIN d.numericPatterns THEN "numeric"
    ELSE IF id \in DOMAIN d.stringPatterns THEN "string"
    ELSE IF ~ParseVariableQuery(id, FALSE) \/ ~IsParameterized(id) THEN "missing"
    ELSE IF NormalizedId(id) \in DOMAIN d.numericPatterns THEN "numeric"
    ELSE IF NormalizedId(id) \in DOMAIN d.stringPatterns THEN "string"
    ELSE "missing"

\* GetVariableType of a query that was read before.
GetQueryType(d, query) ==
    IF ~IsParameterized(query)
    THEN IF query \in d.numeric THEN "numeric"
         ELSE IF query \in d.string THEN "string" ELSE "missing"
    ELSE IF HasWildcard(query) THEN "missing"
    ELSE IF NormalizedId(query) \in DOMAIN d.numericPatterns THEN "numeric"
    ELSE IF NormalizedId(query) \in DOMAIN d.stringPatterns THEN "string"
    ELSE "missing"

-----------------------------------------------------------------------------
(* Finding.  An answer is the definition, under the id it was found as, or *)
(* an error.                                                               *)

Found(id) == [outcome |-> "found", id |-> id]
Error(e) == [outcome |-> e, id |-> <<>>]
NoSuchVariable == Error("no such variable")
WrongType == Error("incorrect type")
InvalidReference == Error("invalid reference")

FindParameterizedDefinition(query, definitions) ==
    /\ IsParameterized(query)
    /\ NormalizedId(query) \in DOMAIN definitions
    /\ LET parameters == definitions[NormalizedId(query)].parameters
       IN  /\ Len(Arguments(query)) = Len(parameters)
           /\ \A i \in DOMAIN parameters :
                 \/ Arguments(query)[i] = Wildcard
                 \/ Allows(parameters[i], Arguments(query)[i])

FindParameterizedVariable(query, definitions) ==
    IF HasWildcard(query) THEN InvalidReference
    ELSE IF ~FindParameterizedDefinition(query, definitions) THEN NoSuchVariable
    ELSE LET definition == definitions[NormalizedId(query)]
         IN  IF ValidateConcreteParameterBindings(query, definition)
             THEN Found(BuildConcreteVariableId(definition.pattern, Arguments(query)))
             ELSE NoSuchVariable

\* Fault: another type is only looked for among plain definitions.
HasPlainOfType(query, plain, definitions) == query \in plain

HasVariableOfType(query, plain, definitions) ==
    IF IsParameterized(query) THEN FindParameterizedDefinition(query, definitions)
    ELSE query \in plain \cup DOMAIN definitions

Find(id, plain, definitions, otherPlain, otherDefinitions) ==
    LET own ==
            IF IsParameterized(id) THEN FindParameterizedVariable(id, definitions)
            ELSE IF id \in plain \cup DOMAIN definitions THEN Found(id)
            ELSE NoSuchVariable
    IN  IF ~ParseVariableQuery(id, FALSE) THEN InvalidReference
        ELSE IF own # NoSuchVariable THEN own
        ELSE IF HasVariableOfType(id, otherPlain, otherDefinitions) THEN WrongType
        ELSE NoSuchVariable

FindNumericVariable(d, id) == Find(id, d.numeric, d.numericPatterns, d.string, d.stringPatterns)
FindStringVariable(d, id) == Find(id, d.string, d.stringPatterns, d.numeric, d.numericPatterns)

FindVariable(d, id) ==
    LET type == GetQueryType(d, id)
    IN  IF ~ParseVariableQuery(id, FALSE) THEN InvalidReference
        ELSE IF type = "numeric" THEN FindNumericVariable(d, id)
        ELSE IF type = "string" THEN FindStringVariable(d, id)
        ELSE NoSuchVariable

FindParameterizedVariables(query, definitions) ==
    IF ~ParseVariableQuery(query, TRUE) THEN Refused("invalid reference")
    ELSE IF ~IsParameterized(query) \/ NormalizedId(query) \notin DOMAIN definitions
    THEN Refused("no such variable")
    ELSE GenerateParameterizedInstances(query, definitions[NormalizedId(query)])
-----------------------------------------------------------------------------
(* Changes.  A call that does not accept what it is given changes nothing. *)

AcceptsNumeric(d, id) == GetVariableType(d, id) \in {"numeric", "missing"}

AddNumericDefinition(d, id) ==
    Tables(d.numeric \cup {id}, d.string, d.numericPatterns, d.stringPatterns, d.domains)

AcceptsString(d, id) == GetVariableType(d, id) \in {"string", "missing"}

AddStringDefinition(d, id) ==
    Tables(d.numeric, d.string \cup {id}, d.numericPatterns, d.stringPatterns, d.domains)

\* Fault: the entry stands at its pattern.
WithPattern(definitions, pattern, domains) ==
    [id \in DOMAIN definitions \cup {pattern} |->
        IF id = pattern THEN Definition(pattern, domains) ELSE definitions[id]]

\* A table with one more entry, or with another one in its place.
With(definitions, pattern, domains) ==
    [id \in DOMAIN definitions \cup {DefinitionId(pattern)} |->
        IF id = DefinitionId(pattern) THEN Definition(pattern, domains) ELSE definitions[id]]

AcceptsParameterizedNumeric(d, pattern) ==
    /\ ParseParameterizedDefinition(pattern)
    /\ DefinitionId(pattern) \notin DOMAIN d.stringPatterns
    /\ GetVariableType(d, DefinitionId(pattern)) \in {"numeric", "missing"}

AddParameterizedNumericDefinition(d, pattern) ==
    Tables(d.numeric, d.string,
           With(d.numericPatterns, pattern, d.domains), d.stringPatterns, d.domains)

\* Fault: the table of numeric patterns is not asked.
AcceptsUnlessPlain(d, pattern) ==
    /\ ParseParameterizedDefinition(pattern)
    /\ PlainType(d, DefinitionId(pattern)) \in {"string", "missing"}

AcceptsParameterizedString(d, pattern) ==
    /\ ParseParameterizedDefinition(pattern)
    /\ DefinitionId(pattern) \notin DOMAIN d.numericPatterns
    /\ GetVariableType(d, DefinitionId(pattern)) \in {"string", "missing"}

AddParameterizedStringDefinition(d, pattern) ==
    Tables(d.numeric, d.string,
           d.numericPatterns, With(d.stringPatterns, pattern, d.domains), d.domains)

\* Every entry takes the values its domains have now.
FillFixedParameterValues(definitions, domains) ==
    [id \in DOMAIN definitions |-> Definition(definitions[id].pattern, domains)]

\* Fault: a value that is given twice stays twice.
AsGiven(values) == values

\* The values without the ones met before.
Distinct(values) ==
    LET kept[n \in 0 .. Len(values)] ==
            IF n = 0 THEN <<>>
            ELSE IF \E m \in 1 .. n - 1 : values[m] = values[n] THEN kept[n - 1]
            ELSE Append(kept[n - 1], values[n])
    IN  kept[Len(values)]

AcceptsDomainValues(values) == \A v \in ToSet(values) : IsValidConcreteParameterValue(v)

\* Fault: definitions of strings keep what they had.
RefillNumericOnly(d, domain, values) ==
    LET domains == [n \in FixedDomains |-> IF n = domain THEN Distinct(values) ELSE d.domains[n]]
    IN  Tables(d.numeric, d.string,
               FillFixedParameterValues(d.numericPatterns, domains), d.stringPatterns, domains)

SetFixedParameterDomainValues(d, domain, values) ==
    LET domains == [n \in FixedDomains |-> IF n = domain THEN Distinct(values) ELSE d.domains[n]]
    IN  Tables(d.numeric, d.string,
               FillFixedParameterValues(d.numericPatterns, domains),
               FillFixedParameterValues(d.stringPatterns, domains), domains)
=============================================================================
