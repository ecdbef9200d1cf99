------------------------------ MODULE Variables ------------------------------
(***************************************************************************)
(* The definitions of variables of a ruleset over time: added in any       *)
(* order, plainly or by a pattern, while the built-in domains are given    *)
(* their values.                                                           *)
(***************************************************************************)
EXTENDS VariableTables

CONSTANTS
    Ids,                \* ids that are looked up and asked for
    PlainIds,           \* those that are defined as they are
    Patterns,           \* patterns that are defined
    Values              \* sequences of values a domain is given

ASSUME PlainIdsAssumption == PlainIds \subseteq Ids
ASSUME SegmentsAssumption ==
    Ids \subseteq Seq(Segments) /\ Patterns \subseteq Seq(Segments) /\ Values \subseteq Seq(STRING)

VARIABLE definitions

\* Every entry of a table stands at the normalized id of its own pattern.
Table(table) ==
    \A id \in DOMAIN table :
        /\ table[id].pattern \in Patterns
        /\ ParseParameterizedDefinition(table[id].pattern)
        /\ id = DefinitionId(table[id].pattern)

VariablesTypeOK ==
    /\ definitions.numeric \subseteq PlainIds /\ definitions.string \subseteq PlainIds
    /\ Table(definitions.numericPatterns) /\ Table(definitions.stringPatterns)
    /\ DOMAIN definitions.domains = FixedDomains

Init == definitions = EmptyTables

AddNumeric(id) ==
    /\ AcceptsNumeric(definitions, id)
    /\ definitions' = AddNumericDefinition(definitions, id)

AddString(id) ==
    /\ AcceptsString(definitions, id)
    /\ definitions' = AddStringDefinition(definitions, id)

AddParameterizedNumeric(pattern) ==
    /\ AcceptsParameterizedNumeric(definitions, pattern)
    /\ definitions' = AddParameterizedNumericDefinition(definitions, pattern)

AddParameterizedString(pattern) ==
    /\ AcceptsParameterizedString(definitions, pattern)
    /\ definitions' = AddParameterizedStringDefinition(definitions, pattern)

SetDomain(domain, values) ==
    /\ AcceptsDomainValues(values)
    /\ definitions' = SetFixedParameterDomainValues(definitions, domain, values)

Clear == definitions' = ClearDefinitions(definitions)

Next ==
    \/ \E id \in PlainIds : AddNumeric(id) \/ AddString(id)
    \/ \E pattern \in Patterns : AddParameterizedNumeric(pattern) \/ AddParameterizedString(pattern)
    \/ \E domain \in FixedDomains, values \in Values : SetDomain(domain, values)
    \/ Clear

Spec == Init /\ [][Next]_definitions

-----------------------------------------------------------------------------
(* Properties.                                                             *)

Numbers(d) == d.numeric \cup DOMAIN d.numericPatterns
Strings(d) == d.string \cup DOMAIN d.stringPatterns

\* No id is defined as a number and as a string, whatever was defined first and
\* whether plainly or by a pattern (AddNumericDefinition, AddStringDefinition,
\* AddParameterizedDefinition each look at some of the tables only).
OneTypePerId ==
    Numbers(definitions) \cap Strings(definitions) = {}

\* Every entry is what its pattern gives with the values the domains have.
Current(table, domains) ==
    \A id \in DOMAIN table : table[id] = Definition(table[id].pattern, domains)

\* Every parameter of every definition has the values its domain was given last, in
\* whatever order definitions were added and domains set, and none while its domain
\* has none: no definition is left with a list that was replaced.
FixedValuesCurrent ==
    /\ Current(definitions.numericPatterns, definitions.domains)
    /\ Current(definitions.stringPatterns, definitions.domains)

\* The finders agree: what one of them finds, it finds under the id that was asked
\* for, the other one calls a variable of the wrong type and not an unknown one, the
\* type of the query names the finder, and FindVariable has the same answer.
FindersAgree ==
    \A id \in Ids :
        LET n == FindNumericVariable(definitions, id)
            s == FindStringVariable(definitions, id)
        IN  /\ n.outcome = "found" => n = Found(id) /\ s = WrongType
            /\ s.outcome = "found" => s = Found(id) /\ n = WrongType
            /\ GetQueryType(definitions, id) = "numeric" =>
                   FindVariable(definitions, id) = n /\ n # WrongType
            /\ GetQueryType(definitions, id) = "string" =>
                   FindVariable(definitions, id) = s /\ s # WrongType

\* A query that is expanded lists the variables it stands for: the ids that match it
\* and that can be found, each of them once.
QueriesExpand ==
    \A query \in Ids :
        LET answer == FindParameterizedVariables(query, definitions.numericPatterns)
            listed == ToSet(answer.ids)
        IN  answer.error = "none" =>
                /\ Cardinality(listed) = Len(answer.ids)
                /\ \A id \in listed \cup Ids :
                      id \in listed <=>
                          /\ QueryMatchesConcreteId(query, id)
                          /\ FindNumericVariable(definitions, id) = Found(id)

\* The table of variables that is written out lists of every definition without open
\* parameters the variables that can be found, each of them once.
DumpIsWhatIsFound ==
    \A id \in DOMAIN definitions.stringPatterns :
        LET definition == definitions.stringPatterns[id]
            rows == Dumped(definition)
        IN  Open \notin ToSet(Parameters(definition.pattern)) =>
                /\ Cardinality(ToSet(rows)) = Len(rows)
                /\ \A other \in Ids \cup ToSet(rows) :
                      other \in ToSet(rows) <=>
                          /\ IsParameterized(other)
                          /\ NormalizedId(other) = id
                          /\ FindStringVariable(definitions, other) = Found(other)

=============================================================================
