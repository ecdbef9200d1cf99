-------------------------------- MODULE Lookup --------------------------------
(***************************************************************************)
(* What a scope finds when it looks a variable up (core/scope/scope.inl,   *)
(* core/variables).                                                        *)
(*                                                                         *)
(* A variable with parameters, as job/@miner/output/@ore, is a sequence of *)
(* a name and arguments.  Each of its modifiers is in a place: a scope,    *)
(* the variable, a key.  With Placeholder for the arguments it is the      *)
(* normalized variable, whose modifiers hold whatever the arguments are.   *)
(* A lookup walks through all scopes in reach, in the order of Visits, and *)
(* adds numbers up or keeps the string of the highest level.  A query has  *)
(* wildcards for arguments and finds all variables that have modifiers and *)
(* match.                                                                  *)
(***************************************************************************)
EXTENDS Traversal, SequencesExt, FiniteSetsExt, Integers

CONSTANTS
    Links,                  \* the parent and tag links of each scope
    NumericNames,           \* names of numeric variables; all others are strings
    Variables,              \* defined by the ruleset, without the normalized ones
    Queries,                \* those with a wildcard; others are plain lookups
    Placeholder, Wildcard,
    Writable,               \* the places that definitions allow (their allowed_scopes)
    Adds, Mults, Levels, Values,
    Minimum, Maximum,
    DefaultValue, EmptyString,
    MaxModifiers,           \* bound: modifiers in all tables
    MaxTurn                 \* bound: turns

Null == 0                   \* the key of no modifier

Normalized(v) == [i \in DOMAIN v |-> IF i = 1 THEN v[1] ELSE Placeholder]
AllVariables == Variables \cup {Normalized(v) : v \in Variables}
IsNumeric(v) == v[1] \in NumericNames

ASSUME GraphAssumption == Links \in [Scopes -> Seq(Scopes)]
ASSUME NamesAssumption ==
    /\ \A v \in Variables : 1 \in DOMAIN v
    /\ \A q \in Queries : /\ 1 \in DOMAIN q /\ q[1] # Wildcard
                          /\ Normalized(q) \in AllVariables
ASSUME KeysAssumption == Writable \subseteq Scopes \X AllVariables \X (Nat \ {Null})
ASSUME AmountsAssumption == Adds \subseteq Int /\ Mults \subseteq Int /\ Levels \subseteq Int
ASSUME LimitsAssumption ==
    /\ Minimum \in Int /\ Maximum \in Int /\ Minimum =< Maximum
    /\ MaxTurn \in Nat

VARIABLES
    modifiers,              \* what is in the places that are not empty
    times,                  \* when a scope's variable was last modified
    turn,
    before                  \* history: modifiers as they were when the turn began

vars == <<modifiers, times, turn, before>>

NumericModifiers == [add : Adds, mult : Mults]
StringModifiers == [value : Values, level : Levels]

LookupTypeOK ==
    /\ \A table \in {modifiers, before} : \A p \in DOMAIN table :
          /\ p \in Writable
          /\ table[p] \in IF IsNumeric(p[2]) THEN NumericModifiers ELSE StringModifiers
    /\ times \in [Scopes \X AllVariables -> 0 .. turn]
    /\ turn \in 0 .. MaxTurn

Init ==
    /\ modifiers = <<>>
    /\ times = [x \in Scopes \X AllVariables |-> 0]
    /\ turn = 0
    /\ before = modifiers

-----------------------------------------------------------------------------
(* Modifying *)

\* The changes of effects carry the turn.  Those of tools carry 0 and are not modelled here.
UpdateModificationTime(p) ==
    times' = [times EXCEPT ![<<p[1], p[2]>>] = IF turn >= @ THEN turn ELSE @]

Put(p, m) ==
    /\ p \in Writable
    /\ modifiers' = [q \in DOMAIN modifiers \cup {p} |-> IF q = p THEN m ELSE modifiers[q]]
    /\ Cardinality(DOMAIN modifiers') =< MaxModifiers
    /\ UpdateModificationTime(p)
    /\ UNCHANGED <<turn, before>>

SetNumericModifier(p, m) == IsNumeric(p[2]) /\ Put(p, m)

ChangeNumericModifier(p, m) ==
    LET old == IF p \in DOMAIN modifiers THEN modifiers[p] ELSE [add |-> 0, mult |-> 0]
        new == [add |-> old.add + m.add, mult |-> old.mult + m.mult]
    IN  /\ IsNumeric(p[2])
        /\ new \in NumericModifiers
        /\ Put(p, new)

SetStringModifier(p, m) == ~IsNumeric(p[2]) /\ Put(p, m)

AdvanceTurn ==
    /\ turn < MaxTurn
    /\ turn' = turn + 1
    /\ before' = modifiers
    /\ UNCHANGED <<modifiers, times>>

Next ==
    \/ \E p \in Writable, m \in NumericModifiers :
          SetNumericModifier(p, m) \/ ChangeNumericModifier(p, m)
    \/ \E p \in Writable, m \in StringModifiers :
          SetStringModifier(p, m)
    \/ AdvanceTurn

Spec == Init /\ [][Next]_vars

-----------------------------------------------------------------------------
(* Looking up; m is a table of modifiers *)

Order == [s \in Scopes |-> Visits(Links, s)]

Places(m, s, v) == {p \in DOMAIN m : p[1] = s /\ p[2] = v}

\* Where a lookup looks for modifiers of v itself, first to last.
Looks(s, v) == [i \in DOMAIN Order[s] |-> <<Order[s][i], v>>]

\* In each scope it looks for those of the normalized variable first.
LooksAll(s, v) ==
    IF v = Normalized(v) THEN Looks(s, v)
    ELSE [i \in 1 .. 2 * Len(Order[s]) |->
             IF i % 2 = 1 THEN <<Order[s][(i + 1) \div 2], Normalized(v)>>
             ELSE <<Order[s][i \div 2], v>>]

\* What it finds there.
Tables(m, looks) ==
    [i \in DOMAIN looks |-> Restrict(m, Places(m, looks[i][1], looks[i][2]))]

NoModifier == [add |-> 0, mult |-> 0]
Plus(a, b) == [add |-> a.add + b.add, mult |-> a.mult + b.mult]

\* The sum of a table, in whatever order it is gone through.
CalculateModifiers(table) ==
    LET sum[P \in SUBSET DOMAIN table] ==
            IF P = {} THEN NoModifier
            ELSE LET p == CHOOSE p \in P : TRUE IN Plus(sum[P \ {p}], table[p])
    IN  sum[DOMAIN table]

AddedUp(tables) ==
    LET added[n \in 0 .. Len(tables)] ==
            IF n = 0 THEN NoModifier ELSE Plus(added[n - 1], CalculateModifiers(tables[n]))
    IN  added[Len(tables)]

\* The value of what has been added up.
Value(a) ==
    LET value == a.add * (IF a.mult >= -1 THEN 1 + a.mult ELSE 0)
    IN  CASE value < Minimum -> Minimum
          [] value > Maximum -> Maximum
          [] OTHER -> value

\* Fault: modifiers of the normalized variable only hold where there are no others.
FillNumericOverridden(m, s, v) ==
    AddedUp(Tables(m, SelectSeq(LooksAll(s, v),
                                LAMBDA l : l[2] = v \/ Places(m, l[1], v) = {})))

FillNumericModifiers(m, s, v) == AddedUp(Tables(m, LooksAll(s, v)))

GetNumericValue(m, s, v) == Value(FillNumericModifiers(m, s, v))

Accumulator(table, p) == [value |-> table[p].value, level |-> table[p].level, key |-> p[3]]
Start(value) == [value |-> value, level |-> 0, key |-> Null]

Higher(x, y) == x.level > y.level \/ (x.level = y.level /\ x.key > y.key)

\* Fault: what comes later wins over its equals.
MergeEquals(table, a) ==
    LET found == {x \in {Accumulator(table, p) : p \in DOMAIN table} : ~Higher(a, x)}
    IN  IF found = {} THEN a ELSE CHOOSE x \in found : \A y \in found \ {x} : Higher(x, y)

\* Keys in one table differ, so the order of the table does not matter.
MergeModifiers(table, a) ==
    LET found == {x \in {Accumulator(table, p) : p \in DOMAIN table} : Higher(x, a)}
    IN  IF found = {} THEN a ELSE CHOOSE x \in found : \A y \in found \ {x} : Higher(x, y)

MergedUp(start, tables) ==
    LET merged[n \in 0 .. Len(tables)] ==
            IF n = 0 THEN start ELSE MergeModifiers(tables[n], merged[n - 1])
    IN  merged[Len(tables)]

FillStringModifiers(m, s, v) == MergedUp(Start(DefaultValue), Tables(m, LooksAll(s, v)))

GetStringValue(m, s, v) == FillStringModifiers(m, s, v).value

-----------------------------------------------------------------------------
(* Wildcards *)

QueryMatchesConcreteId(q, v) ==
    /\ DOMAIN q = DOMAIN v
    /\ v # Normalized(v)
    /\ \A i \in DOMAIN q : q[i] \in {v[i], Wildcard}

MaterializedIds(m, s, q) ==
    {v \in Variables : /\ QueryMatchesConcreteId(q, v)
                       /\ \E t \in Range(Order[s]) : Places(m, t, v) # {}}

Collected(m, s, v) == AddedUp(Tables(m, Looks(s, v)))

GetNumericQuery(m, s, q) ==
    LET default == Collected(m, s, Normalized(q))
    IN  [v \in MaterializedIds(m, s, q) |-> Value(Plus(Collected(m, s, v), default))]

Merged(m, s, v, value) == MergedUp(Start(value), Tables(m, Looks(s, v)))

\* Fault: the normalized variable is left out.
OwnModifiersOnly(m, s, q) ==
    [v \in MaterializedIds(m, s, q) |-> Merged(m, s, v, EmptyString)]

DoGetStringQuery(m, s, q) ==
    LET default == Merged(m, s, Normalized(q), DefaultValue)
    IN  [v \in MaterializedIds(m, s, q) |->
            LET own == Merged(m, s, v, EmptyString)
            IN  IF Higher(default, own) THEN default ELSE own]

GetStringQuery(m, s, q) ==
    LET found == DoGetStringQuery(m, s, q) IN [v \in DOMAIN found |-> found[v].value]

-----------------------------------------------------------------------------
(* Times *)

LastOf(s, v) == Max({0} \cup {times[<<t, v>>] : t \in Range(Order[s])})

\* Fault: the normalized variable is forgotten.
OwnTimeOnly(s, v) == LastOf(s, v)

GetModificationTime(s, v) == Max({LastOf(s, v), LastOf(s, Normalized(v))})

GetQueryTime(s, q) ==
    Max({LastOf(s, Normalized(q))} \cup {LastOf(s, v) : v \in MaterializedIds(modifiers, s, q)})

-----------------------------------------------------------------------------
Reach == [s \in Scopes |-> Reachable(Links, s)]
InReach(s, v) == {p \in DOMAIN modifiers : p[1] \in Reach[s] /\ p[2] \in {v, Normalized(v)}}

\* Whether the walk from s comes to p before it comes to q.
ComesBefore(s, p, q) ==
    \E i, j \in DOMAIN Order[s] :
        /\ Order[s][i] = p[1] /\ Order[s][j] = q[1]
        /\ i < j \/ (i = j /\ p[2] = Normalized(p[2]))

\* A number is the sum of all modifiers in reach, each taken once, whichever way the scopes
\* are linked (FillNumericModifiers).
NumberIsSum ==
    \A s \in Scopes, v \in {w \in AllVariables : IsNumeric(w)} :
        GetNumericValue(modifiers, s, v) =
            Value(CalculateModifiers(Restrict(modifiers, InReach(s, v))))

\* A string has the highest level and then the highest key in reach, and is the first of
\* these in the order of the walk; it is the definition's default only if all modifiers
\* in reach have negative levels (MergeModifiers).
StringIsHighest ==
    \A s \in Scopes, v \in {w \in AllVariables : ~IsNumeric(w)} :
        LET found == InReach(s, v)
            best == {p \in found : /\ modifiers[p].level >= 0
                                   /\ \A q \in found : ~Higher(Accumulator(modifiers, q),
                                                               Accumulator(modifiers, p))}
        IN  \/ best = {} /\ GetStringValue(modifiers, s, v) = DefaultValue
            \/ \E p \in best : /\ GetStringValue(modifiers, s, v) = modifiers[p].value
                               /\ \A q \in best \ {p} : ComesBefore(s, p, q)

\* A query, which keeps what it finds for normalized and other variables apart until the
\* end, gives each variable the value a plain lookup gives it, unless two modifiers of
\* highest level and key leave a choice or all modifiers have negative levels.
QueriesAgree ==
    \A s \in Scopes, q \in Queries :
        IF IsNumeric(q)
        THEN LET found == GetNumericQuery(modifiers, s, q)
             IN  \A v \in DOMAIN found : found[v] = GetNumericValue(modifiers, s, v)
        ELSE LET found == DoGetStringQuery(modifiers, s, q)
             IN  \A v \in DOMAIN found :
                    LET plain == FillStringModifiers(modifiers, s, v)
                        best == {p \in InReach(s, v) :
                                    modifiers[p].level = plain.level /\ p[3] = plain.key}
                    IN  /\ found[v].level = plain.level /\ found[v].key = plain.key
                        /\ Cardinality(best) = 1 => found[v].value = plain.value

ValueSeen(m, s, v) == IF IsNumeric(v) THEN GetNumericValue(m, s, v) ELSE GetStringValue(m, s, v)
QuerySeen(m, s, q) == IF IsNumeric(q) THEN GetNumericQuery(m, s, q) ELSE GetStringQuery(m, s, q)

\* Whoever sees another value than at the beginning of the turn, through whatever links,
\* wildcards or normalized variables, sees this turn as the time of modification
\* (GetModificationTime).
ChangesAreSeen ==
    \A s \in Scopes :
        /\ \A v \in AllVariables :
              \/ GetModificationTime(s, v) = turn
              \/ ValueSeen(modifiers, s, v) = ValueSeen(before, s, v)
        /\ \A q \in Queries :
              \/ GetQueryTime(s, q) = turn
              \/ QuerySeen(modifiers, s, q) = QuerySeen(before, s, q)

=============================================================================
