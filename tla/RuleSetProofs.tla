---------------------------- MODULE RuleSetProofs ----------------------------
(***************************************************************************)
(* Rulesets, for every set of ids, of patterns, of domains and of values,  *)
(* for every sequence of directories, whatever their files hold, and for   *)
(* every source of an effect.                                              *)
(*                                                                         *)
(* First the definitions of variables by themselves (Variables), then what *)
(* a ruleset loads and restores (RuleSetLoad): lists, files and tables,    *)
(* indices, definitions, effects, and the scanner of their code.           *)
(***************************************************************************)
EXTENDS Variables, RuleSetLoad, Recursion

\* A definition keeps its pattern.
LEMMA PatternKept ==
    ASSUME NEW pattern, NEW registered
    PROVE  Definition(pattern, registered).pattern = pattern
BY DEF Definition

\* Adding an entry to a table (AddParameterizedDefinition) adds its id and keeps the
\* others; the table stays current.
LEMMA WithCurrent ==
    ASSUME NEW given, NEW pattern, NEW domains, Current(given, domains)
    PROVE  /\ DOMAIN With(given, pattern, domains) =
                  DOMAIN given \cup {DefinitionId(pattern)}
           /\ Current(With(given, pattern, domains), domains)
<1> DEFINE table == With(given, pattern, domains)
<1>1. DOMAIN table = DOMAIN given \cup {DefinitionId(pattern)}
  BY DEF With
<1>2. ASSUME NEW id \in DOMAIN table
      PROVE  table[id] = Definition(table[id].pattern, domains)
  <2>1. CASE id = DefinitionId(pattern)
    <3>1. table[id] = Definition(pattern, domains)
      BY <1>1, <2>1 DEF With
    <3> QED BY <3>1, PatternKept
  <2>2. CASE id # DefinitionId(pattern)
    <3>1. id \in DOMAIN given /\ table[id] = given[id]
      BY <1>1, <1>2, <2>2 DEF With
    <3> QED BY <3>1 DEF Current
  <2> QED BY <2>1, <2>2
<1> QED BY <1>1, <1>2 DEF Current

\* Filling a table in (FillFixedParameterValues) keeps its ids and makes it current,
\* whatever it was before.
LEMMA FillCurrent ==
    ASSUME NEW given, NEW registered
    PROVE  /\ DOMAIN FillFixedParameterValues(given, registered) = DOMAIN given
           /\ Current(FillFixedParameterValues(given, registered), registered)
<1> DEFINE table == FillFixedParameterValues(given, registered)
<1>1. DOMAIN table = DOMAIN given
  BY DEF FillFixedParameterValues
<1>2. ASSUME NEW id \in DOMAIN table
      PROVE  table[id] = Definition(table[id].pattern, registered)
  <2>1. table[id] = Definition(given[id].pattern, registered)
    BY <1>1 DEF FillFixedParameterValues
  <2> QED BY <2>1, PatternKept
<1> QED BY <1>1, <1>2 DEF Current

\* A table without definitions defines nothing.
LEMMA EmptyTable == DOMAIN NoDefinitions = {}
BY DEF NoDefinitions

\* Tables of definitions have their five maps and nothing else.
IsTables(d) == d = Tables(d.numeric, d.string, d.numericPatterns, d.stringPatterns, d.domains)

\* What Clear leaves is what there is in the beginning: it misses none of the maps.
LEMMA ClearIs ==
    ASSUME NEW d, IsTables(d)
    PROVE  ClearDefinitions(d) = EmptyTables
<1> DEFINE nothing == NoDefinitions
           domains == [n \in FixedDomains |-> Unset]
           e == ClearDefinitions(d)
<1>1. /\ EmptyTables = Tables({}, {}, nothing, nothing, domains)
      /\ e = [d EXCEPT !.numeric = {}, !.string = {}, !.numericPatterns = nothing,
                       !.stringPatterns = nothing, !.domains = domains]
  BY DEF EmptyTables, ClearDefinitions
<1> HIDE DEF nothing, domains, e
<1>2. PICK a, b, c, f, g : d = Tables(a, b, c, f, g)
  BY DEF IsTables
<1>3. e = Tables({}, {}, nothing, nothing, domains)
  BY <1>1, <1>2 DEF Tables
<1> QED BY <1>1, <1>3 DEF e

\* The definitions always are such tables.
LEMMA TablesAlways == Spec => []IsTables(definitions)
<1>1. Init => IsTables(definitions)
  BY DEF Init, EmptyTables, IsTables, Tables
<1>2. IsTables(definitions) /\ [Next]_definitions => IsTables(definitions)'
  <2> SUFFICES ASSUME IsTables(definitions), [Next]_definitions PROVE IsTables(definitions)'
    OBVIOUS
  <2>1. ASSUME NEW id \in PlainIds, AddNumeric(id) \/ AddString(id)
        PROVE  IsTables(definitions)'
    BY <2>1 DEF AddNumeric, AddNumericDefinition, AddString, AddStringDefinition,
                IsTables, Tables
  <2>2. ASSUME NEW pattern \in Patterns,
               AddParameterizedNumeric(pattern) \/ AddParameterizedString(pattern)
        PROVE  IsTables(definitions)'
    BY <2>2 DEF AddParameterizedNumeric, AddParameterizedNumericDefinition,
                AddParameterizedString, AddParameterizedStringDefinition, IsTables, Tables
  <2>3. ASSUME NEW domain \in FixedDomains, NEW values \in Values, SetDomain(domain, values)
        PROVE  IsTables(definitions)'
    BY <2>3 DEF SetDomain, SetFixedParameterDomainValues, IsTables, Tables
  <2>4. CASE Clear
    <3>1. definitions' = EmptyTables
      BY <2>4, ClearIs DEF Clear
    <3> QED BY <3>1 DEF EmptyTables, IsTables, Tables
  <2>5. CASE UNCHANGED definitions
    BY <2>5 DEF IsTables
  <2> QED BY <2>1, <2>2, <2>3, <2>4, <2>5 DEF Next
<1> QED BY <1>1, <1>2, PTL DEF Spec

-----------------------------------------------------------------------------

\* No id is a number and a string: GetVariableType looks at all four tables before a
\* plain definition is added, and at those of plain definitions and of the other type
\* before a parameterized one is.
THEOREM OneTypeAlways == Spec => []OneTypePerId
<1>1. Init => OneTypePerId
  BY EmptyTable DEF Init, EmptyTables, Tables, OneTypePerId, Numbers, Strings
<1>2. OneTypePerId /\ IsTables(definitions) /\ [Next]_definitions => OneTypePerId'
  <2> SUFFICES ASSUME OneTypePerId, IsTables(definitions), [Next]_definitions PROVE OneTypePerId'
    OBVIOUS
  <2> USE DEF Numbers, Strings, Tables
  <2>1. ASSUME NEW id \in PlainIds, AddNumeric(id) PROVE OneTypePerId'
    <3>1. id \notin Strings(definitions)
      BY <2>1 DEF OneTypePerId, AddNumeric, AcceptsNumeric, GetVariableType
    <3> QED BY <2>1, <3>1 DEF OneTypePerId, AddNumeric, AddNumericDefinition
  <2>2. ASSUME NEW id \in PlainIds, AddString(id) PROVE OneTypePerId'
    <3>1. id \notin Numbers(definitions)
      BY <2>2 DEF OneTypePerId, AddString, AcceptsString, GetVariableType
    <3> QED BY <2>2, <3>1 DEF OneTypePerId, AddString, AddStringDefinition
  <2>3. ASSUME NEW pattern \in Patterns, AddParameterizedNumeric(pattern)
        PROVE  OneTypePerId'
    <3>1. DefinitionId(pattern) \notin Strings(definitions)
      BY <2>3 DEF OneTypePerId, AddParameterizedNumeric, AcceptsParameterizedNumeric,
                  GetVariableType
    <3>2. DOMAIN definitions'.numericPatterns =
              DOMAIN definitions.numericPatterns \cup {DefinitionId(pattern)}
      BY <2>3 DEF AddParameterizedNumeric, AddParameterizedNumericDefinition, With
    <3> QED BY <2>3, <3>1, <3>2
            DEF OneTypePerId, AddParameterizedNumeric, AddParameterizedNumericDefinition
  <2>4. ASSUME NEW pattern \in Patterns, AddParameterizedString(pattern)
        PROVE  OneTypePerId'
    <3>1. DefinitionId(pattern) \notin Numbers(definitions)
      BY <2>4 DEF OneTypePerId, AddParameterizedString, AcceptsParameterizedString,
                  GetVariableType
    <3>2. DOMAIN definitions'.stringPatterns =
              DOMAIN definitions.stringPatterns \cup {DefinitionId(pattern)}
      BY <2>4 DEF AddParameterizedString, AddParameterizedStringDefinition, With
    <3> QED BY <2>4, <3>1, <3>2
            DEF OneTypePerId, AddParameterizedString, AddParameterizedStringDefinition
  <2>5. ASSUME NEW domain \in FixedDomains, NEW values \in Values, SetDomain(domain, values)
        PROVE  OneTypePerId'
    BY <2>5, FillCurrent DEF OneTypePerId, SetDomain, SetFixedParameterDomainValues
  <2>6. CASE Clear
    BY <2>6, EmptyTable, ClearIs DEF Clear, EmptyTables, OneTypePerId
  <2>7. CASE UNCHANGED definitions
    BY <2>7 DEF OneTypePerId
  <2> QED BY <2>1, <2>2, <2>3, <2>4, <2>5, <2>6, <2>7 DEF Next
<1> QED BY <1>1, <1>2, TablesAlways, PTL DEF Spec

\* Every parameter of every definition always has the values its domain was given last
\* (FillFixedParameterValues, SetFixedParameterDomainValues).
THEOREM FixedValuesAlwaysCurrent == Spec => []FixedValuesCurrent
<1>1. Init => FixedValuesCurrent
  BY EmptyTable DEF Init, EmptyTables, Tables, FixedValuesCurrent, Current
<1>2. FixedValuesCurrent /\ IsTables(definitions) /\ [Next]_definitions => FixedValuesCurrent'
  <2> SUFFICES ASSUME FixedValuesCurrent, IsTables(definitions), [Next]_definitions PROVE FixedValuesCurrent'
    OBVIOUS
  <2> USE DEF FixedValuesCurrent, Tables
  <2>1. ASSUME NEW id \in PlainIds, AddNumeric(id) \/ AddString(id)
        PROVE  FixedValuesCurrent'
    BY <2>1 DEF AddNumeric, AddNumericDefinition, AddString, AddStringDefinition
  <2>2. ASSUME NEW pattern \in Patterns, AddParameterizedNumeric(pattern)
        PROVE  FixedValuesCurrent'
    BY <2>2, WithCurrent DEF AddParameterizedNumeric, AddParameterizedNumericDefinition
  <2>3. ASSUME NEW pattern \in Patterns, AddParameterizedString(pattern)
        PROVE  FixedValuesCurrent'
    BY <2>3, WithCurrent DEF AddParameterizedString, AddParameterizedStringDefinition
  <2>4. ASSUME NEW domain \in FixedDomains, NEW values \in Values, SetDomain(domain, values)
        PROVE  FixedValuesCurrent'
    BY <2>4, FillCurrent DEF SetDomain, SetFixedParameterDomainValues
  <2>5. CASE Clear
    BY <2>5, EmptyTable, ClearIs DEF Clear, EmptyTables, Current
  <2>6. CASE UNCHANGED definitions
    BY <2>6
  <2> QED BY <2>1, <2>2, <2>3, <2>4, <2>5, <2>6 DEF Next
<1> QED BY <1>1, <1>2, TablesAlways, PTL DEF Spec

-----------------------------------------------------------------------------
(* The segments of a kind.                                                 *)

\* Which segments have been taken, step by step: of whatever segments there are.
LEMMA TakenFrom ==
  ASSUME NEW S, NEW id \in Seq(S), NEW kind
  PROVE  LET T == Taken(id, kind)
         IN  /\ T[0] = <<>>
             /\ \A n \in 1 .. Len(id) :
                   T[n] = IF id[n].kind = kind THEN Append(T[n - 1], id[n]) ELSE T[n - 1]
             /\ \A n \in 0 .. Len(id) : T[n] \in Seq(S)
<1> DEFINE L == Len(id)
           Solves(g) == g = [n \in 0 .. L |->
               IF n = 0 THEN <<>>
               ELSE IF id[n].kind = kind THEN Append(g[n - 1], id[n]) ELSE g[n - 1]]
           taken == CHOOSE g : Solves(g)
           step == [x \in (1 .. L) \X Seq(S) |->
               IF id[x[1]].kind = kind THEN Append(x[2], id[x[1]]) ELSE x[2]]
<1>1. L \in Nat /\ \A n \in 1 .. L : id[n] \in S
  OBVIOUS
<1>2. Taken(id, kind) = taken
  BY DEF Taken
<1>3. \A n \in 1 .. L, t \in Seq(S) :
          step[<<n, t>>] = IF id[n].kind = kind THEN Append(t, id[n]) ELSE t
  OBVIOUS
<1> HIDE DEF L, step
<1>4. Stays(Seq(S), <<>>, L, step)
  <2>1. \A n \in 1 .. L, t \in Seq(S) : step[<<n, t>>] \in Seq(S)
    <3> SUFFICES ASSUME NEW n \in 1 .. L, NEW t \in Seq(S)
                 PROVE  step[<<n, t>>] \in Seq(S)
      OBVIOUS
    <3>1. id[n] \in S
      BY <1>1
    <3>2. Append(t, id[n]) \in Seq(S)
      BY <3>1
    <3> QED BY <1>3, <3>2
  <2>2. <<>> \in Seq(S)
    OBVIOUS
  <2> QED BY <1>1, <2>1, <2>2 DEF Stays
<1>5. PICK f : Computes(f, Seq(S), <<>>, L, step)
  BY <1>4, RecursionExists
<1>6. f \in [0 .. L -> Seq(S)] /\ f[0] = <<>>
  BY <1>5 DEF Computes
<1>7. \A n \in 1 .. L : n \in 0 .. L /\ n - 1 \in 0 .. L /\ n # 0
  BY <1>1
<1>8. \A n \in 1 .. L : f[n] = IF id[n].kind = kind THEN Append(f[n - 1], id[n]) ELSE f[n - 1]
  BY <1>3, <1>5, <1>6, <1>7 DEF Computes
<1>9. Solves(f)
  <2>1. \A n \in 0 .. L : n = 0 \/ n \in 1 .. L
    BY <1>1
  <2> QED BY <1>6, <1>8, <2>1
<1>10. Solves(taken)
  <2> HIDE DEF Solves
  <2> QED BY <1>9
<1> HIDE DEF taken
<1>11. /\ taken[0] = <<>>
       /\ \A n \in 1 .. L : taken[n] = IF id[n].kind = kind THEN Append(taken[n - 1], id[n])
                                       ELSE taken[n - 1]
  <2>1. 0 \in 0 .. L
    BY <1>1
  <2> QED BY <1>7, <1>10, <2>1
<1> HIDE DEF Solves
<1> DEFINE G == {n \in 0 .. L : taken[n] \in Seq(S)}
<1>12. 0 \in G
  <2>1. 0 \in 0 .. L /\ <<>> \in Seq(S)
    BY <1>1
  <2> QED BY <1>11, <2>1
<1>13. ASSUME NEW n \in 1 .. L, n - 1 \in G PROVE n \in G
  <2>1. taken[n - 1] \in Seq(S) /\ id[n] \in S
    BY <1>1, <1>13
  <2>2. Append(taken[n - 1], id[n]) \in Seq(S)
    BY <2>1
  <2> QED BY <1>7, <1>11, <2>1, <2>2
<1> HIDE DEF G
<1>14. 0 .. L \subseteq G
  BY <1>1, <1>12, <1>13, BoundedInduction
<1> QED BY <1>2, <1>11, <1>14 DEF G, L

\* And of the segments that text is split into.
LEMMA TakenEquation ==
  ASSUME NEW id \in Seq(Segments), NEW kind
  PROVE  LET T == Taken(id, kind)
         IN  /\ T[0] = <<>>
             /\ \A n \in 1 .. Len(id) :
                   T[n] = IF id[n].kind = kind THEN Append(T[n - 1], id[n]) ELSE T[n - 1]
             /\ \A n \in 0 .. Len(id) : T[n] \in Seq(Segments)
BY TakenFrom

\* What is taken of the first segments stays where it is.
LEMMA TakenGrows ==
  ASSUME NEW id \in Seq(Segments), NEW kind, NEW n \in 0 .. Len(id), NEW m \in n .. Len(id)
  PROVE  LET T == Taken(id, kind)
         IN  /\ Len(T[n]) \in Nat /\ Len(T[m]) \in Nat /\ Len(T[n]) <= Len(T[m])
             /\ \A k \in 1 .. Len(T[n]) : T[m][k] = T[n][k]
<1> DEFINE T == Taken(id, kind)
           L == Len(id)
           Grown(i) == Len(T[n]) <= Len(T[i]) /\ \A k \in 1 .. Len(T[n]) : T[i][k] = T[n][k]
           G == {i \in 0 .. L : i >= n => Grown(i)}
<1>1. L \in Nat /\ \A i \in 0 .. L : T[i] \in Seq(Segments) /\ Len(T[i]) \in Nat
  BY TakenEquation
<1>2. \A i \in 1 .. L : T[i] = IF id[i].kind = kind THEN Append(T[i - 1], id[i]) ELSE T[i - 1]
  BY TakenEquation
<1> HIDE DEF T, L
<1>3. 0 \in G
  <2>1. 0 >= n => n = 0
    BY <1>1 DEF L
  <2> QED BY <1>1, <2>1
<1>4. ASSUME NEW i \in 1 .. L, i - 1 \in G PROVE i \in G
  <2> SUFFICES ASSUME i >= n PROVE Grown(i)
    BY <1>1
  <2>1. CASE i = n
    BY <1>1, <2>1
  <2>2. CASE i # n
    <3>1. i - 1 >= n /\ Grown(i - 1) /\ i - 1 \in 0 .. L /\ n \in Nat
      BY <1>1, <1>4, <2>2
    <3>2. T[i - 1] \in Seq(Segments) /\ T[n] \in Seq(Segments)
      BY <1>1, <3>1 DEF L
    <3>3. CASE id[i].kind = kind
      <4>1. T[i] = Append(T[i - 1], id[i]) /\ id[i] \in Segments
        <5>1. id[i] \in Segments
          BY DEF L
        <5> QED BY <1>2, <3>3, <5>1
      <4>2. /\ Len(T[i]) = Len(T[i - 1]) + 1
            /\ \A k \in 1 .. Len(T[i - 1]) : T[i][k] = T[i - 1][k]
        BY <3>2, <4>1
      <4> QED BY <3>1, <3>2, <4>2
    <3>4. CASE id[i].kind # kind
      BY <1>2, <3>1, <3>4
    <3> QED BY <3>3, <3>4
  <2> QED BY <2>1, <2>2
<1> HIDE DEF G
<1>5. 0 .. L \subseteq G
  BY <1>1, <1>3, <1>4, BoundedInduction
<1>6. m \in G /\ m >= n
  BY <1>1, <1>5 DEF L
<1>7. Grown(m)
  BY <1>6 DEF G
<1>8. Len(T[n]) \in Nat /\ Len(T[m]) \in Nat
  BY <1>1 DEF L
<1> QED BY <1>7, <1>8 DEF T

\* Each segment of the kind has its place, and each place has its segment.
LEMMA TakenAt ==
  ASSUME NEW id \in Seq(Segments), NEW kind
  PROVE  LET T == Taken(id, kind)
             all == OfKind(id, kind)
         IN  /\ all \in Seq(Segments) /\ Len(all) \in Nat
             /\ \A n \in 1 .. Len(id) : id[n].kind = kind =>
                   /\ Len(T[n]) \in 1 .. Len(all) /\ Len(T[n]) = Len(T[n - 1]) + 1
                   /\ all[Len(T[n])] = id[n]
             /\ \A k \in 1 .. Len(all) : \E n \in 1 .. Len(id) :
                   id[n].kind = kind /\ Len(T[n]) = k
<1> DEFINE T == Taken(id, kind)
           L == Len(id)
           all == OfKind(id, kind)
<1>1. L \in Nat /\ \A i \in 0 .. L : T[i] \in Seq(Segments) /\ Len(T[i]) \in Nat
  BY TakenEquation
<1>2. /\ T[0] = <<>>
      /\ \A i \in 1 .. L : T[i] = IF id[i].kind = kind THEN Append(T[i - 1], id[i]) ELSE T[i - 1]
  BY TakenEquation
<1>3. all = T[L] /\ L \in 0 .. L
  BY <1>1 DEF OfKind
<1>4. \A n \in 1 .. L : n \in 0 .. L /\ n - 1 \in 0 .. L /\ L \in n .. L /\ id[n] \in Segments
  BY <1>1
<1>5. \A n \in 1 .. L : /\ Len(T[n]) <= Len(T[L])
                        /\ \A k \in 1 .. Len(T[n]) : T[L][k] = T[n][k]
  <2> SUFFICES ASSUME NEW n \in 1 .. L
               PROVE  /\ Len(T[n]) <= Len(T[L])
                      /\ \A k \in 1 .. Len(T[n]) : T[L][k] = T[n][k]
    OBVIOUS
  <2>1. n \in 0 .. Len(id) /\ L \in n .. Len(id)
    BY <1>4
  <2> QED BY <2>1, TakenGrows
<1> HIDE DEF T, all, L
<1>6. ASSUME NEW n \in 1 .. L, id[n].kind = kind
      PROVE  /\ Len(T[n]) \in 1 .. Len(all) /\ Len(T[n]) = Len(T[n - 1]) + 1
             /\ all[Len(T[n])] = id[n]
  <2>1. T[n] = Append(T[n - 1], id[n]) /\ T[n - 1] \in Seq(Segments) /\ Len(T[n - 1]) \in Nat
    BY <1>1, <1>2, <1>4, <1>6
  <2>2. Len(T[n]) = Len(T[n - 1]) + 1 /\ T[n][Len(T[n])] = id[n]
    BY <1>4, <2>1
  <2>3. Len(T[n]) \in 1 .. Len(T[n]) /\ Len(T[n]) <= Len(T[L]) /\ Len(T[L]) \in Nat
    BY <1>1, <1>3, <1>5, <2>1, <2>2
  <2>4. T[L][Len(T[n])] = T[n][Len(T[n])]
    BY <1>5, <2>3
  <2>5. Len(T[n]) \in 1 .. Len(T[L])
    BY <2>3
  <2> QED BY <1>3, <2>2, <2>4, <2>5
<1> DEFINE Placed(i) ==
              \A k \in 1 .. Len(T[i]) : \E n \in 1 .. L : id[n].kind = kind /\ Len(T[n]) = k
           G == {i \in 0 .. L : Placed(i)}
<1>7. 0 \in G
  <2>1. Len(T[0]) = 0
    BY <1>2
  <2> QED BY <1>1, <2>1
<1>8. ASSUME NEW i \in 1 .. L, i - 1 \in G PROVE i \in G
  <2>1. CASE id[i].kind = kind
    <3>1. Len(T[i]) = Len(T[i - 1]) + 1 /\ Len(T[i - 1]) \in Nat
      BY <1>1, <1>4, <1>6, <2>1
    <3>2. \A k \in 1 .. Len(T[i]) : k \in 1 .. Len(T[i - 1]) \/ k = Len(T[i])
      BY <3>1
    <3> QED BY <1>4, <1>8, <2>1, <3>2
  <2>2. CASE id[i].kind # kind
    BY <1>2, <1>4, <1>8, <2>2
  <2> QED BY <2>1, <2>2
<1> HIDE DEF G
<1>9. 0 .. L \subseteq G
  BY <1>1, <1>7, <1>8, BoundedInduction
<1>10. Placed(L)
  BY <1>3, <1>9 DEF G
<1>11. all \in Seq(Segments) /\ Len(all) \in Nat
  BY <1>1, <1>3
<1> QED BY <1>3, <1>6, <1>10, <1>11 DEF T, all, L

-----------------------------------------------------------------------------
(* Ids and the patterns they are instances of.                             *)

\* The names of the segments of a kind stand in the order of the segments.
LEMMA NamesAreAligned ==
  ASSUME NEW id \in Seq(Segments), NEW kind
  PROVE  LET names == Names(OfKind(id, kind))
             T == Taken(id, kind)
         IN  /\ names \in Seq(STRING) /\ Len(names) = Len(OfKind(id, kind))
             /\ DOMAIN names = 1 .. Len(names) /\ Len(names) = Len(T[Len(id)])
             /\ \A n \in 1 .. Len(id) : id[n].kind = kind =>
                   Len(T[n]) \in 1 .. Len(names) /\ names[Len(T[n])] = id[n].of
             /\ \A k \in 1 .. Len(names) : \E n \in 1 .. Len(id) :
                   id[n].kind = kind /\ Len(T[n]) = k /\ names[k] = id[n].of
<1> DEFINE all == OfKind(id, kind)
           names == Names(all)
           T == Taken(id, kind)
<1>1. /\ all \in Seq(Segments) /\ Len(all) \in Nat
      /\ \A n \in 1 .. Len(id) : id[n].kind = kind =>
            Len(T[n]) \in 1 .. Len(all) /\ all[Len(T[n])] = id[n]
      /\ \A k \in 1 .. Len(all) : \E n \in 1 .. Len(id) : id[n].kind = kind /\ Len(T[n]) = k
  BY TakenAt
<1>2. all = T[Len(id)]
  BY DEF OfKind
<1> HIDE DEF all, T
<1>3. names = [k \in 1 .. Len(all) |-> all[k].of] /\ \A k \in 1 .. Len(all) : all[k].of \in STRING
  <2>1. DOMAIN all = 1 .. Len(all) /\ \A k \in 1 .. Len(all) : all[k] \in Segments
    BY <1>1
  <2> QED BY <2>1 DEF Names, Segments
<1> HIDE DEF names
<1>4. names \in Seq(STRING) /\ Len(names) = Len(all) /\ DOMAIN names = 1 .. Len(names)
  <2>1. names \in [1 .. Len(all) -> STRING]
    BY <1>3
  <2>2. names \in Seq(STRING)
    BY <1>1, <2>1, SeqDef
  <2> QED BY <1>1, <2>1, <2>2, LenProperties
<1>5. \A n \in 1 .. Len(id) : id[n].kind = kind =>
          Len(T[n]) \in 1 .. Len(names) /\ names[Len(T[n])] = id[n].of
  BY <1>1, <1>3, <1>4
<1>6. \A k \in 1 .. Len(names) : \E n \in 1 .. Len(id) :
          id[n].kind = kind /\ Len(T[n]) = k /\ names[k] = id[n].of
  <2> SUFFICES ASSUME NEW k \in 1 .. Len(names)
               PROVE  \E n \in 1 .. Len(id) :
                         id[n].kind = kind /\ Len(T[n]) = k /\ names[k] = id[n].of
    OBVIOUS
  <2>1. PICK n \in 1 .. Len(id) : id[n].kind = kind /\ Len(T[n]) = k
    BY <1>1, <1>4
  <2>2. names[k] = id[n].of
    BY <1>5, <2>1
  <2> QED BY <2>1, <2>2
<1> QED BY <1>2, <1>4, <1>5, <1>6 DEF names, T, all

\* The segments of one kind are, or stand with, those of another kind in another id.
Within(id, k1, pattern, k2) == \A n \in 1 .. Len(id) : id[n].kind = k1 => pattern[n].kind = k2
Aligned(id, k1, pattern, k2) == \A n \in 1 .. Len(id) : id[n].kind = k1 <=> pattern[n].kind = k2
AsMany(id, k1, pattern, k2) ==
  \A n \in 0 .. Len(id) : Len(Taken(id, k1)[n]) = Len(Taken(pattern, k2)[n])

\* If each segment of one kind in one id stands where one of another kind stands in the other,
\* and both ids have as many of them, they stand at the same places.
LEMMA SameCounts ==
  ASSUME NEW id \in Seq(Segments), NEW pattern \in Seq(Segments), NEW k1, NEW k2,
         Len(id) = Len(pattern), Within(id, k1, pattern, k2),
         Len(Taken(id, k1)[Len(id)]) = Len(Taken(pattern, k2)[Len(id)])
  PROVE  Aligned(id, k1, pattern, k2) /\ AsMany(id, k1, pattern, k2)
<1> DEFINE L == Len(id)
           A(n) == Len(Taken(id, k1)[n])
           P(n) == Len(Taken(pattern, k2)[n])
<1>1. L \in Nat /\ A(L) = P(L)
  OBVIOUS
<1>2. \A n \in 0 .. L : A(n) \in Nat /\ P(n) \in Nat
  <2>1. \A n \in 0 .. L :
           Taken(id, k1)[n] \in Seq(Segments) /\ Taken(pattern, k2)[n] \in Seq(Segments)
    BY TakenEquation
  <2> QED BY <2>1
<1>3. A(0) = 0 /\ P(0) = 0
  BY TakenEquation
<1>4. ASSUME NEW n \in 1 .. L
      PROVE  /\ A(n) = IF id[n].kind = k1 THEN A(n - 1) + 1 ELSE A(n - 1)
             /\ P(n) = IF pattern[n].kind = k2 THEN P(n - 1) + 1 ELSE P(n - 1)
             /\ n - 1 \in 0 .. L /\ n \in 0 .. L
  <2>1. /\ Taken(id, k1)[n] = IF id[n].kind = k1 THEN Append(Taken(id, k1)[n - 1], id[n])
                              ELSE Taken(id, k1)[n - 1]
        /\ Taken(pattern, k2)[n] =
               IF pattern[n].kind = k2 THEN Append(Taken(pattern, k2)[n - 1], pattern[n])
               ELSE Taken(pattern, k2)[n - 1]
    BY TakenEquation
  <2>2. id[n].kind = k1 => A(n) = A(n - 1) + 1
    BY TakenAt
  <2>3. pattern[n].kind = k2 => P(n) = P(n - 1) + 1
    BY TakenAt
  <2>4. n - 1 \in 0 .. L /\ n \in 0 .. L
    BY <1>1
  <2> QED BY <2>1, <2>2, <2>3, <2>4
<1> HIDE DEF A, P, L
<1>5. \A n \in 1 .. L : id[n].kind = k1 => pattern[n].kind = k2
  BY DEF L, Within
<1> DEFINE Below(n) == \A i \in 0 .. n : P(n) - A(n) >= P(i) - A(i)
           G == {n \in 0 .. L : Below(n)}
<1>6. 0 \in G
  <2>1. \A i \in 0 .. 0 : i = 0
    OBVIOUS
  <2> QED BY <1>1, <1>3, <2>1
<1>7. ASSUME NEW n \in 1 .. L, n - 1 \in G PROVE n \in G
  <2>0. A(n) \in Nat /\ P(n) \in Nat /\ A(n - 1) \in Nat /\ P(n - 1) \in Nat
    BY <1>2, <1>4
  <2>1. P(n) - A(n) >= P(n - 1) - A(n - 1)
    <3>1. CASE id[n].kind = k1
      <4>1. A(n) = A(n - 1) + 1 /\ P(n) = P(n - 1) + 1
        BY <1>4, <1>5, <3>1
      <4> QED BY <2>0, <4>1
    <3>2. CASE id[n].kind # k1
      <4>1. A(n) = A(n - 1) /\ (P(n) = P(n - 1) \/ P(n) = P(n - 1) + 1)
        BY <1>4, <3>2
      <4> QED BY <2>0, <4>1
    <3> QED BY <3>1, <3>2
  <2>2. \A i \in 0 .. n - 1 : P(n - 1) - A(n - 1) >= P(i) - A(i)
    BY <1>7
  <2>3. \A i \in 0 .. n : i = n \/ i \in 0 .. n - 1
    BY <1>1
  <2>4. \A i \in 0 .. n : P(i) \in Nat /\ A(i) \in Nat
    BY <1>1, <1>2
  <2>5. ASSUME NEW i \in 0 .. n PROVE P(n) - A(n) >= P(i) - A(i)
    <3>1. P(i) \in Nat /\ A(i) \in Nat
      BY <2>4
    <3>2. CASE i = n
      BY <3>1, <3>2
    <3>3. CASE i # n
      <4>1. P(n - 1) - A(n - 1) >= P(i) - A(i)
        BY <2>2, <2>3, <3>3
      <4> QED BY <2>0, <2>1, <3>1, <4>1
    <3> QED BY <3>2, <3>3
  <2> QED BY <1>4, <2>5
<1> HIDE DEF G
<1>8. 0 .. L \subseteq G
  BY <1>1, <1>6, <1>7, BoundedInduction
<1>9. \A n \in 0 .. L : A(n) = P(n)
  <2> SUFFICES ASSUME NEW n \in 0 .. L PROVE A(n) = P(n)
    OBVIOUS
  <2>1. Below(n) /\ Below(L)
    BY <1>1, <1>8 DEF G
  <2>2. P(n) - A(n) >= P(0) - A(0) /\ P(L) - A(L) >= P(n) - A(n)
    BY <1>1, <2>1
  <2>3. A(n) \in Nat /\ P(n) \in Nat /\ A(L) \in Nat
    BY <1>1, <1>2
  <2> QED BY <1>1, <1>3, <2>2, <2>3
<1>10. \A n \in 1 .. L : id[n].kind = k1 <=> pattern[n].kind = k2
  BY <1>2, <1>4, <1>5, <1>9
<1> QED BY <1>9, <1>10 DEF A, P, L, Aligned, AsMany

\* Ids with the two kinds at the same places have as many of them up to each place.
LEMMA SameKinds ==
  ASSUME NEW id \in Seq(Segments), NEW pattern \in Seq(Segments), NEW k1, NEW k2,
         Len(id) = Len(pattern), Aligned(id, k1, pattern, k2)
  PROVE  AsMany(id, k1, pattern, k2)
<1> DEFINE L == Len(id)
           A(n) == Len(Taken(id, k1)[n])
           P(n) == Len(Taken(pattern, k2)[n])
           G == {n \in 0 .. L : A(n) = P(n)}
<1>1. L \in Nat
  OBVIOUS
<1>2. 0 \in G
  <2>1. Taken(id, k1)[0] = <<>> /\ Taken(pattern, k2)[0] = <<>>
    BY TakenEquation
  <2> QED BY <1>1, <2>1
<1>3. ASSUME NEW n \in 1 .. L, n - 1 \in G PROVE n \in G
  <2>1. /\ Taken(id, k1)[n] = IF id[n].kind = k1 THEN Append(Taken(id, k1)[n - 1], id[n])
                              ELSE Taken(id, k1)[n - 1]
        /\ Taken(pattern, k2)[n] =
               IF pattern[n].kind = k2 THEN Append(Taken(pattern, k2)[n - 1], pattern[n])
               ELSE Taken(pattern, k2)[n - 1]
    BY TakenEquation
  <2>2. id[n].kind = k1 => A(n) = A(n - 1) + 1
    BY TakenAt
  <2>3. pattern[n].kind = k2 => P(n) = P(n - 1) + 1
    BY TakenAt
  <2>4. A(n - 1) = P(n - 1) /\ n \in 0 .. L
    BY <1>1, <1>3
  <2>5. id[n].kind = k1 <=> pattern[n].kind = k2
    BY DEF Aligned
  <2>6. A(n) = P(n)
    BY <2>1, <2>2, <2>3, <2>4, <2>5
  <2> QED BY <2>4, <2>6
<1> HIDE DEF G
<1>4. 0 .. L \subseteq G
  BY <1>1, <1>2, <1>3, BoundedInduction
<1> QED BY <1>4 DEF G, AsMany

\* What a pattern may be made of.
Plain(pattern) == \A n \in DOMAIN pattern : pattern[n].kind \in {"text", "placeholder"}

\* An id is an instance of a pattern: it has its shape and as many arguments.
InstanceOf(id, pattern) ==
  /\ NormalizedId(id) = DefinitionId(pattern)
  /\ Len(Arguments(id)) = Len(Parameters(pattern))

\* An instance has the text of its pattern, and an argument for each placeholder.
LEMMA Shapes ==
  ASSUME NEW id \in Seq(Segments), NEW pattern \in Seq(Segments), InstanceOf(id, pattern)
  PROVE  /\ Len(id) = Len(pattern)
         /\ Aligned(id, "argument", pattern, "placeholder")
         /\ AsMany(id, "argument", pattern, "placeholder")
         /\ \A n \in 1 .. Len(id) : id[n].kind # "argument" => id[n] = pattern[n]
<1>1. /\ DOMAIN id = 1 .. Len(id) /\ DOMAIN pattern = 1 .. Len(pattern)
      /\ Len(id) \in Nat /\ Len(pattern) \in Nat
  OBVIOUS
<1>2. DOMAIN NormalizedId(id) = 1 .. Len(id) /\ DOMAIN DefinitionId(pattern) = 1 .. Len(pattern)
  BY <1>1 DEF NormalizedId, DefinitionId
<1>3. Len(id) = Len(pattern)
  <2>1. 1 .. Len(id) = 1 .. Len(pattern)
    BY <1>2 DEF InstanceOf
  <2>2. \A a, b \in Nat : 1 .. a = 1 .. b => ~(a < b)
    <3> SUFFICES ASSUME NEW a \in Nat, NEW b \in Nat, a < b PROVE 1 .. a # 1 .. b
      OBVIOUS
    <3>1. b \in 1 .. b /\ b \notin 1 .. a
      OBVIOUS
    <3> QED BY <3>1
  <2>3. ~(Len(id) < Len(pattern)) /\ ~(Len(pattern) < Len(id))
    BY <1>1, <2>1, <2>2
  <2>4. \A a, b \in Nat : ~(a < b) /\ ~(b < a) => a = b
    OBVIOUS
  <2> QED BY <1>1, <2>3, <2>4
<1>4. ASSUME NEW n \in 1 .. Len(id)
      PROVE  /\ id[n].kind = "argument" => pattern[n].kind = "placeholder"
             /\ id[n].kind # "argument" /\ pattern[n].kind # "placeholder" => id[n] = pattern[n]
  <2>1. NormalizedId(id)[n] = IF id[n].kind = "argument" THEN Placeholder(Open) ELSE id[n]
    BY <1>1 DEF NormalizedId
  <2>2. DefinitionId(pattern)[n] =
            IF pattern[n].kind = "placeholder" THEN Placeholder(Open) ELSE pattern[n]
    BY <1>1, <1>3 DEF DefinitionId, IsPlaceholder
  <2>3. Placeholder(Open).kind = "placeholder"
    BY DEF Placeholder
  <2>4. NormalizedId(id)[n] = DefinitionId(pattern)[n]
    BY DEF InstanceOf
  <2> QED BY <2>1, <2>2, <2>3, <2>4
<1>5. Len(Taken(id, "argument")[Len(id)]) = Len(Taken(pattern, "placeholder")[Len(id)])
  <2>1. Len(Arguments(id)) = Len(Taken(id, "argument")[Len(id)])
    BY NamesAreAligned DEF Arguments
  <2>2. Len(Parameters(pattern)) = Len(Taken(pattern, "placeholder")[Len(pattern)])
    BY NamesAreAligned DEF Parameters
  <2> QED BY <1>3, <2>1, <2>2 DEF InstanceOf
<1>6. /\ Aligned(id, "argument", pattern, "placeholder")
      /\ AsMany(id, "argument", pattern, "placeholder")
  <2>1. Within(id, "argument", pattern, "placeholder")
    BY <1>4 DEF Within
  <2> QED BY <1>3, <1>5, <2>1, SameCounts
<1>7. \A n \in 1 .. Len(id) : id[n].kind # "argument" => id[n] = pattern[n]
  BY <1>4, <1>6 DEF Aligned
<1> QED BY <1>3, <1>6, <1>7

\* An instance of a pattern is put together again from the pattern and its arguments.
LEMMA BuildRestores ==
  ASSUME NEW id \in Seq(Segments), NEW pattern \in Seq(Segments), InstanceOf(id, pattern)
  PROVE  BuildConcreteVariableId(pattern, Arguments(id)) = id
<1> DEFINE built == BuildConcreteVariableId(pattern, Arguments(id))
           x == Arguments(id)
           Tp == Taken(pattern, "placeholder")
           Ta == Taken(id, "argument")
<1>1. /\ DOMAIN id = 1 .. Len(id) /\ DOMAIN pattern = 1 .. Len(pattern) /\ Len(id) \in Nat
      /\ \A n \in 1 .. Len(id) : id[n] \in Segments
  OBVIOUS
<1>2. /\ Len(id) = Len(pattern)
      /\ \A n \in 1 .. Len(id) : id[n].kind = "argument" <=> pattern[n].kind = "placeholder"
      /\ \A n \in 1 .. Len(id) : id[n].kind # "argument" => id[n] = pattern[n]
      /\ \A n \in 0 .. Len(id) : Len(Ta[n]) = Len(Tp[n])
  <2>1. /\ Len(id) = Len(pattern)
        /\ Aligned(id, "argument", pattern, "placeholder")
        /\ AsMany(id, "argument", pattern, "placeholder")
        /\ \A n \in 1 .. Len(id) : id[n].kind # "argument" => id[n] = pattern[n]
    BY Shapes
  <2> QED BY <2>1 DEF Aligned, AsMany
<1>3. \A n \in 1 .. Len(id) : id[n].kind = "argument" => x[Len(Ta[n])] = id[n].of
  BY NamesAreAligned DEF Arguments
<1>4. built = [n \in 1 .. Len(id) |-> IF pattern[n].kind = "placeholder"
                                      THEN Argument(x[Len(Tp[n])]) ELSE pattern[n]]
  BY <1>1, <1>2 DEF BuildConcreteVariableId, IsPlaceholder
<1> HIDE DEF built, x, Tp, Ta
<1>5. ASSUME NEW n \in 1 .. Len(id) PROVE built[n] = id[n]
  <2>0. n \in 0 .. Len(id)
    BY <1>1
  <2>1. CASE id[n].kind = "argument"
    <3>1. built[n] = Argument(x[Len(Tp[n])]) /\ x[Len(Tp[n])] = id[n].of
      BY <1>2, <1>3, <1>4, <2>0, <2>1
    <3>2. id[n] = [kind |-> "argument", of |-> id[n].of]
      BY <1>1, <2>1 DEF Segments
    <3> QED BY <3>1, <3>2 DEF Argument
  <2>2. CASE id[n].kind # "argument"
    BY <1>2, <1>4, <2>2
  <2> QED BY <2>1, <2>2
<1>6. built = [n \in 1 .. Len(id) |-> built[n]] /\ id = [n \in 1 .. Len(id) |-> id[n]]
  BY <1>1, <1>4
<1> QED BY <1>5, <1>6 DEF built, x

\* What is built from a pattern and as many values as it has parameters is an instance of it,
\* with these values as its arguments.
LEMMA BuildIs ==
  ASSUME NEW pattern \in Seq(Segments), Plain(pattern), NEW x \in Seq(STRING),
         Len(x) = Len(Parameters(pattern))
  PROVE  LET built == BuildConcreteVariableId(pattern, x)
         IN  /\ built \in Seq(Segments)
             /\ Arguments(built) = x
             /\ InstanceOf(built, pattern)
<1> DEFINE built == BuildConcreteVariableId(pattern, x)
           L == Len(pattern)
           Tp == Taken(pattern, "placeholder")
           Ta == Taken(built, "argument")
<1>1. /\ DOMAIN pattern = 1 .. L /\ L \in Nat /\ \A n \in 1 .. L : pattern[n] \in Segments
      /\ \A n \in 1 .. L : pattern[n].kind \in {"text", "placeholder"}
  BY DEF Plain
<1>2. \A n \in 1 .. L : pattern[n].kind = "placeholder" => Len(Tp[n]) \in 1 .. Len(x)
  BY NamesAreAligned DEF Parameters
<1>3. built = [n \in 1 .. L |-> IF pattern[n].kind = "placeholder"
                                THEN Argument(x[Len(Tp[n])]) ELSE pattern[n]]
  BY <1>1 DEF BuildConcreteVariableId, IsPlaceholder
<1> HIDE DEF built, L, Tp
<1>4. ASSUME NEW n \in 1 .. L
      PROVE  /\ built[n] \in Segments
             /\ built[n].kind = "argument" <=> pattern[n].kind = "placeholder"
             /\ built[n].kind # "argument" => built[n] = pattern[n]
             /\ built[n].kind = "argument" => built[n].of = x[Len(Tp[n])]
  <2>1. CASE pattern[n].kind = "placeholder"
    <3>1. built[n] = [kind |-> "argument", of |-> x[Len(Tp[n])]]
      BY <1>3, <2>1 DEF Argument
    <3>2. x[Len(Tp[n])] \in STRING
      BY <1>2, <2>1
    <3> QED BY <2>1, <3>1, <3>2 DEF Segments
  <2>2. CASE pattern[n].kind # "placeholder"
    <3>1. built[n] = pattern[n] /\ pattern[n].kind = "text"
      BY <1>1, <1>3, <2>2
    <3> QED BY <1>1, <2>2, <3>1
  <2> QED BY <2>1, <2>2
<1>5. built \in Seq(Segments) /\ Len(built) = L /\ DOMAIN built = 1 .. L
  <2>1. built \in [1 .. L -> Segments]
    BY <1>3, <1>4
  <2>2. built \in Seq(Segments)
    BY <1>1, <2>1, SeqDef
  <2> QED BY <1>1, <2>1, <2>2, LenProperties
<1>6. \A n \in 0 .. L : Len(Ta[n]) = Len(Tp[n])
  <2>1. Aligned(built, "argument", pattern, "placeholder")
    BY <1>4, <1>5 DEF Aligned
  <2>2. Len(built) = Len(pattern)
    BY <1>5 DEF L
  <2>3. AsMany(built, "argument", pattern, "placeholder")
    BY <1>5, <2>1, <2>2, SameKinds
  <2> QED BY <1>5, <2>3 DEF AsMany, Tp
<1>7. /\ Arguments(built) \in Seq(STRING) /\ DOMAIN Arguments(built) = 1 .. Len(Arguments(built))
      /\ Len(Arguments(built)) = Len(Ta[L])
      /\ \A k \in 1 .. Len(Arguments(built)) : \E n \in 1 .. L :
            built[n].kind = "argument" /\ Len(Ta[n]) = k /\ Arguments(built)[k] = built[n].of
  BY <1>5, NamesAreAligned DEF Arguments
<1>8. Len(x) = Len(Tp[L])
  BY NamesAreAligned DEF Parameters, L, Tp
<1>9. Len(Arguments(built)) = Len(x)
  <2>1. L \in 0 .. L
    BY <1>1
  <2> QED BY <1>6, <1>7, <1>8, <2>1
<1>10. Arguments(built) = x
  <2>1. DOMAIN x = 1 .. Len(x)
    OBVIOUS
  <2>2. ASSUME NEW k \in 1 .. Len(x) PROVE Arguments(built)[k] = x[k]
    <3>1. PICK n \in 1 .. L :
             built[n].kind = "argument" /\ Len(Ta[n]) = k /\ Arguments(built)[k] = built[n].of
      BY <1>7, <1>9
    <3>2. n \in 0 .. L
      BY <1>1
    <3> QED BY <1>4, <1>6, <3>1, <3>2
  <2> QED BY <1>7, <1>9, <2>1, <2>2
<1>11. NormalizedId(built) = DefinitionId(pattern)
  <2>1. NormalizedId(built) =
            [n \in 1 .. L |-> IF built[n].kind = "argument" THEN Placeholder(Open) ELSE built[n]]
    BY <1>5 DEF NormalizedId
  <2>2. DefinitionId(pattern) =
            [n \in 1 .. L |-> IF pattern[n].kind = "placeholder" THEN Placeholder(Open)
                              ELSE pattern[n]]
    BY <1>1 DEF DefinitionId, IsPlaceholder
  <2> QED BY <1>4, <2>1, <2>2
<1>12. InstanceOf(built, pattern)
  BY <1>9, <1>10, <1>11 DEF InstanceOf
<1> QED BY <1>5, <1>10, <1>12 DEF built

-----------------------------------------------------------------------------
(* The ways to choose one of each.                                         *)

\* Lists with nothing twice and nothing in common have nothing twice in a row either.
LEMMA InjectiveConcatenation ==
  ASSUME NEW S, NEW p \in Seq(S), NEW q \in Seq(S), IsInjective(p), IsInjective(q),
         Range(p) \cap Range(q) = {}
  PROVE  IsInjective(p \o q)
<1> DEFINE pq == p \o q
<1>1. /\ pq \in Seq(S) /\ Len(p) \in Nat /\ Len(q) \in Nat /\ Len(pq) = Len(p) + Len(q)
      /\ \A i \in 1 .. Len(p) : pq[i] = p[i]
      /\ \A i \in 1 .. Len(q) : pq[Len(p) + i] = q[i]
  OBVIOUS
<1>2. DOMAIN p = 1 .. Len(p) /\ DOMAIN q = 1 .. Len(q) /\ DOMAIN pq = 1 .. Len(p) + Len(q)
  <2>1. DOMAIN pq = 1 .. Len(pq)
    BY <1>1, LenProperties
  <2> QED BY <1>1, <2>1
<1> HIDE DEF pq
<1>3. \A i \in 1 .. Len(p), j \in 1 .. Len(q) : p[i] # q[j]
  BY <1>2 DEF Range
<1>4. \A i \in 1 .. Len(p) + Len(q) :
          \/ i \in 1 .. Len(p) /\ pq[i] = p[i]
          \/ i - Len(p) \in 1 .. Len(q) /\ pq[i] = q[i - Len(p)]
  <2> SUFFICES ASSUME NEW i \in 1 .. Len(p) + Len(q), i \notin 1 .. Len(p)
               PROVE  i - Len(p) \in 1 .. Len(q) /\ pq[i] = q[i - Len(p)]
    BY <1>1
  <2>1. i - Len(p) \in 1 .. Len(q) /\ Len(p) + (i - Len(p)) = i
    BY <1>1
  <2> QED BY <1>1, <2>1
<1>5. ASSUME NEW i \in 1 .. Len(p) + Len(q), NEW j \in 1 .. Len(p) + Len(q), pq[i] = pq[j]
      PROVE  i = j
  <2>1. \A m, n \in 1 .. Len(p) : p[m] = p[n] => m = n
    BY <1>2 DEF IsInjective
  <2>2. \A m, n \in 1 .. Len(q) : q[m] = q[n] => m = n
    BY <1>2 DEF IsInjective
  <2>3. CASE i \in 1 .. Len(p) /\ j \in 1 .. Len(p)
    BY <1>1, <1>5, <2>1, <2>3
  <2>4. CASE i - Len(p) \in 1 .. Len(q) /\ j - Len(p) \in 1 .. Len(q)
    <3>1. Len(p) + (i - Len(p)) = i /\ Len(p) + (j - Len(p)) = j
      BY <1>1
    <3>2. q[i - Len(p)] = q[j - Len(p)]
      BY <1>1, <1>5, <2>4, <3>1
    <3>3. i - Len(p) = j - Len(p)
      BY <2>2, <2>4, <3>2
    <3> QED BY <3>1, <3>3
  <2>5. \/ i \in 1 .. Len(p) /\ j \in 1 .. Len(p)
        \/ i - Len(p) \in 1 .. Len(q) /\ j - Len(p) \in 1 .. Len(q)
    BY <1>3, <1>4, <1>5
  <2> QED BY <2>3, <2>4, <2>5
<1>6. IsInjective(pq)
  BY <1>2, <1>5 DEF IsInjective
<1> QED BY <1>6 DEF pq

\* Lists that differ, or end differently, differ.
LEMMA AppendsDiffer ==
  ASSUME NEW S, NEW s \in Seq(S), NEW t \in Seq(S), NEW c \in S, NEW d \in S,
         Append(s, c) = Append(t, d)
  PROVE  s = t /\ c = d
<1>1. /\ Len(Append(s, c)) = Len(s) + 1 /\ Len(Append(t, d)) = Len(t) + 1
      /\ Len(s) \in Nat /\ Len(t) \in Nat
  OBVIOUS
<1>2. Len(s) = Len(t)
  <2>1. Len(s) + 1 = Len(t) + 1
    BY <1>1
  <2> QED BY <1>1, <2>1
<1>3. Append(s, c)[Len(s) + 1] = c /\ Append(t, d)[Len(t) + 1] = d
  OBVIOUS
<1>4. \A i \in 1 .. Len(s) : Append(s, c)[i] = s[i]
  OBVIOUS
<1>5. \A i \in 1 .. Len(t) : Append(t, d)[i] = t[i]
  OBVIOUS
<1>6. s = [i \in 1 .. Len(s) |-> s[i]] /\ t = [i \in 1 .. Len(t) |-> t[i]]
  OBVIOUS
<1>7. \A i \in 1 .. Len(s) : s[i] = t[i]
  BY <1>2, <1>4, <1>5
<1> QED BY <1>2, <1>3, <1>6, <1>7

\* One list with each of a choice at its end.
LEMMA RowOf ==
  ASSUME NEW S, NEW s \in Seq(S), NEW choice \in Seq(S)
  PROVE  LET row == [j \in DOMAIN choice |-> Append(s, choice[j])]
         IN  /\ row \in Seq(Seq(S))
             /\ \A y : y \in Range(row) <=> \E c \in Range(choice) : y = Append(s, c)
             /\ IsInjective(choice) => IsInjective(row)
<1> DEFINE row == [j \in DOMAIN choice |-> Append(s, choice[j])]
<1>1. /\ DOMAIN choice = 1 .. Len(choice) /\ Len(choice) \in Nat
      /\ \A j \in 1 .. Len(choice) : choice[j] \in S
  OBVIOUS
<1>2. \A j \in 1 .. Len(choice) : Append(s, choice[j]) \in Seq(S)
  <2> SUFFICES ASSUME NEW j \in 1 .. Len(choice) PROVE Append(s, choice[j]) \in Seq(S)
    OBVIOUS
  <2>1. choice[j] \in S
    BY <1>1
  <2> QED BY <2>1
<1>3. row \in Seq(Seq(S))
  <2>1. row \in [1 .. Len(choice) -> Seq(S)]
    BY <1>1, <1>2
  <2> QED BY <1>1, <2>1, SeqDef
<1>4. \A y : y \in Range(row) <=> \E c \in Range(choice) : y = Append(s, c)
  BY DEF Range
<1>5. ASSUME IsInjective(choice), NEW i \in DOMAIN choice, NEW j \in DOMAIN choice,
             Append(s, choice[i]) = Append(s, choice[j])
      PROVE  i = j
  <2>1. choice[i] \in S /\ choice[j] \in S
    BY <1>1
  <2>2. choice[i] = choice[j]
    BY <1>5, <2>1, AppendsDiffer
  <2> QED BY <1>5, <2>2 DEF IsInjective
<1>6. IsInjective(choice) => IsInjective(row)
  BY <1>5 DEF IsInjective
<1> QED BY <1>3, <1>4, <1>6

\* The lists of e are those given, each with each of a choice at its end.
ExtendsAll(e, given, choice) ==
  \A y : y \in Range(e) <=> \E s \in Range(given), c \in Range(choice) : y = Append(s, c)

\* Extended gives every list a choice was added to, and none twice.
LEMMA ExtendedAre ==
  ASSUME NEW S, NEW given \in Seq(Seq(S)), NEW choice \in Seq(S)
  PROVE  LET e == Extended(given, choice)
         IN  /\ e \in Seq(Seq(S))
             /\ ExtendsAll(e, given, choice)
             /\ IsInjective(given) /\ IsInjective(choice) => IsInjective(e)
<1> DEFINE L == Len(given)
           Row(n) == [j \in DOMAIN choice |-> Append(given[n], choice[j])]
           Solves(g) == g = [n \in 0 .. L |-> IF n = 0 THEN <<>> ELSE g[n - 1] \o Row(n)]
           extended == CHOOSE g : Solves(g)
           step == [x \in (1 .. L) \X Seq(Seq(S)) |-> x[2] \o Row(x[1])]
<1>1. /\ L \in Nat /\ DOMAIN given = 1 .. L
      /\ \A n \in 1 .. L : n \in 0 .. L /\ n - 1 \in 0 .. L /\ n # 0 /\ given[n] \in Seq(S)
  OBVIOUS
<1>2. Extended(given, choice) = extended[L]
  BY DEF Extended
<1>3. \A n \in 1 .. L, t \in Seq(Seq(S)) : step[<<n, t>>] = t \o Row(n)
  OBVIOUS
<1>4. \A n \in 1 .. L :
         /\ Row(n) \in Seq(Seq(S))
         /\ \A y : y \in Range(Row(n)) <=> \E c \in Range(choice) : y = Append(given[n], c)
         /\ IsInjective(choice) => IsInjective(Row(n))
  BY <1>1, RowOf
<1> HIDE DEF L, step, Row
<1>5. Stays(Seq(Seq(S)), <<>>, L, step)
  <2>1. \A n \in 1 .. L, t \in Seq(Seq(S)) : step[<<n, t>>] \in Seq(Seq(S))
    BY ZenonT(30), <1>3, <1>4, Concatenation
  <2>2. <<>> \in Seq(Seq(S))
    OBVIOUS
  <2> QED BY <1>1, <2>1, <2>2 DEF Stays
<1>6. PICK f : Computes(f, Seq(Seq(S)), <<>>, L, step)
  BY <1>5, RecursionExists
<1>7. f \in [0 .. L -> Seq(Seq(S))] /\ f[0] = <<>> /\ \A n \in 1 .. L : f[n] = f[n - 1] \o Row(n)
  <2>1. f \in [0 .. L -> Seq(Seq(S))] /\ f[0] = <<>>
    BY <1>6 DEF Computes
  <2> QED BY <1>1, <1>3, <1>6, <2>1 DEF Computes
<1>8. Solves(f)
  <2>1. \A n \in 0 .. L : n = 0 \/ n \in 1 .. L
    BY <1>1
  <2> QED BY <1>7, <2>1
<1>9. Solves(extended)
  <2> HIDE DEF Solves
  <2> QED BY <1>8
<1> HIDE DEF extended
<1>10. extended[0] = <<>> /\ \A n \in 1 .. L : extended[n] = extended[n - 1] \o Row(n)
  <2>1. 0 \in 0 .. L
    BY <1>1
  <2> QED BY <1>1, <1>9, <2>1
<1> HIDE DEF Solves
<1> DEFINE Made(n, y) == \E m \in 1 .. n : \E c \in Range(choice) : y = Append(given[m], c)
           Good(n) == /\ extended[n] \in Seq(Seq(S))
                      /\ \A y : y \in Range(extended[n]) <=> Made(n, y)
                      /\ IsInjective(given) /\ IsInjective(choice) => IsInjective(extended[n])
           G == {n \in 0 .. L : Good(n)}
<1>11. 0 \in G
  <2>1. Range(<<>>) = {} /\ IsInjective(<<>>) /\ <<>> \in Seq(Seq(S))
    BY DEF Range, IsInjective
  <2>2. \A m \in 1 .. 0 : FALSE
    OBVIOUS
  <2>3. 0 \in 0 .. L
    BY <1>1
  <2> QED BY <1>10, <2>1, <2>2, <2>3
<1>12. ASSUME NEW n \in 1 .. L, n - 1 \in G PROVE n \in G
  <2>1. Good(n - 1)
    BY <1>12
  <2>2. /\ extended[n] = extended[n - 1] \o Row(n)
        /\ extended[n - 1] \in Seq(Seq(S)) /\ Row(n) \in Seq(Seq(S))
    BY <1>4, <1>10, <2>1
  <2>3. /\ extended[n] \in Seq(Seq(S))
        /\ Range(extended[n]) = Range(extended[n - 1]) \cup Range(Row(n))
    BY <2>2, ElementsOfConcatenation
  <2>4. \A m \in 1 .. n : m \in 1 .. n - 1 \/ m = n
    BY <1>1
  <2>5. 1 .. n - 1 \subseteq 1 .. n /\ n \in 1 .. n
    BY <1>1
  <2>6. \A y : y \in Range(extended[n]) <=> Made(n, y)
    <3> SUFFICES ASSUME NEW y PROVE y \in Range(extended[n]) <=> Made(n, y)
      OBVIOUS
    <3>1. Made(n, y) <=> Made(n - 1, y) \/ \E c \in Range(choice) : y = Append(given[n], c)
      BY <2>4, <2>5
    <3> HIDE DEF Made
    <3> QED BY <1>4, <2>1, <2>3, <3>1
  <2>7. ASSUME IsInjective(given), IsInjective(choice) PROVE IsInjective(extended[n])
    <3>1. ASSUME NEW y \in Range(extended[n - 1]), y \in Range(Row(n)) PROVE FALSE
      <4>1. PICK m \in 1 .. n - 1 : \E c \in Range(choice) : y = Append(given[m], c)
        BY <2>1, <3>1
      <4>2. PICK c \in Range(choice), d \in Range(choice) :
               y = Append(given[m], c) /\ y = Append(given[n], d)
        BY ZenonT(30), <1>4, <3>1, <4>1
      <4>3. m \in 1 .. L /\ m # n
        BY <1>1
      <4>4. c \in S /\ d \in S
        BY ElementsAreMembers
      <4>5. given[m] \in Seq(S) /\ given[n] \in Seq(S)
        BY <1>1, <4>3
      <4>6. given[m] = given[n]
        <5>1. Append(given[m], c) = Append(given[n], d)
          BY <4>2
        <5> DEFINE s == given[m]
                   t == given[n]
        <5>2. s \in Seq(S) /\ t \in Seq(S) /\ Append(s, c) = Append(t, d)
          BY <4>5, <5>1
        <5> HIDE DEF s, t
        <5>3. s = t
          BY <4>4, <5>2, AppendsDiffer
        <5> QED BY <5>3 DEF s, t
      <4> QED BY <1>1, <2>7, <4>3, <4>6 DEF IsInjective
    <3>2. Range(extended[n - 1]) \cap Range(Row(n)) = {}
      BY <3>1
    <3>3. IsInjective(extended[n - 1]) /\ IsInjective(Row(n))
      BY <1>4, <2>1, <2>7
    <3> QED BY <2>2, <3>2, <3>3, InjectiveConcatenation
  <2>8. n \in 0 .. L
    BY <1>1
  <2> QED BY <2>3, <2>6, <2>7, <2>8
<1> HIDE DEF G
<1>13. 0 .. L \subseteq G
  BY <1>1, <1>11, <1>12, BoundedInduction
<1>14. Good(L)
  <2>1. L \in 0 .. L
    BY <1>1
  <2> QED BY <1>13, <2>1 DEF G
<1>15. \A y : y \in Range(extended[L]) <=>
          \E s \in Range(given), c \in Range(choice) : y = Append(s, c)
  <2>1. \A s : s \in Range(given) <=> \E m \in 1 .. L : s = given[m]
    BY <1>1 DEF Range
  <2> QED BY <1>14, <2>1
<1> QED BY <1>2, <1>14, <1>15 DEF ExtendsAll

\* A list of one of each of some choices.
Selects(y, S, choices, n) ==
  y \in Seq(S) /\ Len(y) = n /\ \A i \in 1 .. n : y[i] \in Range(choices[i])

\* To select from one more list is to select and add an element of it.
LEMMA SelectsOneMore ==
  ASSUME NEW S, NEW choices \in Seq(Seq(S)), NEW n \in 1 .. Len(choices), NEW y
  PROVE  Selects(y, S, choices, n) <=>
             \E s \in {t \in Seq(S) : Selects(t, S, choices, n - 1)}, c \in Range(choices[n]) :
                 y = Append(s, c)
<1>1. n \in Nat /\ n - 1 \in Nat /\ n \in 1 .. n /\ choices[n] \in Seq(S)
  OBVIOUS
<1>2. ASSUME Selects(y, S, choices, n)
      PROVE  \E s \in {t \in Seq(S) : Selects(t, S, choices, n - 1)}, c \in Range(choices[n]) :
                 y = Append(s, c)
  <2> DEFINE s == [i \in 1 .. n - 1 |-> y[i]]
             c == y[n]
  <2>1. /\ y \in Seq(S) /\ Len(y) = n /\ DOMAIN y = 1 .. n
        /\ \A i \in 1 .. n : y[i] \in Range(choices[i])
        /\ \A i \in 1 .. n : y[i] \in S
    <3>1. y \in Seq(S) /\ Len(y) = n /\ \A i \in 1 .. n : y[i] \in Range(choices[i])
      BY <1>2 DEF Selects
    <3> QED BY <3>1
  <2>2. s \in [1 .. n - 1 -> S]
    BY <1>1, <2>1
  <2>3. s \in Seq(S) /\ Len(s) = n - 1
    <3>1. s \in Seq(S)
      BY <1>1, <2>2, SeqDef
    <3> QED BY <1>1, <2>2, <3>1, LenProperties
  <2>4. \A i \in 1 .. n - 1 : s[i] = y[i]
    OBVIOUS
  <2>5. c \in Range(choices[n]) /\ c \in S
    BY <1>1, <2>1
  <2> HIDE DEF s, c
  <2>6. y = Append(s, c)
    <3>1. /\ Append(s, c) \in Seq(S) /\ Len(Append(s, c)) = Len(s) + 1
          /\ \A i \in 1 .. Len(s) : Append(s, c)[i] = s[i]
          /\ Append(s, c)[Len(s) + 1] = c
      BY <2>3, <2>5
    <3> DEFINE a == Append(s, c)
    <3>2. a \in Seq(S) /\ Len(a) = n
      BY <1>1, <2>3, <3>1
    <3>3. \A i \in 1 .. n : a[i] = y[i]
      <4>1. \A i \in 1 .. n : i \in 1 .. n - 1 \/ i = n
        BY <1>1
      <4>2. (n - 1) + 1 = n
        BY <1>1
      <4> QED BY <2>3, <2>4, <3>1, <4>1, <4>2 DEF c
    <3> HIDE DEF a
    <3>4. a = [i \in 1 .. n |-> a[i]] /\ y = [i \in 1 .. n |-> y[i]]
      BY <2>1, <3>2
    <3>5. a = y
      BY <3>3, <3>4
    <3> QED BY <3>5 DEF a
  <2>7. Selects(s, S, choices, n - 1)
    <3>1. \A i \in 1 .. n - 1 : i \in 1 .. n
      BY <1>1
    <3> QED BY <2>1, <2>3, <2>4, <3>1 DEF Selects
  <2> QED BY <2>3, <2>5, <2>6, <2>7
<1>3. ASSUME NEW s \in Seq(S), Selects(s, S, choices, n - 1), NEW c \in Range(choices[n]),
             y = Append(s, c)
      PROVE  Selects(y, S, choices, n)
  <2>1. c \in S
    BY <1>1, ElementsAreMembers
  <2>2. Len(s) = n - 1 /\ \A i \in 1 .. n - 1 : s[i] \in Range(choices[i])
    BY <1>3 DEF Selects
  <2>3. /\ y \in Seq(S) /\ Len(y) = Len(s) + 1
        /\ \A i \in 1 .. Len(s) : y[i] = s[i]
        /\ y[Len(s) + 1] = c
    BY <1>3, <2>1
  <2>4. \A i \in 1 .. n : i \in 1 .. n - 1 \/ i = n
    BY <1>1
  <2>5. (n - 1) + 1 = n
    BY <1>1
  <2> QED BY <2>2, <2>3, <2>4, <2>5 DEF Selects
<1> QED BY <1>2, <1>3

\* All the ways to take one of each of some choices, each of them once.
LEMMA SelectionsAre ==
  ASSUME NEW S, NEW choices \in Seq(Seq(S))
  PROVE  /\ Selections(choices) \in Seq(Seq(S))
         /\ \A y : y \in Range(Selections(choices)) <=> Selects(y, S, choices, Len(choices))
         /\ (\A i \in 1 .. Len(choices) : IsInjective(choices[i])) =>
               IsInjective(Selections(choices))
<1> DEFINE L == Len(choices)
           D == Seq(Seq(S))
           Solves(g) == g = [n \in 0 .. L |->
               IF n = 0 THEN << <<>> >> ELSE Extended(g[n - 1], choices[n])]
           selections == CHOOSE g : Solves(g)
           step == [x \in (1 .. L) \X D |-> Extended(x[2], choices[x[1]])]
           Once == \A i \in 1 .. L : IsInjective(choices[i])
<1>1. /\ L \in Nat
      /\ \A n \in 1 .. L : n \in 0 .. L /\ n - 1 \in 0 .. L /\ n # 0 /\ choices[n] \in Seq(S)
  OBVIOUS
<1>2. Selections(choices) = selections[L]
  BY DEF Selections
<1>3. \A n \in 1 .. L, t \in D : step[<<n, t>>] = Extended(t, choices[n])
  OBVIOUS
<1>4. << <<>> >> \in D
  <2>1. <<>> \in Seq(S)
    OBVIOUS
  <2> HIDE DEF D
  <2>2. \A T : \A e \in T : <<e>> \in Seq(T)
    OBVIOUS
  <2> QED BY <2>1, <2>2 DEF D
<1>5. \A n \in 1 .. L, t \in D : Extended(t, choices[n]) \in D
  BY <1>1, ExtendedAre
<1>6. \A n \in 1 .. L, t \in D :
         /\ ExtendsAll(Extended(t, choices[n]), t, choices[n])
         /\ IsInjective(t) /\ IsInjective(choices[n]) => IsInjective(Extended(t, choices[n]))
  BY <1>1, ExtendedAre
<1>7. \A y : y \in Range(<< <<>> >>) <=> y = <<>>
  BY DEF Range
<1>8. IsInjective(<< <<>> >>)
  BY DEF IsInjective
<1> HIDE DEF L, step, D, Once
<1>9. Stays(D, << <<>> >>, L, step)
  BY <1>1, <1>3, <1>4, <1>5 DEF Stays
<1>10. PICK f : Computes(f, D, << <<>> >>, L, step)
  BY <1>9, RecursionExists
<1>11. /\ f \in [0 .. L -> D] /\ f[0] = << <<>> >>
       /\ \A n \in 1 .. L : f[n] = Extended(f[n - 1], choices[n])
  <2>1. f \in [0 .. L -> D] /\ f[0] = << <<>> >>
    BY <1>10 DEF Computes
  <2> QED BY <1>1, <1>3, <1>10, <2>1 DEF Computes
<1>12. Solves(f)
  <2>1. \A n \in 0 .. L : n = 0 \/ n \in 1 .. L
    BY <1>1
  <2> QED BY <1>11, <2>1
<1>13. Solves(selections)
  <2> HIDE DEF Solves
  <2> QED BY <1>12
<1> HIDE DEF selections
<1>14. /\ selections[0] = << <<>> >>
       /\ \A n \in 1 .. L : selections[n] = Extended(selections[n - 1], choices[n])
  <2>1. 0 \in 0 .. L
    BY <1>1
  <2> QED BY <1>1, <1>13, <2>1
<1> HIDE DEF Solves
<1> DEFINE Good(n) == /\ selections[n] \in D
                      /\ \A y : y \in Range(selections[n]) <=> Selects(y, S, choices, n)
                      /\ Once => IsInjective(selections[n])
           G == {n \in 0 .. L : Good(n)}
<1>15. 0 \in G
  <2>1. \A y : Selects(y, S, choices, 0) <=> y = <<>>
    <3>1. \A y \in Seq(S) : Len(y) = 0 <=> y = <<>>
      OBVIOUS
    <3>2. <<>> \in Seq(S) /\ \A i \in 1 .. 0 : FALSE
      OBVIOUS
    <3> QED BY <3>1, <3>2 DEF Selects
  <2>2. 0 \in 0 .. L
    BY <1>1
  <2> QED BY <1>4, <1>7, <1>8, <1>14, <2>1, <2>2
<1>16. ASSUME NEW n \in 1 .. L, n - 1 \in G PROVE n \in G
  <2>1. Good(n - 1) /\ n \in 0 .. L
    BY <1>1, <1>16
  <2>2. selections[n] = Extended(selections[n - 1], choices[n])
    BY <1>14
  <2>3. ASSUME NEW y PROVE y \in Range(selections[n]) <=> Selects(y, S, choices, n)
    <3>1. y \in Range(selections[n]) <=>
              \E s \in Range(selections[n - 1]), c \in Range(choices[n]) : y = Append(s, c)
      BY <1>6, <2>1, <2>2 DEF ExtendsAll
    <3>2. Range(selections[n - 1]) = {t \in Seq(S) : Selects(t, S, choices, n - 1)}
      BY <2>1 DEF Selects
    <3>3. Selects(y, S, choices, n) <=>
              \E s \in {t \in Seq(S) : Selects(t, S, choices, n - 1)}, c \in Range(choices[n]) :
                  y = Append(s, c)
      BY SelectsOneMore DEF L
    <3> QED BY <3>1, <3>2, <3>3
  <2>4. Once => IsInjective(selections[n])
    BY <1>6, <2>1, <2>2 DEF Once
  <2>5. selections[n] \in D
    BY <1>5, <2>1, <2>2
  <2> QED BY <2>1, <2>3, <2>4, <2>5
<1> HIDE DEF G
<1>17. 0 .. L \subseteq G
  BY <1>1, <1>15, <1>16, BoundedInduction
<1>18. Good(L)
  <2>1. L \in 0 .. L
    BY <1>1
  <2> QED BY <1>17, <2>1 DEF G
<1> QED BY <1>2, <1>18 DEF Once, L, D

\* The values met first are kept, each of them once.
LEMMA DistinctAre ==
  ASSUME NEW S, NEW values \in Seq(S)
  PROVE  /\ Distinct(values) \in Seq(S) /\ IsInjective(Distinct(values))
         /\ Range(Distinct(values)) = Range(values)
<1> DEFINE L == Len(values)
           Met(n) == \E m \in 1 .. n - 1 : values[m] = values[n]
           Solves(g) == g = [n \in 0 .. L |->
               IF n = 0 THEN <<>> ELSE IF \E m \in 1 .. n - 1 : values[m] = values[n] THEN g[n - 1]
               ELSE Append(g[n - 1], values[n])]
           kept == CHOOSE g : Solves(g)
           step == [x \in (1 .. L) \X Seq(S) |->
               IF Met(x[1]) THEN x[2] ELSE Append(x[2], values[x[1]])]
<1>1. /\ L \in Nat /\ DOMAIN values = 1 .. L
      /\ \A n \in 1 .. L : n \in 0 .. L /\ n - 1 \in 0 .. L /\ n # 0 /\ values[n] \in S
  OBVIOUS
<1>2. Distinct(values) = kept[L]
  BY DEF Distinct
<1>3. \A n \in 1 .. L, t \in Seq(S) :
          step[<<n, t>>] = IF Met(n) THEN t ELSE Append(t, values[n])
  OBVIOUS
<1> HIDE DEF L, step
<1>4. Stays(Seq(S), <<>>, L, step)
  <2>1. ASSUME NEW n \in 1 .. L, NEW t \in Seq(S) PROVE step[<<n, t>>] \in Seq(S)
    <3>1. Append(t, values[n]) \in Seq(S)
      BY <1>1
    <3> QED BY <1>3, <3>1
  <2>2. <<>> \in Seq(S)
    OBVIOUS
  <2> QED BY <1>1, <2>1, <2>2 DEF Stays
<1>5. PICK f : Computes(f, Seq(S), <<>>, L, step)
  BY <1>4, RecursionExists
<1>6. /\ f \in [0 .. L -> Seq(S)] /\ f[0] = <<>>
      /\ \A n \in 1 .. L : f[n] = IF Met(n) THEN f[n - 1] ELSE Append(f[n - 1], values[n])
  <2>1. f \in [0 .. L -> Seq(S)] /\ f[0] = <<>>
    BY <1>5 DEF Computes
  <2> QED BY <1>1, <1>3, <1>5, <2>1 DEF Computes
<1>7. Solves(f)
  <2>1. \A n \in 0 .. L : n = 0 \/ n \in 1 .. L
    BY <1>1
  <2> QED BY <1>6, <2>1
<1>8. Solves(kept)
  <2> HIDE DEF Solves
  <2> QED BY <1>7
<1> HIDE DEF kept
<1>9. /\ kept[0] = <<>>
      /\ \A n \in 1 .. L : kept[n] = IF Met(n) THEN kept[n - 1] ELSE Append(kept[n - 1], values[n])
  <2>1. 0 \in 0 .. L
    BY <1>1
  <2> QED BY <1>1, <1>8, <2>1
<1> HIDE DEF Solves
<1> DEFINE Seen(n, v) == \E m \in 1 .. n : values[m] = v
           Good(n) == /\ kept[n] \in Seq(S) /\ IsInjective(kept[n])
                      /\ \A v : v \in Range(kept[n]) <=> Seen(n, v)
           G == {n \in 0 .. L : Good(n)}
<1>10. 0 \in G
  <2>1. Range(<<>>) = {} /\ IsInjective(<<>>) /\ <<>> \in Seq(S)
    BY DEF Range, IsInjective
  <2>2. \A m \in 1 .. 0 : FALSE
    OBVIOUS
  <2>3. 0 \in 0 .. L
    BY <1>1
  <2> QED BY <1>9, <2>1, <2>2, <2>3
<1>11. ASSUME NEW n \in 1 .. L, n - 1 \in G PROVE n \in G
  <2>1. Good(n - 1) /\ n \in 0 .. L /\ values[n] \in S
    BY <1>1, <1>11
  <2>2. \A v : Seen(n, v) <=> Seen(n - 1, v) \/ v = values[n]
    <3>1. \A m \in 1 .. n : m \in 1 .. n - 1 \/ m = n
      BY <1>1
    <3>2. 1 .. n - 1 \subseteq 1 .. n /\ n \in 1 .. n
      BY <1>1
    <3> QED BY <3>1, <3>2
  <2>3. Met(n) <=> Seen(n - 1, values[n])
    OBVIOUS
  <2> HIDE DEF Seen, Met
  <2>4. CASE Met(n)
    <3>1. kept[n] = kept[n - 1]
      BY <1>9, <2>4
    <3> QED BY <2>1, <2>2, <2>3, <2>4, <3>1
  <2>5. CASE ~Met(n)
    <3>1. kept[n] = Append(kept[n - 1], values[n])
      BY <1>9, <2>5
    <3>2. values[n] \notin Range(kept[n - 1])
      BY <2>1, <2>3, <2>5
    <3>3. /\ kept[n] \in Seq(S) /\ Range(kept[n]) = Range(kept[n - 1]) \cup {values[n]}
          /\ IsInjective(kept[n])
      BY <2>1, <3>1, <3>2, ElementsOfAppend
    <3> QED BY <2>1, <2>2, <3>3
  <2> QED BY <2>4, <2>5
<1> HIDE DEF G
<1>12. 0 .. L \subseteq G
  BY <1>1, <1>10, <1>11, BoundedInduction
<1>13. Good(L)
  <2>1. L \in 0 .. L
    BY <1>1
  <2> QED BY <1>12, <2>1 DEF G
<1>14. \A v : v \in Range(values) <=> Seen(L, v)
  BY <1>1 DEF Range
<1> QED BY <1>2, <1>13, <1>14

-----------------------------------------------------------------------------
(* What the finders find.                                                  *)

\* The values a domain has: valid ones, each of them once.
Proper(values) ==
  /\ values \in Seq(STRING) /\ IsInjective(values)
  /\ \A v \in Range(values) : IsValidConcreteParameterValue(v)

ProperDomains(domains) == \A n \in FixedDomains : domains[n] = Unset \/ Proper(domains[n])

\* A definition that was read, with the values of domains.
Sound(definition) ==
  LET pattern == definition.pattern
      parameters == definition.parameters
  IN  /\ pattern \in Seq(Segments) /\ Plain(pattern)
      /\ DOMAIN parameters = 1 .. Len(parameters) /\ Len(parameters) \in Nat \ {0}
      /\ Len(parameters) = Len(Parameters(pattern))
      /\ \A i \in 1 .. Len(parameters) :
            /\ parameters[i].name = Parameters(pattern)[i]
            /\ parameters[i].name = Open \/ parameters[i].values = Unset
                  \/ Proper(parameters[i].values)

SoundTable(table) ==
  \A id \in DOMAIN table : Sound(table[id]) /\ id = DefinitionId(table[id].pattern)

\* A function on 1..n is a list of its values.
LEMMA FunctionIsList ==
  ASSUME NEW n \in Nat, NEW f, f = [i \in 1 .. n |-> f[i]]
  PROVE  f \in Seq({f[i] : i \in 1 .. n}) /\ Len(f) = n
<1> DEFINE S == {f[i] : i \in 1 .. n}
<1>1. f \in [1 .. n -> S]
  OBVIOUS
<1> HIDE DEF S
<1>2. f \in Seq(S)
  BY <1>1, SeqDef
<1>3. Len(f) = n
  BY <1>1, <1>2, LenProperties
<1> QED BY <1>2, <1>3 DEF S

\* A definition that is parsed has parameters that can be asked for, each value once.
LEMMA DefinitionsAreSound ==
  ASSUME NEW pattern \in Seq(Segments), ParseParameterizedDefinition(pattern), NEW domains,
         ProperDomains(domains)
  PROVE  Sound(Definition(pattern, domains))
<1> DEFINE names == Parameters(pattern)
           n == Len(names)
           d == Definition(pattern, domains)
           parameters == d.parameters
<1>1. DOMAIN names = 1 .. n /\ n \in Nat /\ \A i \in 1 .. n : names[i] \in STRING
  BY NamesAreAligned DEF Parameters
<1>2. n # 0 /\ \A i \in 1 .. n : names[i] # Open => names[i] \in FixedDomains
  <2>1. n \in 1 .. MaxParameters
    BY DEF ParseParameterizedDefinition
  <2>2. n # 0
    <3>1. \A m \in 1 .. MaxParameters : m # 0
      BY ParametersAssumption
    <3> QED BY <2>1, <3>1
  <2>3. \A i \in DOMAIN names : names[i] # Open => names[i] \in FixedDomains
    BY DEF ParseParameterizedDefinition
  <2> QED BY <1>1, <2>2, <2>3
<1>3. Plain(pattern)
  BY DEF Plain, ParseParameterizedDefinition
<1>4. d.pattern = pattern
  BY DEF Definition
<1>5. /\ parameters = [i \in 1 .. n |-> parameters[i]]
      /\ \A i \in 1 .. n :
            /\ parameters[i].name = names[i]
            /\ parameters[i].values = IF names[i] = Open THEN Unset ELSE domains[names[i]]
  BY <1>1 DEF Definition
<1> HIDE DEF names, n, d
<1>6. Len(parameters) = n /\ DOMAIN parameters = 1 .. n
  BY <1>1, <1>5, FunctionIsList
<1>7. \A i \in 1 .. n : \/ parameters[i].name = Open \/ parameters[i].values = Unset
                        \/ Proper(parameters[i].values)
  BY <1>2, <1>5 DEF ProperDomains
<1>8. pattern \in Seq(Segments)
  OBVIOUS
<1> QED BY <1>1, <1>2, <1>3, <1>4, <1>5, <1>6, <1>7, <1>8 DEF Sound, names, n, d

\* Current tables hold sound definitions.
LEMMA TablesAreSound ==
  ASSUME NEW table, NEW domains, Table(table), Current(table, domains), ProperDomains(domains)
  PROVE  SoundTable(table)
<1> SUFFICES ASSUME NEW id \in DOMAIN table
             PROVE  Sound(table[id]) /\ id = DefinitionId(table[id].pattern)
  BY DEF SoundTable
<1> DEFINE pattern == table[id].pattern
<1>1. pattern \in Patterns /\ ParseParameterizedDefinition(pattern) /\ id = DefinitionId(pattern)
  BY DEF Table
<1>2. table[id] = Definition(pattern, domains)
  BY DEF Current
<1>3. pattern \in Seq(Segments)
  BY <1>1, SegmentsAssumption
<1> HIDE DEF pattern
<1>4. Sound(table[id])
  BY <1>1, <1>2, <1>3, DefinitionsAreSound
<1> QED BY <1>1, <1>4 DEF pattern

\* The definition lets its parameters have these values.
Fits(definition, x) ==
  /\ Len(x) = Len(definition.parameters)
  /\ \A i \in 1 .. Len(definition.parameters) : Allows(definition.parameters[i], x[i])

\* The arguments of an id say whether it is parameterized and has a wildcard.
LEMMA ArgumentsAre ==
  ASSUME NEW id \in Seq(Segments)
  PROVE  /\ Arguments(id) \in Seq(STRING) /\ DOMAIN Arguments(id) = 1 .. Len(Arguments(id))
         /\ Len(Arguments(id)) \in Nat
         /\ IsParameterized(id) <=> Len(Arguments(id)) # 0
         /\ HasWildcard(id) <=> \E i \in 1 .. Len(Arguments(id)) : Arguments(id)[i] = Wildcard
<1> DEFINE x == Arguments(id)
<1>1. x \in Seq(STRING) /\ DOMAIN x = 1 .. Len(x)
  BY NamesAreAligned DEF Arguments
<1>2. Len(x) \in Nat /\ (x = <<>> <=> Len(x) = 0)
  BY <1>1
<1>3. HasWildcard(id) <=> \E i \in 1 .. Len(x) : x[i] = Wildcard
  BY <1>1 DEF HasWildcard, ToSet
<1> QED BY <1>1, <1>2, <1>3 DEF IsParameterized

\* An id without wildcards is read if all its arguments are valid values.
LEMMA ReadConcretely ==
  ASSUME NEW id \in Seq(Segments)
  PROVE  /\ ParseVariableQuery(id, FALSE) <=>
               \A i \in 1 .. Len(Arguments(id)) : IsValidConcreteParameterValue(Arguments(id)[i])
         /\ ParseVariableQuery(id, FALSE) => ~HasWildcard(id)
<1> DEFINE x == Arguments(id)
<1>1. DOMAIN x = 1 .. Len(x)
  BY ArgumentsAre
<1>2. ~IsValidConcreteParameterValue(Wildcard)
  BY DEF IsValidConcreteParameterValue, InvalidValues
<1>3. ParseVariableQuery(id, FALSE) <=> \A v \in ToSet(x) : IsValidConcreteParameterValue(v)
  BY <1>2 DEF ParseVariableQuery
<1>4. ToSet(x) = {x[i] : i \in 1 .. Len(x)}
  BY <1>1 DEF ToSet
<1>5. ParseVariableQuery(id, FALSE) => ~HasWildcard(id)
  BY <1>2, <1>3 DEF HasWildcard
<1> QED BY <1>3, <1>4, <1>5

\* The finder finds an id exactly if its normalized id is defined and its arguments fit.
LEMMA ParameterizedAre ==
  ASSUME NEW id \in Seq(Segments), IsParameterized(id), ParseVariableQuery(id, FALSE),
         NEW table, SoundTable(table)
  PROVE  LET here == /\ NormalizedId(id) \in DOMAIN table
                     /\ Fits(table[NormalizedId(id)], Arguments(id))
         IN  /\ FindParameterizedDefinition(id, table) <=> here
             /\ FindParameterizedVariable(id, table) = IF here THEN Found(id) ELSE NoSuchVariable
<1> DEFINE n == NormalizedId(id)
           d == table[n]
           x == Arguments(id)
           here == n \in DOMAIN table /\ Fits(d, x)
<1>1. ~HasWildcard(id)
  BY ReadConcretely
<1>2. \A i \in 1 .. Len(x) : x[i] # Wildcard
  BY <1>1, ArgumentsAre
<1>3. n \in DOMAIN table => Sound(d) /\ n = DefinitionId(d.pattern)
  BY DEF SoundTable
<1>4. Sound(d) => DOMAIN d.parameters = 1 .. Len(d.parameters)
  BY DEF Sound
<1> HIDE DEF n, d, x
<1>5. FindParameterizedDefinition(id, table) <=> here
  BY <1>2, <1>3, <1>4 DEF FindParameterizedDefinition, Fits, n, d, x
<1>6. ASSUME here PROVE FindParameterizedVariable(id, table) = Found(id)
  <2>1. ValidateConcreteParameterBindings(id, d)
    BY <1>1, <1>3, <1>4, <1>6 DEF ValidateConcreteParameterBindings, Fits, n, x
  <2>2. InstanceOf(id, d.pattern)
    BY <1>3, <1>6 DEF InstanceOf, Fits, Sound, n, x
  <2>3. BuildConcreteVariableId(d.pattern, x) = id
    <3>1. d.pattern \in Seq(Segments)
      BY <1>3, <1>6 DEF Sound
    <3> QED BY <2>2, <3>1, BuildRestores DEF x
  <2> QED BY <1>1, <1>5, <1>6, <2>1, <2>3 DEF FindParameterizedVariable, n, d, x
<1>7. ~here => FindParameterizedVariable(id, table) = NoSuchVariable
  BY <1>1, <1>5 DEF FindParameterizedVariable
<1> QED BY <1>5, <1>6, <1>7 DEF n, d, x

\* An id that can be read is found as it is where it is of the type, and is of the wrong
\* type where it is of the other one.
LEMMA FindIs ==
  ASSUME NEW id \in Seq(Segments), NEW p, NEW t, NEW q, NEW u, SoundTable(t)
  PROVE  Find(id, p, t, q, u) =
             IF ~ParseVariableQuery(id, FALSE) THEN InvalidReference
             ELSE IF HasVariableOfType(id, p, t) THEN Found(id)
             ELSE IF HasVariableOfType(id, q, u) THEN WrongType
             ELSE NoSuchVariable
<1>1. Found(id) # NoSuchVariable
  BY DEF Found, NoSuchVariable, Error
<1>2. CASE ~ParseVariableQuery(id, FALSE)
  BY <1>2 DEF Find
<1>3. CASE ParseVariableQuery(id, FALSE) /\ IsParameterized(id)
  <2>1. FindParameterizedVariable(id, t) =
            IF HasVariableOfType(id, p, t) THEN Found(id) ELSE NoSuchVariable
    BY <1>3, ParameterizedAre DEF HasVariableOfType
  <2> QED BY <1>1, <1>3, <2>1 DEF Find
<1>4. CASE ParseVariableQuery(id, FALSE) /\ ~IsParameterized(id)
  BY <1>1, <1>4 DEF Find, HasVariableOfType
<1> QED BY <1>2, <1>3, <1>4

\* What is of one type is not of the other.
LEMMA TypesAreSeparate ==
  ASSUME NEW id \in Seq(Segments), NEW p, NEW t, NEW q, NEW u,
         (p \cup DOMAIN t) \cap (q \cup DOMAIN u) = {},
         HasVariableOfType(id, p, t)
  PROVE  ~HasVariableOfType(id, q, u)
BY DEF HasVariableOfType, FindParameterizedDefinition

-----------------------------------------------------------------------------
(* The invariant.                                                          *)

VariablesInv ==
  /\ VariablesTypeOK
  /\ OneTypePerId
  /\ FixedValuesCurrent
  /\ ProperDomains(definitions.domains)

\* The invariant makes both tables of patterns sound.
LEMMA InvTables ==
  ASSUME VariablesInv
  PROVE  SoundTable(definitions.numericPatterns) /\ SoundTable(definitions.stringPatterns)
BY TablesAreSound DEF VariablesInv, VariablesTypeOK, FixedValuesCurrent

\* The invariant makes the finders agree.
LEMMA InvFindersAgree ==
  ASSUME VariablesInv
  PROVE  FindersAgree
<1> SUFFICES ASSUME NEW id \in Ids
             PROVE  LET n == FindNumericVariable(definitions, id)
                        s == FindStringVariable(definitions, id)
                    IN  /\ n.outcome = "found" => n = Found(id) /\ s = WrongType
                        /\ s.outcome = "found" => s = Found(id) /\ n = WrongType
                        /\ GetQueryType(definitions, id) = "numeric" =>
                               FindVariable(definitions, id) = n /\ n # WrongType
                        /\ GetQueryType(definitions, id) = "string" =>
                               FindVariable(definitions, id) = s /\ s # WrongType
  BY DEF FindersAgree
<1> DEFINE n == FindNumericVariable(definitions, id)
           s == FindStringVariable(definitions, id)
           read == ParseVariableQuery(id, FALSE)
           number == HasVariableOfType(id, definitions.numeric, definitions.numericPatterns)
           string == HasVariableOfType(id, definitions.string, definitions.stringPatterns)
           type == GetQueryType(definitions, id)
<1>1. id \in Seq(Segments)
  BY SegmentsAssumption
<1>2. SoundTable(definitions.numericPatterns) /\ SoundTable(definitions.stringPatterns)
  BY InvTables
<1>3. n = IF ~read THEN InvalidReference ELSE IF number THEN Found(id)
          ELSE IF string THEN WrongType ELSE NoSuchVariable
  BY <1>1, <1>2, FindIs DEF FindNumericVariable
<1>4. s = IF ~read THEN InvalidReference ELSE IF string THEN Found(id)
          ELSE IF number THEN WrongType ELSE NoSuchVariable
  BY <1>1, <1>2, FindIs DEF FindStringVariable
<1>5. ~(number /\ string)
  <2>1. (definitions.numeric \cup DOMAIN definitions.numericPatterns) \cap
            (definitions.string \cup DOMAIN definitions.stringPatterns) = {}
    BY DEF VariablesInv, OneTypePerId, Numbers, Strings
  <2> QED BY <1>1, <2>1, TypesAreSeparate
<1>6. /\ FindVariable(definitions, id) =
             IF ~read THEN InvalidReference ELSE IF type = "numeric" THEN n
             ELSE IF type = "string" THEN s ELSE NoSuchVariable
  BY DEF FindVariable
<1>7. type = "numeric" => ~string
  BY DEF VariablesInv, OneTypePerId, Numbers, Strings, GetQueryType, HasVariableOfType,
         FindParameterizedDefinition
<1>8. type = "string" => ~number
  BY DEF VariablesInv, OneTypePerId, Numbers, Strings, GetQueryType, HasVariableOfType,
         FindParameterizedDefinition
<1>9. /\ Found(id).outcome = "found" /\ InvalidReference.outcome # "found"
      /\ WrongType.outcome # "found" /\ NoSuchVariable.outcome # "found"
      /\ WrongType # InvalidReference /\ WrongType # NoSuchVariable /\ WrongType # Found(id)
  BY DEF Found, InvalidReference, WrongType, NoSuchVariable, Error
<1> HIDE DEF n, s, read, number, string, type
<1>10. (n.outcome = "found" => n = Found(id) /\ s = WrongType)
       /\ (s.outcome = "found" => s = Found(id) /\ n = WrongType)
  BY <1>3, <1>4, <1>5, <1>9
<1>11. type = "numeric" => FindVariable(definitions, id) = n /\ n # WrongType
  BY <1>3, <1>6, <1>7, <1>9
<1>12. type = "string" => FindVariable(definitions, id) = s /\ s # WrongType
  BY <1>4, <1>6, <1>8, <1>9
<1> QED BY <1>10, <1>11, <1>12 DEF n, s, type

-----------------------------------------------------------------------------
(* Expanding a query.                                                      *)

\* A list with nothing twice has as many elements as it is long.
LEMMA AsManyAsLong ==
  ASSUME NEW S, NEW q \in Seq(S), IsInjective(q)
  PROVE  Cardinality(Range(q)) = Len(q)
<1>1. DOMAIN q = 1 .. Len(q) /\ Len(q) \in Nat
  OBVIOUS
<1>2. q \in Bijection(1 .. Len(q), Range(q))
  BY <1>1 DEF Bijection, Injection, Surjection, Range
<1>3. ExistsBijection(1 .. Len(q), Range(q))
  BY <1>2 DEF ExistsBijection
<1> QED BY <1>1, <1>3, FS_CountingElements

\* An instance of a definition that can be found.
LEMMA FoundIff ==
  ASSUME NEW id \in Seq(Segments), IsParameterized(id), NEW p, NEW t, NEW q, NEW u, SoundTable(t)
  PROVE  Find(id, p, t, q, u) = Found(id) <=>
             /\ ParseVariableQuery(id, FALSE)
             /\ NormalizedId(id) \in DOMAIN t
             /\ Fits(t[NormalizedId(id)], Arguments(id))
<1>1. /\ Found(id) # InvalidReference /\ Found(id) # NoSuchVariable /\ Found(id) # WrongType
  BY DEF Found, InvalidReference, WrongType, NoSuchVariable, Error
<1>2. CASE ~ParseVariableQuery(id, FALSE)
  BY <1>1, <1>2, FindIs
<1>3. CASE ParseVariableQuery(id, FALSE)
  <2>1. HasVariableOfType(id, p, t) <=>
            NormalizedId(id) \in DOMAIN t /\ Fits(t[NormalizedId(id)], Arguments(id))
    BY <1>3, ParameterizedAre DEF HasVariableOfType
  <2> QED BY <1>1, <1>3, <2>1, FindIs
<1> QED BY <1>2, <1>3

AllValid(x) == \A i \in 1 .. Len(x) : IsValidConcreteParameterValue(x[i])

\* What is built of a definition with values that are valid and that it lets its parameters
\* have can be found, and only that.
LEMMA BuiltIsFound ==
  ASSUME NEW t, SoundTable(t), NEW n \in DOMAIN t, NEW x \in Seq(STRING), Fits(t[n], x),
         AllValid(x),
         NEW p, NEW q, NEW u
  PROVE  LET built == BuildConcreteVariableId(t[n].pattern, x)
         IN  /\ built \in Seq(Segments) /\ IsParameterized(built) /\ ~HasWildcard(built)
             /\ NormalizedId(built) = n /\ Arguments(built) = x
             /\ Find(built, p, t, q, u) = Found(built)
<1> DEFINE pattern == t[n].pattern
           built == BuildConcreteVariableId(pattern, x)
<1>1. /\ pattern \in Seq(Segments) /\ Plain(pattern) /\ n = DefinitionId(pattern)
      /\ Len(x) = Len(Parameters(pattern)) /\ Len(x) # 0
  BY DEF SoundTable, Sound, Fits
<1> HIDE DEF pattern
<1>2. built \in Seq(Segments) /\ Arguments(built) = x /\ InstanceOf(built, pattern)
  BY <1>1, BuildIs
<1> HIDE DEF built
<1>3. IsParameterized(built)
  BY <1>1, <1>2, ArgumentsAre
<1>4. ParseVariableQuery(built, FALSE) /\ ~HasWildcard(built)
  BY <1>2, ReadConcretely DEF AllValid
<1>5. NormalizedId(built) = n
  BY <1>1, <1>2 DEF InstanceOf
<1>6. Find(built, p, t, q, u) = Found(built)
  BY <1>2, <1>3, <1>4, <1>5, FoundIff
<1> QED BY <1>2, <1>3, <1>4, <1>5, <1>6 DEF built, pattern

\* What one parameter is asked for and may be.
Askable(parameter, value) ==
  IF value = Wildcard THEN parameter.name # Open /\ parameter.values # Unset
  ELSE Allows(parameter, value)

ValueChoices(query, definition) ==
  [i \in DOMAIN definition.parameters |->
      IF Arguments(query)[i] = Wildcard
      THEN definition.parameters[i].values ELSE <<Arguments(query)[i]>>]

\* The instances of a list of values each.
Instances(pattern, chosen) == [n \in DOMAIN chosen |-> BuildConcreteVariableId(pattern, chosen[n])]

\* A query that is expanded asks for what a definition lets its parameters be.
LEMMA ExpandedIs ==
  ASSUME NEW query \in Seq(Segments), NEW table, SoundTable(table),
         FindParameterizedVariables(query, table).error = "none"
  PROVE  /\ ParseVariableQuery(query, TRUE) /\ IsParameterized(query)
         /\ NormalizedId(query) \in DOMAIN table
         /\ LET d == table[NormalizedId(query)]
            IN  /\ Len(Arguments(query)) = Len(d.parameters)
                /\ \A i \in 1 .. Len(d.parameters) : Askable(d.parameters[i], Arguments(query)[i])
                /\ FindParameterizedVariables(query, table).ids =
                       Instances(d.pattern, Selections(ValueChoices(query, d)))
<1> DEFINE answer == FindParameterizedVariables(query, table)
           d == table[NormalizedId(query)]
           x == Arguments(query)
           Error1(i) ==
              LET parameter == d.parameters[i]
                  value == x[i]
              IN  IF value = Wildcard /\ parameter.name = Open THEN "invalid reference"
                  ELSE IF value = Wildcard /\ parameter.values = Unset THEN "no such variable"
                  ELSE IF value # Wildcard /\ ~Allows(parameter, value) THEN "no such variable"
                  ELSE "none"
           wrong == {i \in DOMAIN d.parameters : Error1(i) # "none"}
           first == CHOOSE i \in wrong : \A j \in wrong : i <= j
           chosen == Selections(ValueChoices(query, d))
<1>1. Refused("invalid reference").error # "none" /\ Refused("no such variable").error # "none"
  BY DEF Refused
<1>2. /\ ParseVariableQuery(query, TRUE) /\ IsParameterized(query)
      /\ NormalizedId(query) \in DOMAIN table
      /\ answer = GenerateParameterizedInstances(query, d)
  BY <1>1 DEF FindParameterizedVariables
<1>3. Sound(d) /\ NormalizedId(query) = DefinitionId(d.pattern)
  BY <1>2 DEF SoundTable
<1>4. DOMAIN d.parameters = 1 .. Len(d.parameters) /\ Len(d.parameters) \in Nat
  BY <1>3 DEF Sound
<1>5. answer = IF Len(x) # Len(d.parameters) THEN Refused("no such variable")
               ELSE IF wrong # {} THEN Refused(Error1(first))
               ELSE [error |-> "none", ids |-> Instances(d.pattern, chosen)]
  BY <1>2, <1>3 DEF GenerateParameterizedInstances, ValueChoices, Instances
<1> HIDE DEF answer, d, x, chosen
<1>6. answer.error = "none"
  BY DEF answer
<1>7. Len(x) = Len(d.parameters)
  BY <1>1, <1>5, <1>6
<1>8. wrong = {}
  <2> SUFFICES ASSUME wrong # {} PROVE FALSE
    OBVIOUS
  <2> HIDE DEF Error1
  <2>1. wrong \subseteq Nat
    BY <1>4
  <2>2. \E i \in wrong : \A j \in wrong : i <= j
    <3> HIDE DEF wrong
    <3> QED BY <2>1, LeastExists
  <2>3. first \in wrong
    <3> HIDE DEF wrong
    <3> QED BY <2>2
  <2> HIDE DEF first
  <2>4. Error1(first) # "none"
    BY <2>3
  <2>5. answer = Refused(Error1(first))
    BY <1>5, <1>7
  <2> QED BY <1>6, <2>4, <2>5 DEF Refused
<1>9. \A i \in 1 .. Len(d.parameters) : Askable(d.parameters[i], x[i])
  <2>1. \A i \in 1 .. Len(d.parameters) : Error1(i) = "none"
    BY <1>4, <1>8
  <2> QED BY <2>1 DEF Askable
<1>10. answer.ids = Instances(d.pattern, chosen)
  BY <1>5, <1>7, <1>8
<1> QED BY <1>2, <1>7, <1>9, <1>10 DEF answer, d, x, chosen

\* Lists of values give as many instances, each of them once.
LEMMA InstancesDiffer ==
  ASSUME NEW pattern \in Seq(Segments), Plain(pattern), NEW chosen \in Seq(Seq(STRING)),
         IsInjective(chosen), \A x \in Range(chosen) : Len(x) = Len(Parameters(pattern))
  PROVE  LET ids == Instances(pattern, chosen)
         IN  /\ ids \in Seq(Seq(Segments)) /\ Len(ids) = Len(chosen) /\ IsInjective(ids)
             /\ \A id : id \in Range(ids) <=>
                   \E x \in Range(chosen) : id = BuildConcreteVariableId(pattern, x)
<1> DEFINE ids == Instances(pattern, chosen)
           L == Len(chosen)
<1>1. L \in Nat /\ DOMAIN chosen = 1 .. L /\ \A n \in 1 .. L : chosen[n] \in Seq(STRING)
  OBVIOUS
<1>2. ids = [n \in 1 .. L |-> BuildConcreteVariableId(pattern, chosen[n])]
  BY <1>1 DEF Instances
<1>3. ASSUME NEW n \in 1 .. L
      PROVE  ids[n] \in Seq(Segments) /\ Arguments(ids[n]) = chosen[n]
  <2>1. chosen[n] \in Range(chosen)
    BY <1>1 DEF Range
  <2>2. chosen[n] \in Seq(STRING) /\ Len(chosen[n]) = Len(Parameters(pattern))
    BY <1>1, <2>1
  <2> DEFINE x == chosen[n]
  <2>3. x \in Seq(STRING) /\ Len(x) = Len(Parameters(pattern))
    BY <2>2
  <2>4. ids[n] = BuildConcreteVariableId(pattern, x)
    BY <1>2
  <2> HIDE DEF x, ids
  <2>5. ids[n] \in Seq(Segments) /\ Arguments(ids[n]) = x
    BY <2>3, <2>4, BuildIs
  <2> QED BY <2>5 DEF x
<1>4. \A id : id \in Range(ids) <=>
         \E x \in Range(chosen) : id = BuildConcreteVariableId(pattern, x)
  BY <1>1, <1>2 DEF Range
<1>5. DOMAIN ids = 1 .. L
  BY <1>2
<1>6. ids = [n \in 1 .. L |-> ids[n]]
  BY <1>2
<1> HIDE DEF ids, L
<1>7. ids \in Seq(Seq(Segments)) /\ Len(ids) = L
  <2>1. ids \in [1 .. L -> Seq(Segments)]
    BY <1>3, <1>6
  <2>2. ids \in Seq(Seq(Segments))
    BY <1>1, <2>1, SeqDef
  <2> QED BY <1>1, <2>1, <2>2, LenProperties
<1>8. IsInjective(ids)
  <2> SUFFICES ASSUME NEW i \in 1 .. L, NEW j \in 1 .. L, ids[i] = ids[j] PROVE i = j
    BY <1>5 DEF IsInjective
  <2>1. chosen[i] = chosen[j]
    BY <1>3
  <2> QED BY <1>1, <2>1 DEF IsInjective
<1> QED BY <1>4, <1>7, <1>8 DEF ids, L

\* A choice of one value.
LEMMA OneChoice ==
  ASSUME NEW S, NEW v \in S
  PROVE  <<v>> \in Seq(S) /\ IsInjective(<<v>>) /\ \A w : w \in Range(<<v>>) <=> w = v
<1>1. <<v>> \in Seq(S) /\ DOMAIN <<v>> = {1} /\ <<v>>[1] = v
  OBVIOUS
<1> QED BY <1>1 DEF IsInjective, Range

\* The choices of a query are the values it asks for that the definition allows, each once.
LEMMA ChoicesAre ==
  ASSUME NEW query \in Seq(Segments), NEW d, Sound(d), Len(Arguments(query)) = Len(d.parameters),
         \A i \in 1 .. Len(d.parameters) : Askable(d.parameters[i], Arguments(query)[i])
  PROVE  LET choices == ValueChoices(query, d)
         IN  /\ choices \in Seq(Seq(STRING)) /\ Len(choices) = Len(d.parameters)
             /\ \A i \in 1 .. Len(choices) : IsInjective(choices[i])
             /\ \A i \in 1 .. Len(choices) : \A v :
                   v \in Range(choices[i]) <=>
                       /\ Arguments(query)[i] \in {Wildcard, v}
                       /\ Allows(d.parameters[i], v)
             /\ \A i \in 1 .. Len(choices) : \A v \in Range(choices[i]) :
                   v = Arguments(query)[i] \/ IsValidConcreteParameterValue(v)
<1> DEFINE choices == ValueChoices(query, d)
           L == Len(d.parameters)
           x == Arguments(query)
<1>1. DOMAIN d.parameters = 1 .. L /\ L \in Nat
  BY DEF Sound
<1>2. \A i \in 1 .. L : x[i] \in STRING
  BY ArgumentsAre
<1>3. choices = [i \in 1 .. L |-> IF x[i] = Wildcard THEN d.parameters[i].values ELSE <<x[i]>>]
  BY <1>1 DEF ValueChoices
<1>4. ASSUME NEW i \in 1 .. L
      PROVE  /\ choices[i] \in Seq(STRING) /\ IsInjective(choices[i])
             /\ \A v : v \in Range(choices[i]) <=>
                   x[i] \in {Wildcard, v} /\ Allows(d.parameters[i], v)
             /\ \A v \in Range(choices[i]) : v = x[i] \/ IsValidConcreteParameterValue(v)
  <2> DEFINE parameter == d.parameters[i]
  <2>1. Askable(parameter, x[i])
    OBVIOUS
  <2>2. parameter.name = Open \/ parameter.values = Unset \/ Proper(parameter.values)
    BY DEF Sound
  <2>3. choices[i] = IF x[i] = Wildcard THEN parameter.values ELSE <<x[i]>>
    BY <1>3
  <2> HIDE DEF choices, x, parameter, L
  <2>4. CASE x[i] = Wildcard
    <3>1. parameter.name # Open /\ parameter.values # Unset /\ Proper(parameter.values)
      BY <2>1, <2>2, <2>4 DEF Askable
    <3>2. \A v : Allows(parameter, v) <=> v \in Range(parameter.values)
      BY <3>1 DEF Allows, ToSet, Range
    <3> QED BY <2>3, <2>4, <3>1, <3>2 DEF Proper, parameter
  <2>5. CASE x[i] # Wildcard
    <3>1. Allows(parameter, x[i]) /\ choices[i] = <<x[i]>>
      BY <2>1, <2>3, <2>5 DEF Askable
    <3>2. /\ choices[i] \in Seq(STRING) /\ IsInjective(choices[i])
          /\ \A v : v \in Range(choices[i]) <=> v = x[i]
      BY <1>2, <3>1, OneChoice
    <3> QED BY <2>5, <3>1, <3>2 DEF parameter
  <2> QED BY <2>4, <2>5
<1>5. choices = [i \in 1 .. L |-> choices[i]]
  BY <1>3
<1> HIDE DEF choices, x
<1>6. choices \in Seq(Seq(STRING)) /\ Len(choices) = L
  <2> HIDE DEF L
  <2>1. choices \in [1 .. L -> Seq(STRING)]
    BY <1>4, <1>5
  <2>2. choices \in Seq(Seq(STRING))
    BY <1>1, <2>1, SeqDef
  <2> QED BY <1>1, <2>1, <2>2, LenProperties
<1> QED BY <1>4, <1>6 DEF choices, x

\* A query expands to the ids that match it and can be found, each once.
LEMMA ExpandsToFound ==
  ASSUME NEW query \in Seq(Segments), NEW t, SoundTable(t), NEW p, NEW q, NEW u,
         FindParameterizedVariables(query, t).error = "none"
  PROVE  LET ids == FindParameterizedVariables(query, t).ids
         IN  /\ ids \in Seq(Seq(Segments)) /\ IsInjective(ids)
             /\ \A id \in Seq(Segments) :
                   id \in Range(ids) <=>
                       QueryMatchesConcreteId(query, id) /\ Find(id, p, t, q, u) = Found(id)
<1> DEFINE n == NormalizedId(query)
           d == t[n]
           choices == ValueChoices(query, d)
           chosen == Selections(choices)
           ids == FindParameterizedVariables(query, t).ids
           asked == Arguments(query)
<1>1. /\ ParseVariableQuery(query, TRUE) /\ IsParameterized(query) /\ n \in DOMAIN t
      /\ Len(asked) = Len(d.parameters)
      /\ \A i \in 1 .. Len(d.parameters) : Askable(d.parameters[i], asked[i])
      /\ ids = Instances(d.pattern, chosen)
  BY ExpandedIs
<1>2. /\ Sound(d) /\ n = DefinitionId(d.pattern)
      /\ d.pattern \in Seq(Segments) /\ Plain(d.pattern)
      /\ Len(d.parameters) = Len(Parameters(d.pattern)) /\ Len(d.parameters) \in Nat
  BY <1>1 DEF SoundTable, Sound
<1> HIDE DEF d, n
<1>3. /\ choices \in Seq(Seq(STRING)) /\ Len(choices) = Len(d.parameters)
      /\ \A i \in 1 .. Len(choices) : IsInjective(choices[i])
      /\ \A i \in 1 .. Len(choices) : \A v :
            v \in Range(choices[i]) <=> asked[i] \in {Wildcard, v} /\ Allows(d.parameters[i], v)
      /\ \A i \in 1 .. Len(choices) : \A v \in Range(choices[i]) :
            v = asked[i] \/ IsValidConcreteParameterValue(v)
  BY <1>1, <1>2, ChoicesAre
<1> HIDE DEF choices
<1>4. /\ chosen \in Seq(Seq(STRING)) /\ IsInjective(chosen)
      /\ \A y : y \in Range(chosen) <=> Selects(y, STRING, choices, Len(choices))
  BY <1>3, SelectionsAre
<1> HIDE DEF chosen
<1>5. \A x \in Range(chosen) : Len(x) = Len(Parameters(d.pattern))
  BY <1>2, <1>3, <1>4 DEF Selects
<1>6. /\ ids \in Seq(Seq(Segments)) /\ IsInjective(ids)
      /\ \A id : id \in Range(ids) <=>
            \E x \in Range(chosen) : id = BuildConcreteVariableId(d.pattern, x)
  BY <1>1, <1>2, <1>4, <1>5, InstancesDiffer
<1> HIDE DEF ids
<1>7. \A i \in 1 .. Len(asked) : asked[i] # Wildcard => IsValidConcreteParameterValue(asked[i])
  <2>1. DOMAIN asked = 1 .. Len(asked)
    BY ArgumentsAre
  <2>2. \A i \in 1 .. Len(asked) : asked[i] \in ToSet(asked)
    BY <2>1 DEF ToSet
  <2> QED BY <1>1, <2>2 DEF ParseVariableQuery
<1>8. ~IsValidConcreteParameterValue(Wildcard)
  BY DEF IsValidConcreteParameterValue, InvalidValues
<1>9. ASSUME NEW id \in Seq(Segments), id \in Range(ids)
      PROVE  QueryMatchesConcreteId(query, id) /\ Find(id, p, t, q, u) = Found(id)
  <2>1. PICK x \in Range(chosen) : id = BuildConcreteVariableId(d.pattern, x)
    BY <1>6, <1>9
  <2>2. /\ x \in Seq(STRING) /\ Len(x) = Len(choices)
        /\ \A i \in 1 .. Len(x) : x[i] \in Range(choices[i])
    BY <1>4, <2>1 DEF Selects
  <2>3. \A i \in 1 .. Len(x) : asked[i] \in {Wildcard, x[i]} /\ Allows(d.parameters[i], x[i])
    BY <1>3, <2>2
  <2>4. Fits(d, x)
    BY <1>3, <2>2, <2>3 DEF Fits
  <2>5. ASSUME NEW i \in 1 .. Len(x) PROVE IsValidConcreteParameterValue(x[i])
    <3>1. CASE x[i] = asked[i]
      <4>1. asked[i] # Wildcard \/ x[i] = Wildcard
        BY <3>1
      <4>2. x[i] \in STRING /\ i \in 1 .. Len(asked)
        BY <1>1, <1>3, <2>2
      <4>3. asked[i] = Wildcard =>
                Allows(d.parameters[i], Wildcard) /\ Askable(d.parameters[i], Wildcard)
        BY <1>1, <2>3, <3>1, <4>2
      <4>4. asked[i] # Wildcard
        <5>1. SUFFICES ASSUME asked[i] = Wildcard PROVE FALSE
          OBVIOUS
        <5>2. /\ d.parameters[i].name # Open /\ d.parameters[i].values # Unset
              /\ Wildcard \in ToSet(d.parameters[i].values)
          BY <4>3, <5>1 DEF Askable, Allows
        <5>3. Proper(d.parameters[i].values)
          BY <1>1, <1>2, <4>2, <5>2 DEF Sound
        <5> QED BY <1>8, <5>2, <5>3 DEF Proper, ToSet, Range
      <4> QED BY <1>7, <3>1, <4>2, <4>4
    <3>2. CASE x[i] # asked[i]
      BY <1>3, <2>2, <3>2
    <3> QED BY <3>1, <3>2
  <2>6. /\ id \in Seq(Segments) /\ IsParameterized(id) /\ ~HasWildcard(id)
        /\ NormalizedId(id) = n /\ Arguments(id) = x
        /\ Find(id, p, t, q, u) = Found(id)
    <3>1. AllValid(x)
      BY <2>5 DEF AllValid
    <3>2. Fits(t[n], x) /\ id = BuildConcreteVariableId(t[n].pattern, x)
      BY <2>1, <2>4 DEF d
    <3>3. n \in DOMAIN t /\ x \in Seq(STRING)
      BY <1>1, <2>2
    <3> DEFINE built == BuildConcreteVariableId(t[n].pattern, x)
    <3>4. /\ built \in Seq(Segments) /\ IsParameterized(built) /\ ~HasWildcard(built)
          /\ NormalizedId(built) = n /\ Arguments(built) = x
          /\ Find(built, p, t, q, u) = Found(built)
      BY <3>1, <3>2, <3>3, BuiltIsFound
    <3> HIDE DEF built
    <3>5. id = built
      BY <3>2 DEF built
    <3> QED BY <3>4, <3>5
  <2>7. QueryMatchesConcreteId(query, id)
    <3>1. DOMAIN asked = 1 .. Len(asked) /\ Len(asked) = Len(x)
      BY <1>1, <1>3, <2>2, ArgumentsAre
    <3> QED BY <1>1, <2>3, <2>6, <3>1 DEF QueryMatchesConcreteId, n
  <2> QED BY <2>6, <2>7
<1>10. ASSUME NEW id \in Seq(Segments), QueryMatchesConcreteId(query, id),
              Find(id, p, t, q, u) = Found(id)
       PROVE  id \in Range(ids)
  <2> DEFINE x == Arguments(id)
  <2>1. /\ IsParameterized(id) /\ NormalizedId(id) = n /\ Len(asked) = Len(x)
        /\ \A i \in 1 .. Len(x) : asked[i] \in {Wildcard, x[i]}
    <3>1. DOMAIN asked = 1 .. Len(asked)
      BY ArgumentsAre
    <3> QED BY <1>10, <3>1 DEF QueryMatchesConcreteId, n
  <2>2. Fits(d, x)
    <3>1. Fits(t[NormalizedId(id)], x)
      BY <1>10, <2>1, FoundIff
    <3> QED BY <2>1, <3>1 DEF d
  <2>3. x \in Seq(STRING)
    BY ArgumentsAre
  <2> HIDE DEF x
  <2>4. Selects(x, STRING, choices, Len(choices))
    BY <1>1, <1>3, <2>1, <2>2, <2>3 DEF Selects, Fits
  <2>5. InstanceOf(id, d.pattern)
    BY <1>2, <2>1, <2>2 DEF InstanceOf, Fits, x
  <2>6. id = BuildConcreteVariableId(d.pattern, x)
    BY <1>2, <2>5, BuildRestores DEF x
  <2> QED BY <1>4, <1>6, <2>4, <2>6
<1> QED BY <1>6, <1>9, <1>10 DEF ids

\* The invariant makes the expansion of queries exact.
LEMMA InvQueriesExpand ==
  ASSUME VariablesInv
  PROVE  QueriesExpand
<1> SUFFICES ASSUME NEW query \in Ids,
                    FindParameterizedVariables(query, definitions.numericPatterns).error = "none"
             PROVE  LET ids == FindParameterizedVariables(query, definitions.numericPatterns).ids
                    IN  /\ Cardinality(ToSet(ids)) = Len(ids)
                        /\ \A id \in ToSet(ids) \cup Ids :
                              id \in ToSet(ids) <=>
                                  /\ QueryMatchesConcreteId(query, id)
                                  /\ FindNumericVariable(definitions, id) = Found(id)
  BY DEF QueriesExpand
<1> DEFINE ids == FindParameterizedVariables(query, definitions.numericPatterns).ids
<1>1. query \in Seq(Segments) /\ Ids \subseteq Seq(Segments)
  BY SegmentsAssumption
<1>2. SoundTable(definitions.numericPatterns)
  BY InvTables
<1>3. /\ ids \in Seq(Seq(Segments)) /\ IsInjective(ids)
      /\ \A id \in Seq(Segments) :
            id \in Range(ids) <=>
                /\ QueryMatchesConcreteId(query, id)
                /\ FindNumericVariable(definitions, id) = Found(id)
  BY <1>1, <1>2, ExpandsToFound DEF FindNumericVariable
<1> HIDE DEF ids
<1>4. ToSet(ids) = Range(ids)
  BY DEF ToSet, Range
<1>5. Cardinality(Range(ids)) = Len(ids)
  BY <1>3, AsManyAsLong
<1>6. Range(ids) \subseteq Seq(Segments)
  BY <1>3, ElementsAreMembers
<1> QED BY <1>1, <1>3, <1>4, <1>5, <1>6 DEF ids

-----------------------------------------------------------------------------
(* The table of variables.                                                 *)

\* The values of some arguments.
ValuesOf(y) == [i \in 1 .. Len(y) |-> y[i].of]

Row(pattern, y) ==
  [i \in DOMAIN pattern |->
      IF IsPlaceholder(pattern[i]) THEN y[Len(Taken(pattern, "placeholder")[i])] ELSE pattern[i]]

\* What the table lists a parameter as.
Listed(parameter) ==
  IF parameter.name = Open THEN <<Placeholder(Open)>>
  ELSE IF parameter.values = Unset THEN <<>>
  ELSE [i \in DOMAIN parameter.values |-> Argument(parameter.values[i])]

\* A dump has a row for each selection of listed values.
LEMMA DumpedAre ==
  ASSUME NEW d
  PROVE  LET chosen == Selections([i \in DOMAIN d.parameters |-> Listed(d.parameters[i])])
         IN  Dumped(d) = [n \in DOMAIN chosen |-> Row(d.pattern, chosen[n])]
BY DEF Dumped, Listed, Row

\* Arguments and their values are one to one.
LEMMA ValuesAre ==
  ASSUME NEW y \in Seq(Segments), \A i \in 1 .. Len(y) : y[i].kind = "argument"
  PROVE  /\ ValuesOf(y) \in Seq(STRING) /\ Len(ValuesOf(y)) = Len(y)
         /\ \A i \in 1 .. Len(y) : y[i] = Argument(ValuesOf(y)[i])
<1> DEFINE x == ValuesOf(y)
<1>1. Len(y) \in Nat /\ \A i \in 1 .. Len(y) : y[i] \in Segments
  OBVIOUS
<1>2. x = [i \in 1 .. Len(y) |-> y[i].of]
  BY DEF ValuesOf
<1>3. \A i \in 1 .. Len(y) : x[i] \in STRING /\ y[i] = Argument(x[i])
  BY <1>1, <1>2 DEF Segments, Argument
<1> HIDE DEF x
<1>4. x \in [1 .. Len(y) -> STRING]
  BY <1>2, <1>3
<1>5. x \in Seq(STRING)
  BY <1>1, <1>4, SeqDef
<1>6. Len(x) = Len(y)
  BY <1>1, <1>4, <1>5, LenProperties
<1> QED BY <1>3, <1>5, <1>6 DEF x

\* A row of the table is the id that is built with its values.
LEMMA RowIsBuilt ==
  ASSUME NEW pattern \in Seq(Segments), NEW y \in Seq(Segments),
         \A i \in 1 .. Len(y) : y[i].kind = "argument", Len(y) = Len(Parameters(pattern))
  PROVE  Row(pattern, y) = BuildConcreteVariableId(pattern, ValuesOf(y))
<1> DEFINE T == Taken(pattern, "placeholder")
           x == ValuesOf(y)
<1>1. DOMAIN pattern = 1 .. Len(pattern)
  OBVIOUS
<1>2. \A i \in 1 .. Len(y) : y[i] = Argument(x[i])
  BY ValuesAre
<1>3. \A i \in 1 .. Len(pattern) : pattern[i].kind = "placeholder" => Len(T[i]) \in 1 .. Len(y)
  BY NamesAreAligned DEF Parameters
<1> HIDE DEF T, x
<1>4. \A i \in 1 .. Len(pattern) :
          pattern[i].kind = "placeholder" => y[Len(T[i])] = Argument(x[Len(T[i])])
  BY <1>2, <1>3
<1> QED BY <1>1, <1>4 DEF Row, BuildConcreteVariableId, IsPlaceholder, T, x

\* A parameter that is not open is listed with its values.
LEMMA ListedAre ==
  ASSUME NEW parameter, parameter.name # Open,
         parameter.values = Unset \/ Proper(parameter.values)
  PROVE  LET listed == Listed(parameter)
         IN  /\ listed \in Seq(Segments) /\ IsInjective(listed)
             /\ \A e : e \in Range(listed) => e.kind = "argument" /\ e = Argument(e.of)
             /\ \A v : Argument(v) \in Range(listed) <=> Allows(parameter, v)
             /\ \A v : Allows(parameter, v) => IsValidConcreteParameterValue(v)
<1> DEFINE listed == Listed(parameter)
           values == parameter.values
<1>1. \A v, w : Argument(v).kind = "argument" /\ Argument(v).of = v /\
                (Argument(v) = Argument(w) => v = w)
  <2>1. \A v : Argument(v).kind = "argument" /\ Argument(v).of = v
    BY DEF Argument
  <2> QED BY <2>1
<1>2. \A v \in STRING : Argument(v) \in Segments
  BY DEF Argument, Segments
<1>3. CASE values = Unset
  <2>1. listed = <<>>
    BY <1>3 DEF Listed
  <2>2. <<>> \in Seq(Segments) /\ IsInjective(<<>>) /\ Range(<<>>) = {}
    BY DEF IsInjective, Range
  <2>3. \A v : ~Allows(parameter, v)
    BY <1>3 DEF Allows
  <2> QED BY <2>1, <2>2, <2>3
<1>4. CASE values # Unset
  <2>1. /\ values \in Seq(STRING) /\ IsInjective(values)
        /\ \A v \in Range(values) : IsValidConcreteParameterValue(v)
    BY <1>4 DEF Proper
  <2>2. /\ DOMAIN values = 1 .. Len(values) /\ Len(values) \in Nat
        /\ \A i \in 1 .. Len(values) : values[i] \in STRING
    BY <2>1
  <2>3. listed = [i \in 1 .. Len(values) |-> Argument(values[i])]
    BY <1>4, <2>2 DEF Listed
  <2>4. \A v : Allows(parameter, v) <=> \E i \in 1 .. Len(values) : values[i] = v
    BY <1>4, <2>2 DEF Allows, ToSet
  <2>5. \A e : e \in Range(listed) <=> \E i \in 1 .. Len(values) : e = Argument(values[i])
    BY <2>3 DEF Range
  <2> HIDE DEF listed, values
  <2>6. listed \in Seq(Segments)
    <3>1. listed \in [1 .. Len(values) -> Segments]
      BY <1>2, <2>2, <2>3
    <3> QED BY <2>2, <3>1, SeqDef
  <2>7. IsInjective(listed)
    BY <1>1, <2>1, <2>2, <2>3 DEF IsInjective
  <2>8. \A e : e \in Range(listed) => e.kind = "argument" /\ e = Argument(e.of)
    BY <1>1, <2>5
  <2>9. \A v : Argument(v) \in Range(listed) <=> Allows(parameter, v)
    BY <1>1, <2>4, <2>5
  <2>10. \A v : Allows(parameter, v) => IsValidConcreteParameterValue(v)
    BY <2>1, <2>2, <2>4 DEF Range
  <2> QED BY <2>6, <2>7, <2>8, <2>9, <2>10 DEF listed
<1> QED BY <1>3, <1>4

\* A definition without open parameters is dumped as the ids that can be found, each once.
LEMMA DumpsFound ==
  ASSUME NEW t, SoundTable(t), NEW n \in DOMAIN t,
         Open \notin ToSet(Parameters(t[n].pattern)), NEW p, NEW q, NEW u
  PROVE  LET rows == Dumped(t[n])
         IN  /\ rows \in Seq(Seq(Segments)) /\ IsInjective(rows)
             /\ \A other \in Seq(Segments) :
                   other \in Range(rows) <=>
                       /\ IsParameterized(other) /\ NormalizedId(other) = n
                       /\ Find(other, p, t, q, u) = Found(other)
<1> DEFINE d == t[n]
           L == Len(d.parameters)
           choices == [i \in DOMAIN d.parameters |-> Listed(d.parameters[i])]
           chosen == Selections(choices)
           rows == Dumped(d)
<1>1. /\ Sound(d) /\ n = DefinitionId(d.pattern)
      /\ d.pattern \in Seq(Segments) /\ Plain(d.pattern)
      /\ DOMAIN d.parameters = 1 .. L /\ L \in Nat \ {0} /\ L = Len(Parameters(d.pattern))
  BY DEF SoundTable, Sound
<1>2. ASSUME NEW i \in 1 .. L
      PROVE  /\ d.parameters[i].name # Open
             /\ d.parameters[i].values = Unset \/ Proper(d.parameters[i].values)
  <2>1. Parameters(d.pattern)[i] # Open
    <3>1. DOMAIN Parameters(d.pattern) = 1 .. L
      BY <1>1, NamesAreAligned DEF Parameters
    <3> QED BY <3>1 DEF ToSet
  <2> QED BY <1>1, <2>1 DEF Sound
<1>3. rows = [k \in DOMAIN chosen |-> Row(d.pattern, chosen[k])]
  BY DumpedAre
<1>4. choices = [i \in 1 .. L |-> Listed(d.parameters[i])]
  BY <1>1
<1> HIDE DEF choices, d, rows
<1>5. ASSUME NEW i \in 1 .. L
      PROVE  /\ choices[i] \in Seq(Segments) /\ IsInjective(choices[i])
             /\ \A e : e \in Range(choices[i]) => e.kind = "argument" /\ e = Argument(e.of)
             /\ \A v : Argument(v) \in Range(choices[i]) <=> Allows(d.parameters[i], v)
             /\ \A v : Allows(d.parameters[i], v) => IsValidConcreteParameterValue(v)
  <2> DEFINE parameter == d.parameters[i]
  <2>1. parameter.name # Open /\ (parameter.values = Unset \/ Proper(parameter.values))
    BY <1>2
  <2>2. choices[i] = Listed(parameter)
    BY <1>4
  <2> HIDE DEF parameter, L
  <2>3. /\ choices[i] \in Seq(Segments) /\ IsInjective(choices[i])
        /\ \A e : e \in Range(choices[i]) => e.kind = "argument" /\ e = Argument(e.of)
        /\ \A v : Argument(v) \in Range(choices[i]) <=> Allows(parameter, v)
        /\ \A v : Allows(parameter, v) => IsValidConcreteParameterValue(v)
    BY <2>1, <2>2, ListedAre
  <2> QED BY <2>3 DEF parameter
<1> HIDE DEF L
<1>6. choices \in Seq(Seq(Segments)) /\ Len(choices) = L
  <2>1. choices \in [1 .. L -> Seq(Segments)]
    BY <1>4, <1>5
  <2>2. choices \in Seq(Seq(Segments))
    BY <1>1, <2>1, SeqDef
  <2> QED BY <1>1, <2>1, <2>2, LenProperties
<1>7. /\ chosen \in Seq(Seq(Segments)) /\ IsInjective(chosen)
      /\ \A y : y \in Range(chosen) <=> Selects(y, Segments, choices, L)
  BY <1>5, <1>6, SelectionsAre
<1> HIDE DEF chosen
<1>8. ASSUME NEW y \in Range(chosen)
      PROVE  /\ y \in Seq(Segments) /\ Len(y) = L
             /\ \A i \in 1 .. Len(y) : y[i].kind = "argument"
             /\ ValuesOf(y) \in Seq(STRING)
             /\ \A i \in 1 .. L : y[i] = Argument(ValuesOf(y)[i])
             /\ Fits(d, ValuesOf(y)) /\ AllValid(ValuesOf(y))
             /\ Row(d.pattern, y) = BuildConcreteVariableId(d.pattern, ValuesOf(y))
  <2> DEFINE x == ValuesOf(y)
  <2>1. y \in Seq(Segments) /\ Len(y) = L /\ \A i \in 1 .. L : y[i] \in Range(choices[i])
    BY <1>7 DEF Selects
  <2>2. \A i \in 1 .. Len(y) : y[i].kind = "argument"
    BY <1>5, <2>1
  <2>3. x \in Seq(STRING) /\ Len(x) = L /\ \A i \in 1 .. L : y[i] = Argument(x[i])
    BY <2>1, <2>2, ValuesAre
  <2>4. Row(d.pattern, y) = BuildConcreteVariableId(d.pattern, x)
    BY <1>1, <2>1, <2>2, RowIsBuilt
  <2> HIDE DEF x
  <2>5. \A i \in 1 .. L : Allows(d.parameters[i], x[i])
    <3> SUFFICES ASSUME NEW i \in 1 .. L PROVE Allows(d.parameters[i], x[i])
      OBVIOUS
    <3>1. Argument(x[i]) \in Range(choices[i])
      BY <2>1, <2>3
    <3> QED BY <1>5, <3>1
  <2>6. Fits(d, x)
    BY <2>3, <2>5 DEF Fits, L
  <2>7. AllValid(x)
    BY <1>5, <2>3, <2>5 DEF AllValid
  <2> QED BY <2>1, <2>2, <2>3, <2>4, <2>6, <2>7 DEF x
<1>9. ASSUME NEW y \in Range(chosen)
      PROVE  LET row == Row(d.pattern, y)
             IN  /\ row \in Seq(Segments) /\ IsParameterized(row) /\ NormalizedId(row) = n
                 /\ Arguments(row) = ValuesOf(y)
                 /\ Find(row, p, t, q, u) = Found(row)
  <2> DEFINE x == ValuesOf(y)
             built == BuildConcreteVariableId(t[n].pattern, x)
  <2>1. x \in Seq(STRING) /\ Fits(t[n], x) /\ AllValid(x)
    BY <1>8 DEF d
  <2>2. built = Row(d.pattern, y)
    BY <1>8 DEF d
  <2> HIDE DEF x
  <2>3. /\ built \in Seq(Segments) /\ IsParameterized(built) /\ NormalizedId(built) = n
        /\ Arguments(built) = x /\ Find(built, p, t, q, u) = Found(built)
    BY <2>1, BuiltIsFound
  <2> HIDE DEF built
  <2> QED BY <2>2, <2>3 DEF x
<1>10. /\ DOMAIN chosen = 1 .. Len(chosen) /\ Len(chosen) \in Nat
       /\ \A k \in 1 .. Len(chosen) : chosen[k] \in Range(chosen)
  <2>1. DOMAIN chosen = 1 .. Len(chosen) /\ Len(chosen) \in Nat
    BY <1>7
  <2> QED BY <2>1 DEF Range
<1>11. rows \in Seq(Seq(Segments))
  <2>1. rows \in [1 .. Len(chosen) -> Seq(Segments)]
    BY <1>3, <1>9, <1>10
  <2> QED BY <1>10, <2>1, SeqDef
<1>12. DOMAIN rows = 1 .. Len(chosen)
  BY <1>3, <1>10
<1>13. IsInjective(rows)
  <2> SUFFICES ASSUME NEW i \in 1 .. Len(chosen), NEW j \in 1 .. Len(chosen), rows[i] = rows[j]
               PROVE  i = j
    BY <1>12 DEF IsInjective
  <2> DEFINE y == chosen[i]
             z == chosen[j]
  <2>1. y \in Range(chosen) /\ z \in Range(chosen)
    BY <1>10
  <2>2. Row(d.pattern, y) = Row(d.pattern, z)
    BY <1>3, <1>10
  <2> HIDE DEF y, z
  <2>3. ValuesOf(y) = ValuesOf(z)
    BY <1>9, <2>1, <2>2
  <2>4. \A k \in 1 .. L : y[k] = z[k]
    BY <1>8, <2>1, <2>3
  <2>5. y = [k \in 1 .. L |-> y[k]] /\ z = [k \in 1 .. L |-> z[k]]
    <3>1. y \in Seq(Segments) /\ Len(y) = L /\ z \in Seq(Segments) /\ Len(z) = L
      BY <1>8, <2>1
    <3> QED BY <3>1
  <2>6. y = z
    BY <2>4, <2>5
  <2> QED BY <1>7, <1>10, <2>6 DEF IsInjective, y, z
<1>14. \A row : row \in Range(rows) <=> \E y \in Range(chosen) : row = Row(d.pattern, y)
  BY <1>3 DEF Range
<1>15. ASSUME NEW other \in Seq(Segments), IsParameterized(other), NormalizedId(other) = n,
              Find(other, p, t, q, u) = Found(other)
       PROVE  other \in Range(rows)
  <2> DEFINE x == Arguments(other)
             y == [i \in 1 .. L |-> Argument(x[i])]
  <2>1. Fits(d, x)
    BY <1>15, FoundIff DEF d
  <2>2. x \in Seq(STRING) /\ Len(x) = L /\ \A i \in 1 .. L : x[i] \in STRING
    <3>1. x \in Seq(STRING) /\ DOMAIN x = 1 .. Len(x)
      BY ArgumentsAre
    <3>2. Len(x) = L
      BY <2>1 DEF Fits, L
    <3> QED BY <3>1, <3>2
  <2>3. InstanceOf(other, d.pattern)
    BY <1>1, <1>15, <2>2 DEF InstanceOf
  <2>4. other = BuildConcreteVariableId(d.pattern, x)
    BY <1>1, <2>3, BuildRestores
  <2> HIDE DEF x
  <2>5. \A i \in 1 .. L : y[i] = Argument(x[i]) /\ y[i] \in Segments /\ y[i].of = x[i]
    BY <2>2 DEF Argument, Segments
  <2>6. y = [i \in 1 .. L |-> y[i]]
    OBVIOUS
  <2> HIDE DEF y
  <2>7. y \in Seq(Segments) /\ Len(y) = L
    <3>1. y \in [1 .. L -> Segments]
      BY <2>5, <2>6
    <3>2. y \in Seq(Segments)
      BY <1>1, <3>1, SeqDef
    <3> QED BY <1>1, <3>1, <3>2, LenProperties
  <2>8. \A i \in 1 .. L : y[i] \in Range(choices[i])
    <3> SUFFICES ASSUME NEW i \in 1 .. L PROVE y[i] \in Range(choices[i])
      OBVIOUS
    <3>1. Allows(d.parameters[i], x[i])
      BY <2>1 DEF Fits, L
    <3> QED BY <1>5, <2>5, <3>1
  <2>9. y \in Range(chosen)
    BY <1>7, <2>7, <2>8 DEF Selects
  <2>10. ValuesOf(y) = x
    <3>1. ValuesOf(y) = [i \in 1 .. L |-> x[i]]
      BY <2>5, <2>7 DEF ValuesOf
    <3>2. x = [i \in 1 .. L |-> x[i]]
      BY <2>2
    <3> QED BY <3>1, <3>2
  <2>11. other = Row(d.pattern, y)
    BY <1>8, <2>4, <2>9, <2>10
  <2> QED BY <1>14, <2>9, <2>11
<1>16. ASSUME NEW other \in Range(rows)
       PROVE  /\ IsParameterized(other) /\ NormalizedId(other) = n
              /\ Find(other, p, t, q, u) = Found(other)
  BY <1>9, <1>14
<1> QED BY <1>11, <1>13, <1>15, <1>16 DEF rows, d

\* The invariant makes dumps exact.
LEMMA InvDumpIsWhatIsFound ==
  ASSUME VariablesInv
  PROVE  DumpIsWhatIsFound
<1> DEFINE t == definitions.stringPatterns
<1> SUFFICES ASSUME NEW id \in DOMAIN t, Open \notin ToSet(Parameters(t[id].pattern))
             PROVE  LET rows == Dumped(t[id])
                    IN  /\ Cardinality(ToSet(rows)) = Len(rows)
                        /\ \A other \in Ids \cup ToSet(rows) :
                              other \in ToSet(rows) <=>
                                  /\ IsParameterized(other)
                                  /\ NormalizedId(other) = id
                                  /\ FindStringVariable(definitions, other) = Found(other)
  BY DEF DumpIsWhatIsFound
<1> DEFINE rows == Dumped(t[id])
<1>1. SoundTable(t)
  BY InvTables
<1>2. \A other : FindStringVariable(definitions, other) =
          Find(other, definitions.string, t, definitions.numeric, definitions.numericPatterns)
  BY DEF FindStringVariable
<1> HIDE DEF t
<1>3. /\ rows \in Seq(Seq(Segments)) /\ IsInjective(rows)
      /\ \A other \in Seq(Segments) :
            other \in Range(rows) <=>
                /\ IsParameterized(other) /\ NormalizedId(other) = id
                /\ FindStringVariable(definitions, other) = Found(other)
  BY <1>1, <1>2, DumpsFound
<1> HIDE DEF rows
<1>4. ToSet(rows) = Range(rows)
  BY DEF ToSet, Range
<1>5. Cardinality(Range(rows)) = Len(rows)
  BY <1>3, AsManyAsLong
<1>6. Range(rows) \subseteq Seq(Segments) /\ Ids \subseteq Seq(Segments)
  BY <1>3, ElementsAreMembers, SegmentsAssumption
<1> QED BY <1>3, <1>4, <1>5, <1>6 DEF rows

-----------------------------------------------------------------------------
(* The invariant holds.                                                    *)

\* A definition that is added (AddParameterizedDefinition) leaves a table sound.
LEMMA WithTable ==
  ASSUME NEW given, Table(given), NEW pattern \in Patterns, ParseParameterizedDefinition(pattern),
         NEW domains
  PROVE  Table(With(given, pattern, domains))
<1> DEFINE table == With(given, pattern, domains)
<1>1. DOMAIN table = DOMAIN given \cup {DefinitionId(pattern)}
  BY DEF With
<1> SUFFICES ASSUME NEW id \in DOMAIN table
             PROVE  /\ table[id].pattern \in Patterns
                    /\ ParseParameterizedDefinition(table[id].pattern)
                    /\ id = DefinitionId(table[id].pattern)
  BY DEF Table
<1>2. CASE id = DefinitionId(pattern)
  <2>1. table[id].pattern = pattern
    BY <1>2, PatternKept DEF With
  <2> QED BY <1>2, <2>1
<1>3. CASE id # DefinitionId(pattern)
  <2>1. id \in DOMAIN given /\ table[id] = given[id]
    BY <1>1, <1>3 DEF With
  <2> QED BY <2>1 DEF Table
<1> QED BY <1>2, <1>3

\* SetFixedParameterDomainValues leaves a table a table.
LEMMA FillTable ==
  ASSUME NEW given, Table(given), NEW domains
  PROVE  Table(FillFixedParameterValues(given, domains))
<1> DEFINE table == FillFixedParameterValues(given, domains)
<1> SUFFICES ASSUME NEW id \in DOMAIN table
             PROVE  /\ table[id].pattern \in Patterns
                    /\ ParseParameterizedDefinition(table[id].pattern)
                    /\ id = DefinitionId(table[id].pattern)
  BY DEF Table
<1>1. id \in DOMAIN given /\ table[id].pattern = given[id].pattern
  BY PatternKept DEF FillFixedParameterValues
<1> QED BY <1>1 DEF Table

\* The tables hold what was defined, each pattern at its own normalized id.
THEOREM TypeCorrect == Spec => []VariablesTypeOK
<1>1. Init => VariablesTypeOK
  BY EmptyTable DEF Init, EmptyTables, Tables, VariablesTypeOK, Table
<1>2. VariablesTypeOK /\ IsTables(definitions) /\ [Next]_definitions => VariablesTypeOK'
  <2> SUFFICES ASSUME VariablesTypeOK, IsTables(definitions), [Next]_definitions PROVE VariablesTypeOK'
    OBVIOUS
  <2> USE DEF VariablesTypeOK, Tables
  <2>1. ASSUME NEW id \in PlainIds, AddNumeric(id) \/ AddString(id)
        PROVE  VariablesTypeOK'
    BY <2>1 DEF AddNumeric, AddNumericDefinition, AddString, AddStringDefinition
  <2>2. ASSUME NEW pattern \in Patterns, AddParameterizedNumeric(pattern)
        PROVE  VariablesTypeOK'
    BY <2>2, WithTable DEF AddParameterizedNumeric, AcceptsParameterizedNumeric,
                           AddParameterizedNumericDefinition
  <2>3. ASSUME NEW pattern \in Patterns, AddParameterizedString(pattern)
        PROVE  VariablesTypeOK'
    BY <2>3, WithTable DEF AddParameterizedString, AcceptsParameterizedString,
                           AddParameterizedStringDefinition
  <2>4. ASSUME NEW domain \in FixedDomains, NEW values \in Values, SetDomain(domain, values)
        PROVE  VariablesTypeOK'
    BY <2>4, FillTable DEF SetDomain, SetFixedParameterDomainValues
  <2>5. CASE Clear
    BY <2>5, EmptyTable, ClearIs DEF Clear, EmptyTables, Table
  <2>6. CASE UNCHANGED definitions
    BY <2>6
  <2> QED BY <2>1, <2>2, <2>3, <2>4, <2>5, <2>6 DEF Next
<1> QED BY <1>1, <1>2, TablesAlways, PTL DEF Spec

\* A domain has valid values only, each of them once.
LEMMA DomainsAlwaysProper == Spec => []ProperDomains(definitions.domains)
<1> DEFINE P == ProperDomains(definitions.domains)
<1>1. Init => P
  BY DEF Init, EmptyTables, Tables, ProperDomains
<1>2. P /\ IsTables(definitions) /\ [Next]_definitions => P'
  <2> SUFFICES ASSUME P, IsTables(definitions), [Next]_definitions PROVE P'
    OBVIOUS
  <2> USE DEF Tables
  <2>1. ASSUME NEW id \in PlainIds, AddNumeric(id) \/ AddString(id) PROVE P'
    BY <2>1 DEF AddNumeric, AddNumericDefinition, AddString, AddStringDefinition
  <2>2. ASSUME NEW pattern \in Patterns,
               AddParameterizedNumeric(pattern) \/ AddParameterizedString(pattern)
        PROVE  P'
    BY <2>2 DEF AddParameterizedNumeric, AddParameterizedNumericDefinition,
                AddParameterizedString, AddParameterizedStringDefinition
  <2>3. ASSUME NEW domain \in FixedDomains, NEW values \in Values, SetDomain(domain, values)
        PROVE  P'
    <3>1. values \in Seq(STRING) /\ \A v \in ToSet(values) : IsValidConcreteParameterValue(v)
      BY <2>3, SegmentsAssumption DEF SetDomain, AcceptsDomainValues
    <3>2. /\ Distinct(values) \in Seq(STRING) /\ IsInjective(Distinct(values))
          /\ Range(Distinct(values)) = Range(values)
      BY <3>1, DistinctAre
    <3>3. Proper(Distinct(values))
      BY <3>1, <3>2 DEF Proper, ToSet, Range
    <3>4. definitions'.domains =
              [n \in FixedDomains |-> IF n = domain THEN Distinct(values)
                                      ELSE definitions.domains[n]]
      BY <2>3 DEF SetDomain, SetFixedParameterDomainValues
    <3> QED BY <3>3, <3>4 DEF ProperDomains
  <2>4. CASE Clear
    BY <2>4, ClearIs DEF Clear, EmptyTables, ProperDomains
  <2>5. CASE UNCHANGED definitions
    BY <2>5
  <2> QED BY <2>1, <2>2, <2>3, <2>4, <2>5 DEF Next
<1> QED BY <1>1, <1>2, TablesAlways, PTL DEF Spec

\* The invariant always holds.
LEMMA InvAlways == Spec => []VariablesInv
BY TypeCorrect, OneTypeAlways, FixedValuesAlwaysCurrent, DomainsAlwaysProper, PTL DEF VariablesInv

\* What one finder finds, it finds as what was asked for, and the other one calls a variable
\* of the wrong type (FindNumericVariable, FindStringVariable, FindVariable).
THEOREM FindersAlwaysAgree == Spec => []FindersAgree
BY InvAlways, InvFindersAgree, PTL

\* A query that is expanded lists the variables that match it and can be found, each of them
\* once (GenerateParameterizedInstances, QueryMatchesConcreteId).
THEOREM QueriesAlwaysExpand == Spec => []QueriesExpand
BY InvAlways, InvQueriesExpand, PTL

\* The table that is written out lists what can be found, each of it once
\* (ForEachDumpedParameterizedVariable).
THEOREM DumpIsAlwaysWhatIsFound == Spec => []DumpIsWhatIsFound
BY InvAlways, InvDumpIsWhatIsFound, PTL

-----------------------------------------------------------------------------
(* Lists.                                                                  *)

\* What is a sequence of something is a list.
LEMMA SequencesAreLists ==
  ASSUME NEW S, NEW q \in Seq(S)
  PROVE  /\ IsList(q) /\ ToSet(q) \subseteq S /\ ToSet(q) = Range(q)
         /\ Len(q) \in Nat /\ DOMAIN q = 1 .. Len(q)
         /\ \A i \in 1 .. Len(q) : q[i] \in ToSet(q) /\ q[i] \in S
<1>1. Len(q) \in Nat /\ DOMAIN q = 1 .. Len(q) /\ \A i \in 1 .. Len(q) : q[i] \in S
  OBVIOUS
<1>2. ToSet(q) = Range(q) /\ ToSet(q) \subseteq S
  BY <1>1 DEF ToSet, Range
<1>3. \A i \in 1 .. Len(q) : q[i] \in ToSet(q)
  BY <1>1 DEF ToSet
<1>4. q \in Seq(ToSet(q))
  BY <1>1, <1>3
<1> QED BY <1>1, <1>2, <1>3, <1>4 DEF IsList

\* What is selected of a list are its elements at the places to keep, each once if the
\* list has them once.
LEMMA SelectedAre ==
  ASSUME NEW S, NEW q \in Seq(S), NEW keep
  PROVE  /\ Selected(q, keep) \in Seq(S)
         /\ Range(Selected(q, keep)) = {q[i] : i \in (1 .. Len(q)) \cap keep}
         /\ IsInjective(q) => IsInjective(Selected(q, keep))
<1> DEFINE L == Len(q)
           Solves(g) == g = [n \in 0 .. L |->
               IF n = 0 THEN <<>>
               ELSE IF n \in keep THEN Append(g[n - 1], q[n]) ELSE g[n - 1]]
           selected == CHOOSE g : Solves(g)
           step == [x \in (1 .. L) \X Seq(S) |->
               IF x[1] \in keep THEN Append(x[2], q[x[1]]) ELSE x[2]]
<1>1. /\ L \in Nat
      /\ \A n \in 1 .. L : n \in 0 .. L /\ n - 1 \in 0 .. L /\ n # 0 /\ q[n] \in S
  OBVIOUS
<1>2. \A n \in 1 .. L, t \in Seq(S) :
          step[<<n, t>>] = IF n \in keep THEN Append(t, q[n]) ELSE t
  OBVIOUS
<1>3. Selected(q, keep) = selected[L]
  BY DEF Selected
<1> HIDE DEF L, step
<1>4. Stays(Seq(S), <<>>, L, step)
  <2>1. ASSUME NEW n \in 1 .. L, NEW t \in Seq(S) PROVE step[<<n, t>>] \in Seq(S)
    <3>1. Append(t, q[n]) \in Seq(S)
      BY <1>1
    <3> QED BY <1>2, <3>1
  <2>2. <<>> \in Seq(S)
    OBVIOUS
  <2> QED BY <1>1, <2>1, <2>2 DEF Stays
<1>5. PICK f : Computes(f, Seq(S), <<>>, L, step)
  BY <1>4, RecursionExists
<1>6. f \in [0 .. L -> Seq(S)] /\ f[0] = <<>>
  BY <1>5 DEF Computes
<1>7. \A n \in 1 .. L : f[n] = IF n \in keep THEN Append(f[n - 1], q[n]) ELSE f[n - 1]
  BY <1>1, <1>2, <1>5, <1>6 DEF Computes
<1>8. Solves(f)
  <2>1. \A n \in 0 .. L : n = 0 \/ n \in 1 .. L
    BY <1>1
  <2> QED BY <1>6, <1>7, <2>1
<1>9. Solves(selected)
  <2> HIDE DEF Solves
  <2> QED BY <1>8
<1> HIDE DEF selected
<1>10. /\ selected[0] = <<>>
       /\ \A n \in 1 .. L : selected[n] = IF n \in keep THEN Append(selected[n - 1], q[n])
                                          ELSE selected[n - 1]
  <2>1. 0 \in 0 .. L
    BY <1>1
  <2> QED BY <1>1, <1>9, <2>1
<1> HIDE DEF Solves
<1> DEFINE G == {n \in 0 .. L : selected[n] \in Seq(S)
                    /\ Range(selected[n]) = {q[i] : i \in (1 .. n) \cap keep}
                    /\ (IsInjective(q) => IsInjective(selected[n]))}
<1>11. 0 \in G
  <2>1. Range(<<>>) = {} /\ <<>> \in Seq(S) /\ 0 \in 0 .. L /\ 1 .. 0 = {}
    BY <1>1 DEF Range
  <2>2. IsInjective(<<>>)
    BY DEF IsInjective
  <2> QED BY <1>10, <2>1, <2>2
<1>12. ASSUME NEW n \in 1 .. L, n - 1 \in G PROVE n \in G
  <2>1. selected[n - 1] \in Seq(S) /\ q[n] \in S /\ n \in 0 .. L
    BY <1>1, <1>12
  <2>2. 1 .. n = (1 .. n - 1) \cup {n}
    BY <1>1
  <2>3. CASE n \in keep
    <3>1. /\ Append(selected[n - 1], q[n]) \in Seq(S)
          /\ Range(Append(selected[n - 1], q[n])) = Range(selected[n - 1]) \cup {q[n]}
          /\ IsInjective(selected[n - 1]) /\ q[n] \notin Range(selected[n - 1])
                => IsInjective(Append(selected[n - 1], q[n]))
      BY <2>1, ElementsOfAppend
    <3>2. selected[n] = Append(selected[n - 1], q[n])
      BY <1>10, <2>3
    <3>3. (1 .. n) \cap keep = ((1 .. n - 1) \cap keep) \cup {n}
      BY <2>2, <2>3
    <3>4. IsInjective(q) => q[n] \notin Range(selected[n - 1])
      <4>1. DOMAIN q = 1 .. L /\ \A i \in 1 .. n - 1 : i \in 1 .. L /\ i # n
        BY <1>1 DEF L
      <4> QED BY <1>12, <4>1 DEF IsInjective
    <3> QED BY <1>12, <2>1, <3>1, <3>2, <3>3, <3>4
  <2>4. CASE n \notin keep
    <3>1. (1 .. n) \cap keep = (1 .. n - 1) \cap keep
      BY <2>2, <2>4
    <3> QED BY <1>10, <1>12, <2>1, <2>4, <3>1
  <2> QED BY <2>3, <2>4
<1> HIDE DEF G
<1>13. 0 .. L \subseteq G
  BY <1>1, <1>11, <1>12, BoundedInduction
<1>14. L \in G
  BY <1>1, <1>13
<1> QED BY <1>3, <1>14 DEF G, L

-----------------------------------------------------------------------------
(* Files in their order.                                                   *)

\* Some files, no two of them with one path, are ranked without gaps: for each rank
\* below their number there is a file with so many before it.
LEMMA RanksWithoutGaps ==
  ASSUME NEW D, IsFiniteSet(D), \A file \in D : file.path \in Nat,
         \A x, y \in D : x.path = y.path => x = y
  PROVE  \A k \in 1 .. Cardinality(D) :
            \E file \in D : Cardinality({other \in D : other.path < file.path}) = k - 1
<1> DEFINE Before(P, file) == {other \in P : other.path < file.path}
           Ranked(P) == \A k \in 1 .. Cardinality(P) :
                           \E file \in P : Cardinality(Before(P, file)) = k - 1
           G == {P \in SUBSET D : Ranked(P)}
           R == {pair \in D \X D : pair[1].path > pair[2].path}
<1>1. \A x, y \in D : <<x, y>> \in R <=> x.path > y.path
  OBVIOUS
<1> HIDE DEF R
<1>2. ASSUME NEW P \in SUBSET D, \A Q \in SUBSET P : Q # P => Q \in G
      PROVE  P \in G
  <2>1. CASE P = {}
    <3>1. Cardinality(P) = 0
      BY <2>1, FS_EmptySet
    <3> QED BY <3>1
  <2>2. CASE P # {}
    <3>1. IsFiniteSet(P) /\ Cardinality(P) \in Nat
      BY FS_Subset, FS_CardinalityType
    <3>2. \A x, y \in P : x # y => <<x, y>> \in R \/ <<y, x>> \in R
      BY <1>1
    <3>3. \A x, y, z \in P : <<x, y>> \in R /\ <<y, z>> \in R => <<x, z>> \in R
      BY <1>1
    <3>4. PICK h \in P : \A y \in P \ {h} : <<h, y>> \in R
      <4>1. IsFiniteSet(P)
        BY <3>1
      <4> QED BY <2>2, <3>2, <3>3, <4>1, HighestExists, Zenon
    <3>5. \A y \in P \ {h} : y.path < h.path
      BY <1>1, <3>4
    <3> DEFINE Q == P \ {h}
    <3>6. Cardinality(Q) = Cardinality(P) - 1 /\ Q \in SUBSET P /\ Q # P
      BY <3>1, FS_RemoveElement
    <3>7. Before(P, h) = Q
      BY <3>5
    <3>8. \A file \in Q : Before(P, file) = Before(Q, file)
      BY <3>5
    <3>9. Ranked(Q)
      <4>1. Q \in G
        <5> HIDE DEF Q, G
        <5> QED BY <1>2, <3>6
      <4> QED BY <4>1
    <3> HIDE DEF Q, Before
    <3>10. ASSUME NEW k \in 1 .. Cardinality(P)
           PROVE  \E file \in P : Cardinality(Before(P, file)) = k - 1
      <4>1. CASE k = Cardinality(P)
        BY <3>6, <3>7, <4>1
      <4>2. CASE k # Cardinality(P)
        <5>1. k \in 1 .. Cardinality(Q)
          BY <3>1, <3>6, <4>2
        <5>2. PICK file \in Q : Cardinality(Before(Q, file)) = k - 1
          BY <3>9, <5>1
        <5> QED BY <3>6, <3>8, <5>2
      <4> QED BY <4>1, <4>2
    <3> QED BY <3>10
  <2> QED BY <2>1, <2>2
<1> HIDE DEF G
<1>3. SUBSET D \subseteq G
  BY <1>2, SubsetInduction
<1>4. D \in G
  BY <1>3
<1> QED BY <1>4 DEF G

\* The files of a directory (CollectRuleFiles) are files it has.
LEMMA RuleFilesAre ==
  ASSUME NEW root, NEW subdirectory, IsFiniteSet(root.files[subdirectory]),
         \A file \in root.files[subdirectory] : file.path \in Nat
  PROVE  RuleFilesOf(root, subdirectory) \in Seq(root.files[subdirectory])
<1> DEFINE files == root.files[subdirectory]
           candidates == {file \in files : IsRulesetFileExtension(file)}
           alone == {file \in candidates : \A other \in candidates :
                         other.path = file.path => other = file}
           Before(file) == {other \in alone : other.path < file.path}
           At(n) == CHOOSE file \in alone : Cardinality(Before(file)) = n - 1
           q == RuleFilesOf(root, subdirectory)
<1>1. alone \subseteq files /\ \A x, y \in alone : x.path = y.path => x = y
  OBVIOUS
<1>2. q = [n \in 1 .. Cardinality(alone) |-> At(n)]
  BY DEF RuleFilesOf
<1> HIDE DEF alone, files, q
<1>3. IsFiniteSet(alone) /\ Cardinality(alone) \in Nat
  BY <1>1, FS_Subset, FS_CardinalityType DEF files
<1>4. \A k \in 1 .. Cardinality(alone) : \E file \in alone : Cardinality(Before(file)) = k - 1
  <2>1. \A file \in alone : file.path \in Nat
    BY <1>1 DEF files
  <2> QED BY <1>1, <1>3, <2>1, RanksWithoutGaps
<1>5. \A n \in 1 .. Cardinality(alone) : At(n) \in alone
  <2> HIDE DEF Before
  <2> QED BY <1>4
<1> HIDE DEF At
<1>6. q = [n \in 1 .. Cardinality(alone) |-> q[n]]
  BY <1>2
<1>7. q \in Seq(files)
  BY <1>1, <1>2, <1>3, <1>5, <1>6, FunctionsAreLists
<1> QED BY <1>7 DEF q, files

-----------------------------------------------------------------------------
(* Merging.                                                                *)

\* The table t has what was read: each object the last of its id, each id, and the ids
\* in the order in which they first appear.
Merges(t, read) ==
    /\ \A i \in 1 .. Len(t) : \E k \in 1 .. Len(read) :
          read[k] = t[i] /\ \A m \in 1 .. Len(read) : read[m].id = t[i].id => m <= k
    /\ \A k \in 1 .. Len(read) : \E i \in 1 .. Len(t) : t[i].id = read[k].id
    /\ \A i, j \in 1 .. Len(t) : i < j =>
          \E k \in 1 .. Len(read) :
             read[k].id = t[i].id /\ \A m \in 1 .. Len(read) : read[m].id = t[j].id => k < m

\* One more object (UpsertRepeatedField) merges, in place of the one with its id or at
\* the end.
LEMMA UpsertMerges ==
  ASSUME NEW S, NEW t \in Seq(S), NEW read \in Seq(S), NEW o \in S, Merges(t, read)
  PROVE  /\ UpsertRepeatedField(t, o) \in Seq(S)
         /\ Merges(UpsertRepeatedField(t, o), Append(read, o))
<1> DEFINE same == {i \in DOMAIN t : t[i].id = o.id}
           u == UpsertRepeatedField(t, o)
           more == Append(read, o)
           T == Len(t)
           N == Len(read)
<1>1. /\ DOMAIN t = 1 .. T /\ T \in Nat /\ N \in Nat
      /\ Len(more) = N + 1 /\ more[N + 1] = o /\ \A k \in 1 .. N : more[k] = read[k]
  OBVIOUS
<1>2. \A k : k \in 1 .. N + 1 <=> k \in 1 .. N \/ k = N + 1
  BY <1>1
<1>3. /\ \A i \in 1 .. T : \E k \in 1 .. N :
            read[k] = t[i] /\ \A m \in 1 .. N : read[m].id = t[i].id => m <= k
      /\ \A k \in 1 .. N : \E i \in 1 .. T : t[i].id = read[k].id
      /\ \A i, j \in 1 .. T : i < j =>
            \E k \in 1 .. N :
               read[k].id = t[i].id /\ \A m \in 1 .. N : read[m].id = t[j].id => k < m
  BY DEF Merges
<1>4. u = IF same = {} THEN Append(t, o) ELSE [t EXCEPT ![Min(same)] = o]
  BY DEF UpsertRepeatedField
<1>5. CASE same = {}
  <2>1. /\ u = Append(t, o) /\ u \in Seq(S) /\ Len(u) = T + 1 /\ u[T + 1] = o
        /\ \A i \in 1 .. T : u[i] = t[i]
    BY <1>4, <1>5
  <2>2. \A i : i \in 1 .. T + 1 <=> i \in 1 .. T \/ i = T + 1
    BY <1>1
  <2>3. \A i \in 1 .. T : t[i].id # o.id
    BY <1>1, <1>5
  <2>4. \A k \in 1 .. N : read[k].id # o.id
    BY <1>3, <2>3
  <2> HIDE DEF T, N, u, more
  <2>5. ASSUME NEW i \in 1 .. T + 1
        PROVE  \E k \in 1 .. N + 1 :
                  more[k] = u[i] /\ \A m \in 1 .. N + 1 : more[m].id = u[i].id => m <= k
    <3>1. CASE i = T + 1
      <4>1. N + 1 \in 1 .. N + 1 /\ more[N + 1] = u[i] /\ \A m \in 1 .. N + 1 : m <= N + 1
        BY <1>1, <2>1, <3>1
      <4> QED BY <4>1
    <3>2. CASE i \in 1 .. T
      <4>1. PICK k \in 1 .. N : read[k] = t[i] /\ \A m \in 1 .. N : read[m].id = t[i].id => m <= k
        BY <1>3, <3>2
      <4>2. more[k] = u[i]
        BY <1>1, <2>1, <3>2, <4>1
      <4>3. \A m \in 1 .. N + 1 : more[m].id = u[i].id => m <= k
        BY <1>1, <1>2, <2>1, <2>3, <3>2, <4>1
      <4> QED BY <1>2, <4>2, <4>3
    <3> QED BY <2>2, <3>1, <3>2
  <2>6. ASSUME NEW k \in 1 .. N + 1 PROVE \E i \in 1 .. T + 1 : u[i].id = more[k].id
    <3>1. CASE k = N + 1
      BY <1>1, <2>1, <2>2, <3>1
    <3>2. CASE k \in 1 .. N
      <4>1. PICK i \in 1 .. T : t[i].id = read[k].id
        BY <1>3, <3>2
      <4>2. u[i].id = more[k].id
        BY <1>1, <2>1, <3>2, <4>1
      <4> QED BY <2>2, <4>2
    <3> QED BY <1>2, <3>1, <3>2
  <2>7. ASSUME NEW i \in 1 .. T + 1, NEW j \in 1 .. T + 1, i < j
        PROVE  \E k \in 1 .. N + 1 : more[k].id = u[i].id
                  /\ \A m \in 1 .. N + 1 : more[m].id = u[j].id => k < m
    <3>1. i \in 1 .. T
      BY <1>1, <2>7
    <3>2. CASE j = T + 1
      <4>1. PICK k \in 1 .. N : read[k] = t[i]
        BY <1>3, <3>1
      <4>2. more[k].id = u[i].id
        BY <1>1, <2>1, <3>1, <4>1
      <4>3. \A m \in 1 .. N + 1 : more[m].id = u[j].id => m = N + 1
        BY <1>1, <1>2, <2>1, <2>4, <3>2
      <4>4. k < N + 1
        BY <1>1
      <4> QED BY <1>2, <4>2, <4>3, <4>4
    <3>3. CASE j \in 1 .. T
      <4>1. PICK k \in 1 .. N :
               read[k].id = t[i].id /\ \A m \in 1 .. N : read[m].id = t[j].id => k < m
        BY <1>3, <2>7, <3>1, <3>3
      <4>2. more[k].id = u[i].id
        BY <1>1, <2>1, <3>1, <4>1
      <4>3. \A m \in 1 .. N + 1 : more[m].id = u[j].id => k < m
        BY <1>1, <1>2, <2>1, <3>3, <4>1
      <4> QED BY <1>2, <4>2, <4>3
    <3> QED BY <2>2, <3>2, <3>3
  <2>8. Merges(u, more)
    <3>1. Len(u) = T + 1 /\ Len(more) = N + 1
      BY <1>1, <2>1
    <3>2. \A i \in 1 .. Len(u) : \E k \in 1 .. Len(more) :
             more[k] = u[i] /\ \A m \in 1 .. Len(more) : more[m].id = u[i].id => m <= k
      BY <2>5, <3>1
    <3>3. \A k \in 1 .. Len(more) : \E i \in 1 .. Len(u) : u[i].id = more[k].id
      BY <2>6, <3>1
    <3>4. \A i, j \in 1 .. Len(u) : i < j =>
             \E k \in 1 .. Len(more) : more[k].id = u[i].id
                /\ \A m \in 1 .. Len(more) : more[m].id = u[j].id => k < m
      <4> SUFFICES ASSUME NEW i \in 1 .. Len(u), NEW j \in 1 .. Len(u), i < j
                   PROVE  \E k \in 1 .. Len(more) : more[k].id = u[i].id
                             /\ \A m \in 1 .. Len(more) : more[m].id = u[j].id => k < m
        OBVIOUS
      <4>1. i \in 1 .. T + 1 /\ j \in 1 .. T + 1
        BY <3>1
      <4>2. PICK k \in 1 .. N + 1 : more[k].id = u[i].id
                /\ \A m \in 1 .. N + 1 : more[m].id = u[j].id => k < m
        BY <2>7, <4>1
      <4> QED BY <3>1, <4>2
    <3> QED BY <3>2, <3>3, <3>4 DEF Merges
  <2> QED BY <2>1, <2>8 DEF u, more
<1>6. CASE same # {}
  <2> DEFINE p == Min(same)
  <2>1. p \in 1 .. T /\ t[p].id = o.id
    <3>1. same \subseteq 0 .. T
      BY <1>1
    <3>2. p \in same
      BY <1>1, <1>6, <3>1, MaxIsGreatest
    <3> QED BY <1>1, <3>2
  <2> HIDE DEF p, same
  <2>2. /\ u = [t EXCEPT ![p] = o] /\ u \in Seq(S) /\ Len(u) = T
        /\ \A i \in 1 .. T : u[i] = IF i = p THEN o ELSE t[i]
    <3>1. u = [t EXCEPT ![p] = o]
      BY <1>4, <1>6 DEF p
    <3> HIDE DEF u
    <3> QED BY <1>1, <2>1, <3>1
  <2>3. \A i \in 1 .. T : u[i].id = t[i].id
    BY <2>1, <2>2
  <2>4. \A i \in 1 .. T : i # p => t[i].id # o.id
    <3> SUFFICES ASSUME NEW i \in 1 .. T, i # p, t[i].id = o.id PROVE FALSE
      OBVIOUS
    <3> HIDE DEF T, N, u, more
    <3>1. i < p \/ p < i
      BY <1>1, <2>1
    <3>2. ~ \E k \in 1 .. N :
               read[k].id = o.id /\ \A m \in 1 .. N : read[m].id = o.id => k < m
      BY <1>1
    <3>3. CASE i < p
      BY <1>3, <2>1, <3>2, <3>3
    <3>4. CASE p < i
      BY <1>3, <2>1, <3>2, <3>4
    <3> QED BY <3>1, <3>3, <3>4
  <2> HIDE DEF T, N, u, more
  <2>5. ASSUME NEW i \in 1 .. T
        PROVE  \E k \in 1 .. N + 1 :
                  more[k] = u[i] /\ \A m \in 1 .. N + 1 : more[m].id = u[i].id => m <= k
    <3>1. CASE i = p
      <4>1. N + 1 \in 1 .. N + 1 /\ more[N + 1] = u[i] /\ \A m \in 1 .. N + 1 : m <= N + 1
        BY <1>1, <2>2, <3>1
      <4> QED BY <4>1
    <3>2. CASE i # p
      <4>1. PICK k \in 1 .. N : read[k] = t[i] /\ \A m \in 1 .. N : read[m].id = t[i].id => m <= k
        BY <1>3
      <4>2. more[k] = u[i] /\ t[i].id # o.id /\ u[i] = t[i]
        BY <1>1, <2>2, <2>4, <3>2, <4>1
      <4>3. \A m \in 1 .. N + 1 : more[m].id = u[i].id => m <= k
        BY <1>1, <1>2, <4>1, <4>2
      <4> QED BY <1>2, <4>2, <4>3
    <3> QED BY <3>1, <3>2
  <2>6. ASSUME NEW k \in 1 .. N + 1 PROVE \E i \in 1 .. T : u[i].id = more[k].id
    <3>1. CASE k = N + 1
      BY <1>1, <2>1, <2>3, <3>1
    <3>2. CASE k \in 1 .. N
      <4>1. PICK i \in 1 .. T : t[i].id = read[k].id
        BY <1>3, <3>2
      <4>2. u[i].id = more[k].id
        BY <1>1, <2>3, <3>2, <4>1
      <4> QED BY <4>2
    <3> QED BY <1>2, <3>1, <3>2
  <2>7. ASSUME NEW i \in 1 .. T, NEW j \in 1 .. T, i < j
        PROVE  \E k \in 1 .. N + 1 : more[k].id = u[i].id
                  /\ \A m \in 1 .. N + 1 : more[m].id = u[j].id => k < m
    <3>1. PICK k \in 1 .. N :
             read[k].id = t[i].id /\ \A m \in 1 .. N : read[m].id = t[j].id => k < m
      BY <1>3, <2>7
    <3>2. more[k].id = u[i].id
      BY <1>1, <2>3, <3>1
    <3>3. ASSUME NEW m \in 1 .. N + 1, more[m].id = u[j].id PROVE k < m
      <4>1. CASE m = N + 1
        BY <1>1, <4>1
      <4>2. CASE m \in 1 .. N
        BY <1>1, <2>3, <3>1, <3>3, <4>2
      <4> QED BY <1>2, <4>1, <4>2
    <3> QED BY <1>2, <3>2, <3>3
  <2>8. Merges(u, more)
    <3>1. Len(u) = T /\ Len(more) = N + 1
      BY <1>1, <2>2
    <3>2. \A i \in 1 .. Len(u) : \E k \in 1 .. Len(more) :
             more[k] = u[i] /\ \A m \in 1 .. Len(more) : more[m].id = u[i].id => m <= k
      BY <2>5, <3>1
    <3>3. \A k \in 1 .. Len(more) : \E i \in 1 .. Len(u) : u[i].id = more[k].id
      BY <2>6, <3>1
    <3>4. \A i, j \in 1 .. Len(u) : i < j =>
             \E k \in 1 .. Len(more) : more[k].id = u[i].id
                /\ \A m \in 1 .. Len(more) : more[m].id = u[j].id => k < m
      BY <2>7, <3>1
    <3> QED BY <3>2, <3>3, <3>4 DEF Merges
  <2> QED BY <2>2, <2>8 DEF u, more
<1> QED BY <1>5, <1>6

\* p with so many elements of q behind it.
Beginning(p, q, n) == p \o SubSeq(q, 1, n)

\* Beginnings of a list behind another one: one more element at a time.
LEMMA Beginnings ==
  ASSUME NEW S, NEW p \in Seq(S), NEW q \in Seq(S)
  PROVE  /\ Beginning(p, q, 0) = p /\ Beginning(p, q, Len(q)) = p \o q
         /\ \A n \in 0 .. Len(q) : Beginning(p, q, n) \in Seq(S)
         /\ \A n \in 1 .. Len(q) : Beginning(p, q, n) = Append(Beginning(p, q, n - 1), q[n])
<1>1. Len(q) \in Nat /\ Len(p) \in Nat
  OBVIOUS
<1>2. /\ SubSeq(q, 1, 0) = <<>> /\ SubSeq(q, 1, Len(q)) = q
  OBVIOUS
<1>3. ASSUME NEW n \in 0 .. Len(q)
      PROVE  /\ SubSeq(q, 1, n) \in Seq(S) /\ Len(SubSeq(q, 1, n)) = n
             /\ \A i \in 1 .. n : SubSeq(q, 1, n)[i] = q[i]
  OBVIOUS
<1>4. p \o <<>> = p
  OBVIOUS
<1>5. ASSUME NEW n \in 1 .. Len(q)
      PROVE  p \o SubSeq(q, 1, n) = Append(p \o SubSeq(q, 1, n - 1), q[n])
  <2> DEFINE a == SubSeq(q, 1, n)
             b == SubSeq(q, 1, n - 1)
  <2>1. n \in 0 .. Len(q) /\ n - 1 \in 0 .. Len(q) /\ q[n] \in S
    BY <1>1
  <2>2. a \in Seq(S) /\ Len(a) = n /\ \A i \in 1 .. n : a[i] = q[i]
    BY <1>3, <2>1
  <2>3. b \in Seq(S) /\ Len(b) = n - 1 /\ \A i \in 1 .. n - 1 : b[i] = q[i]
    BY <1>3, <2>1
  <2> HIDE DEF a, b
  <2>4. a = Append(b, q[n])
    BY <2>1, <2>2, <2>3
  <2>5. p \o Append(b, q[n]) = Append(p \o b, q[n])
    BY <2>1, <2>3
  <2> QED BY <2>4, <2>5 DEF a, b
<1>6. \A n \in 0 .. Len(q) : SubSeq(q, 1, n) \in Seq(S) /\ p \o SubSeq(q, 1, n) \in Seq(S)
  <2> SUFFICES ASSUME NEW n \in 0 .. Len(q)
               PROVE  SubSeq(q, 1, n) \in Seq(S) /\ p \o SubSeq(q, 1, n) \in Seq(S)
    OBVIOUS
  <2>1. SubSeq(q, 1, n) \in Seq(S)
    BY <1>3
  <2> QED BY <2>1
<1> QED BY <1>2, <1>4, <1>5, <1>6 DEF Beginning

\* Whatever a table has, one more object (UpsertRepeatedField) leaves it a table.
LEMMA UpsertStays ==
  ASSUME NEW S, NEW t \in Seq(S), NEW o \in S
  PROVE  UpsertRepeatedField(t, o) \in Seq(S)
<1> DEFINE same == {i \in DOMAIN t : t[i].id = o.id}
           p == Min(same)
<1>1. UpsertRepeatedField(t, o) = IF same = {} THEN Append(t, o) ELSE [t EXCEPT ![p] = o]
  BY DEF UpsertRepeatedField
<1>2. CASE same = {}
  BY <1>1, <1>2
<1>3. CASE same # {}
  <2>1. same \subseteq 0 .. Len(t) /\ Len(t) \in Nat /\ same \subseteq 1 .. Len(t)
    OBVIOUS
  <2>2. p \in 1 .. Len(t)
    <3> HIDE DEF same
    <3> QED BY <1>3, <2>1, MaxIsGreatest
  <2> HIDE DEF p, same
  <2>3. [t EXCEPT ![p] = o] \in Seq(S)
    BY <2>2
  <2> QED BY <1>1, <1>3, <2>3
<1> QED BY <1>2, <1>3

\* The objects of a file (ApplyFile) merge one after the other.
LEMMA ApplyMerges ==
  ASSUME NEW S, NEW t \in Seq(S), NEW read \in Seq(S), NEW file, NEW table,
         Objects(file, table) \in Seq(S), Merges(t, read)
  PROVE  /\ ApplyFile(t, file, table) \in Seq(S)
         /\ Merges(ApplyFile(t, file, table), read \o Objects(file, table))
<1> DEFINE q == Objects(file, table)
           L == Len(q)
           Solves(g) == g = [n \in 0 .. L |->
               IF n = 0 THEN t ELSE UpsertRepeatedField(g[n - 1], q[n])]
           applied == CHOOSE g : Solves(g)
           Has(n, u) == u \in Seq(S) /\ Merges(u, Beginning(read, q, n))
           step == [x \in (1 .. L) \X Seq(S) |-> UpsertRepeatedField(x[2], q[x[1]])]
<1>1. /\ L \in Nat /\ q \in Seq(S)
      /\ \A n \in 1 .. L : n \in 0 .. L /\ n - 1 \in 0 .. L /\ n # 0 /\ q[n] \in S
  OBVIOUS
<1>2. \A n \in 1 .. L, u \in Seq(S) : step[<<n, u>>] = UpsertRepeatedField(u, q[n])
  OBVIOUS
<1>3. ApplyFile(t, file, table) = applied[L]
  BY DEF ApplyFile
<1> HIDE DEF q
<1>4. /\ Beginning(read, q, 0) = read /\ Beginning(read, q, L) = read \o q
      /\ \A n \in 0 .. L : Beginning(read, q, n) \in Seq(S)
      /\ \A n \in 1 .. L : Beginning(read, q, n) = Append(Beginning(read, q, n - 1), q[n])
  <2> HIDE DEF Solves, applied, step, Has
  <2>1. Beginning(read, q, 0) = read /\ Beginning(read, q, L) = read \o q
    BY <1>1, Beginnings
  <2>2. \A n \in 0 .. L : Beginning(read, q, n) \in Seq(S)
    BY <1>1, Beginnings
  <2>3. \A n \in 1 .. L : Beginning(read, q, n) = Append(Beginning(read, q, n - 1), q[n])
    BY SMTT(30), <1>1, Beginnings
  <2> QED BY <2>1, <2>2, <2>3
<1> HIDE DEF L, step
<1>5. Stays(Seq(S), t, L, step)
  <2>1. ASSUME NEW n \in 1 .. L, NEW u \in Seq(S) PROVE step[<<n, u>>] \in Seq(S)
    <3>1. q[n] \in S
      BY <1>1
    <3>2. UpsertRepeatedField(u, q[n]) \in Seq(S)
      BY <3>1, UpsertStays
    <3> QED BY <1>2, <3>2
  <2> QED BY <1>1, <2>1 DEF Stays
<1>6. PICK f : Computes(f, Seq(S), t, L, step)
  BY <1>5, RecursionExists
<1>7. f \in [0 .. L -> Seq(S)] /\ f[0] = t
  BY <1>6 DEF Computes
<1>8. \A n \in 1 .. L : f[n] = UpsertRepeatedField(f[n - 1], q[n])
  BY <1>1, <1>2, <1>6, <1>7 DEF Computes
<1>9. Solves(f)
  <2>1. \A n \in 0 .. L : n = 0 \/ n \in 1 .. L
    BY <1>1
  <2> QED BY <1>7, <1>8, <2>1
<1>10. Solves(applied)
  <2> HIDE DEF Solves
  <2> QED BY <1>9
<1> HIDE DEF applied
<1>11. /\ applied[0] = t
       /\ \A n \in 1 .. L : applied[n] = UpsertRepeatedField(applied[n - 1], q[n])
  <2>1. 0 \in 0 .. L
    BY <1>1
  <2> QED BY <1>1, <1>10, <2>1
<1> HIDE DEF Solves
<1> DEFINE G == {n \in 0 .. L : Has(n, applied[n])}
<1>12. 0 \in G
  <2>1. 0 \in 0 .. L
    BY <1>1
  <2> QED BY <1>4, <1>11, <2>1
<1>13. ASSUME NEW n \in 1 .. L, n - 1 \in G PROVE n \in G
  <2> DEFINE u == applied[n - 1]
             before == Beginning(read, q, n - 1)
  <2>1. u \in Seq(S) /\ before \in Seq(S) /\ Merges(u, before) /\ q[n] \in S /\ n \in 0 .. L
    BY <1>1, <1>4, <1>13
  <2>2. applied[n] = UpsertRepeatedField(u, q[n]) /\ Beginning(read, q, n) = Append(before, q[n])
    BY <1>4, <1>11
  <2> HIDE DEF u, before
  <2>3. /\ UpsertRepeatedField(u, q[n]) \in Seq(S)
        /\ Merges(UpsertRepeatedField(u, q[n]), Append(before, q[n]))
    BY <2>1, UpsertMerges
  <2> QED BY <2>1, <2>2, <2>3
<1> HIDE DEF G
<1>14. 0 .. L \subseteq G
  BY <1>1, <1>12, <1>13, BoundedInduction
<1>15. Has(L, applied[L])
  BY <1>1, <1>14 DEF G
<1> QED BY <1>3, <1>4, <1>15 DEF q

\* The objects of files in their order.
Read(files, table) == FlattenSeq([i \in DOMAIN files |-> Objects(files[i], table)])

\* The objects of all files (LoadOrderedFilesInto) merge file after file.
LEMMA FilesMerge ==
  ASSUME NEW S, NEW F, NEW files \in Seq(F), NEW table,
         \A i \in 1 .. Len(files) : Objects(files[i], table) \in Seq(S)
  PROVE  /\ LoadOrderedFilesInto(<<>>, files, table) \in Seq(S)
         /\ Read(files, table) \in Seq(S)
         /\ Merges(LoadOrderedFilesInto(<<>>, files, table), Read(files, table))
<1> DEFINE L == Len(files)
           q == [i \in 1 .. L |-> Objects(files[i], table)]
           Solves(g) == g = [n \in 0 .. L |->
               IF n = 0 THEN <<>> ELSE ApplyFile(g[n - 1], files[n], table)]
           loaded == CHOOSE g : Solves(g)
           step == [x \in (1 .. L) \X Seq(S) |-> ApplyFile(x[2], files[x[1]], table)]
<1>1. /\ L \in Nat /\ DOMAIN files = 1 .. L
      /\ \A n \in 1 .. L : n \in 0 .. L /\ n - 1 \in 0 .. L /\ n # 0
  OBVIOUS
<1>2. \A n \in 1 .. L, u \in Seq(S) : step[<<n, u>>] = ApplyFile(u, files[n], table)
  OBVIOUS
<1>3. LoadOrderedFilesInto(<<>>, files, table) = loaded[L]
  BY DEF LoadOrderedFilesInto
<1>4. /\ q \in Seq(Seq(S)) /\ Len(q) = L
      /\ \A n \in 1 .. L : q[n] = Objects(files[n], table) /\ Objects(files[n], table) \in Seq(S)
  <2>1. q = [n \in 1 .. L |-> q[n]] /\ \A n \in 1 .. L : q[n] \in Seq(S)
    OBVIOUS
  <2> QED BY <1>1, <2>1, FunctionsAreLists
<1>5. Read(files, table) = FlattenSeq(q)
  BY <1>1 DEF Read
<1> HIDE DEF q, L, step
<1>6. PICK p \in [0 .. L -> Seq(S)] :
          /\ p[0] = <<>> /\ FlattenSeq(q) = p[L]
          /\ \A n \in 1 .. L : p[n] = p[n - 1] \o q[n]
  BY <1>4, FlattenSteps
<1>7. ASSUME NEW n \in 1 .. L, NEW u \in Seq(S), NEW v \in Seq(S), Merges(u, v)
      PROVE  /\ ApplyFile(u, files[n], table) \in Seq(S)
             /\ Merges(ApplyFile(u, files[n], table), v \o q[n])
  <2>1. Objects(files[n], table) \in Seq(S)
    BY <1>4
  <2>2. /\ ApplyFile(u, files[n], table) \in Seq(S)
        /\ Merges(ApplyFile(u, files[n], table), v \o Objects(files[n], table))
    BY <1>7, <2>1, ApplyMerges
  <2> QED BY <1>4, <2>2
<1>8. Merges(<<>>, <<>>)
  BY DEF Merges
<1> DEFINE Upto(n, f) == /\ f \in [0 .. n -> Seq(S)] /\ f[0] = <<>>
                         /\ \A k \in 1 .. n : f[k] = ApplyFile(f[k - 1], files[k], table)
                         /\ Merges(f[n], p[n])
           G == {n \in 0 .. L : \E f : Upto(n, f)}
<1>9. 0 \in G
  <2> DEFINE f == [k \in 0 .. 0 |-> <<>>]
  <2>1. Upto(0, f) /\ 0 \in 0 .. L
    BY <1>1, <1>6, <1>8
  <2> HIDE DEF f, Upto
  <2> QED BY <2>1
<1>10. ASSUME NEW n \in 1 .. L, n - 1 \in G PROVE n \in G
  <2>1. PICK f : Upto(n - 1, f)
    BY <1>10
  <2> DEFINE u == f[n - 1]
             w == ApplyFile(u, files[n], table)
             h == [k \in 0 .. n |-> IF k = n THEN w ELSE f[k]]
  <2>2. /\ n \in 0 .. L /\ n - 1 \in 0 .. L /\ n # 0 /\ n \in Nat
        /\ n - 1 \in 0 .. n - 1 /\ \A k \in 0 .. n : k # n => k \in 0 .. n - 1
    BY <1>1
  <2>3. u \in Seq(S) /\ p[n - 1] \in Seq(S) /\ Merges(u, p[n - 1])
    BY <1>6, <2>1, <2>2
  <2>4. w \in Seq(S) /\ Merges(w, p[n])
    <3> HIDE DEF u
    <3> QED BY <1>6, <1>7, <2>3
  <2> HIDE DEF u, w
  <2>5. h \in [0 .. n -> Seq(S)]
    BY <2>1, <2>2, <2>4
  <2>6. h[0] = <<>> /\ h[n] = w
    BY <2>1, <2>2
  <2>7. ASSUME NEW k \in 1 .. n PROVE h[k] = ApplyFile(h[k - 1], files[k], table)
    <3>1. k \in 0 .. n /\ k - 1 \in 0 .. n /\ k - 1 # n /\ h[k - 1] = f[k - 1]
      BY <2>2
    <3>2. CASE k = n
      BY <2>6, <3>1, <3>2 DEF u, w
    <3>3. CASE k # n
      <4>1. k \in 1 .. n - 1 /\ h[k] = f[k]
        BY <2>2, <3>1, <3>3
      <4> QED BY <2>1, <3>1, <4>1
    <3> QED BY <3>2, <3>3
  <2> HIDE DEF h
  <2>8. Upto(n, h)
    BY <2>4, <2>5, <2>6, <2>7
  <2> HIDE DEF Upto
  <2> QED BY <2>2, <2>8
<1> HIDE DEF G
<1>11. 0 .. L \subseteq G
  BY <1>1, <1>9, <1>10, BoundedInduction
<1>12. PICK f : Upto(L, f)
  <2>1. L \in G
    BY <1>1, <1>11
  <2> HIDE DEF Upto
  <2> QED BY <2>1 DEF G
<1>13. Solves(f)
  <2>1. \A n \in 0 .. L : n = 0 \/ n \in 1 .. L
    BY <1>1
  <2> QED BY <1>12, <2>1
<1>14. Solves(loaded)
  <2> HIDE DEF Solves, Upto
  <2> QED BY <1>13
<1> HIDE DEF loaded
<1>15. /\ loaded[0] = <<>>
       /\ \A n \in 1 .. L : loaded[n] = ApplyFile(loaded[n - 1], files[n], table)
  <2>1. 0 \in 0 .. L
    BY <1>1
  <2> QED BY <1>1, <1>14, <2>1
<1> HIDE DEF Solves
<1> DEFINE H == {n \in 0 .. L : loaded[n] = f[n]}
<1>16. 0 .. L \subseteq H
  <2>1. 0 \in H
    BY <1>1, <1>12, <1>15
  <2>2. ASSUME NEW n \in 1 .. L, n - 1 \in H PROVE n \in H
    <3>1. n \in 0 .. L /\ loaded[n - 1] = f[n - 1]
      BY <1>1, <2>2
    <3>2. loaded[n] = ApplyFile(loaded[n - 1], files[n], table)
      BY <1>15
    <3>3. f[n] = ApplyFile(f[n - 1], files[n], table)
      BY <1>12
    <3> QED BY <3>1, <3>2, <3>3
  <2> HIDE DEF H
  <2> QED BY <1>1, <2>1, <2>2, BoundedInduction
<1>17. L \in 0 .. L
  BY <1>1
<1>18. loaded[L] = f[L] /\ f[L] \in Seq(S) /\ Merges(f[L], p[L]) /\ p[L] \in Seq(S)
  BY <1>6, <1>12, <1>16, <1>17
<1> QED BY <1>3, <1>5, <1>6, <1>18

\* No id is there twice.
IdsDiffer(objects) == \A i, j \in DOMAIN objects : objects[i].id = objects[j].id => i = j

\* The objects of a table: lists of objects as the parsers make them, each id once.
IsTable(table, objects) ==
    /\ IsList(objects) /\ IdsDiffer(objects)
    /\ \A object \in ToSet(objects) : WellRead(table, object)

\* What is merged has each id once.
LEMMA MergedDiffer ==
  ASSUME NEW S, NEW t \in Seq(S), NEW read \in Seq(S), Merges(t, read)
  PROVE  IdsDiffer(t)
<1>1. /\ DOMAIN t = 1 .. Len(t) /\ Len(t) \in Nat /\ Len(read) \in Nat
      /\ \A i, j \in 1 .. Len(t) : i < j \/ j < i \/ i = j
  OBVIOUS
<1>2. ASSUME NEW i \in 1 .. Len(t), NEW j \in 1 .. Len(t), i < j PROVE t[i].id # t[j].id
  <2>1. PICK k \in 1 .. Len(read) :
            read[k].id = t[i].id /\ \A m \in 1 .. Len(read) : read[m].id = t[j].id => k < m
    BY <1>2 DEF Merges
  <2>2. ~(k < k)
    BY <1>1
  <2> QED BY <2>1, <2>2
<1> QED BY <1>1, <1>2 DEF IdsDiffer

\* The tables of a ruleset, and what Clear leaves of them: nothing, in any.
HasTables(tables) == tables = [table \in TableNames |-> tables[table]]

LEMMA NothingLeft ==
  ASSUME NEW tables, HasTables(tables)
  PROVE  ClearTables(tables) = NoObjects
<1>1. TableNames = {"improvements", "improvement_groups", "biomes", "biome_features", "resources",
                    "jobs", "job_groups", "atlas_rendering", "projects", "variables", "effects"}
  BY DEF TableNames, Directory
<1>2. DOMAIN tables = TableNames
  BY DEF HasTables
<1>3. ClearTables(tables) = [table \in TableNames |-> ClearTables(tables)[table]]
  BY <1>2 DEF ClearTables
<1>4. \A table \in TableNames : ClearTables(tables)[table] = <<>>
  BY <1>1, <1>2 DEF ClearTables
<1> HIDE DEF TableNames
<1> QED BY <1>3, <1>4 DEF NoObjects

\* What is loaded from directories into empty tables.
NewTables(directories) == LoadTables(NoObjects, directories)

\* A list over a set is one over a greater set.
LEMMA ListsGrow ==
  ASSUME NEW S, NEW T, S \subseteq T, NEW q \in Seq(S)
  PROVE  q \in Seq(T)
OBVIOUS

\* Every table that is loaded (RuleSetBase::Load) has well-read objects, merged from the
\* files of its directory in their order.
LEMMA TablesMerge ==
  ASSUME NEW directories \in RootSequences, NEW table \in TableNames
  PROVE  LET files == CollectRuleFiles(FilterValidRuleRoots(directories), Directory[table])
             merged == NewTables(directories)[table]
         IN  /\ IsTable(table, merged)
             /\ \E S : merged \in Seq(S) /\ Read(files, table) \in Seq(S)
             /\ Merges(merged, Read(files, table))
<1> DEFINE R == ToSet(directories)
           d == Directory[table]
           F == UNION {root.files[d] : root \in R}
           S == UNION {ToSet(Objects(file, table)) : file \in F}
           valid == FilterValidRuleRoots(directories)
           q == [i \in DOMAIN valid |-> RuleFilesOf(valid[i], d)]
           files == CollectRuleFiles(valid, d)
           merged == NewTables(directories)[table]
<1>1. directories \in Seq(R)
  BY RootsAssumption DEF IsList
<1>2. ASSUME NEW root \in R
      PROVE  /\ IsFiniteSet(root.files[d])
             /\ \A file \in root.files[d] : file.path \in Nat
             /\ \A file \in root.files[d] : \A t \in DOMAIN file.message :
                   /\ IsList(file.message[t])
                   /\ \A object \in ToSet(file.message[t]) : WellRead(t, object)
  BY RootsAssumption
<1> HIDE DEF R, d
<1>3. valid \in Seq(R)
  BY <1>1, SelectedAre DEF FilterValidRuleRoots
<1> HIDE DEF valid
<1>4. /\ DOMAIN valid = 1 .. Len(valid) /\ Len(valid) \in Nat
      /\ \A i \in 1 .. Len(valid) : valid[i] \in R
  BY <1>3
<1>5. \A i \in 1 .. Len(valid) : RuleFilesOf(valid[i], d) \in Seq(F)
  <2> SUFFICES ASSUME NEW i \in 1 .. Len(valid) PROVE RuleFilesOf(valid[i], d) \in Seq(F)
    OBVIOUS
  <2>1. valid[i] \in R
    BY <1>4
  <2>2. RuleFilesOf(valid[i], d) \in Seq(valid[i].files[d])
    BY <1>2, <2>1, RuleFilesAre
  <2>3. valid[i].files[d] \subseteq F
    BY <2>1
  <2> HIDE DEF F
  <2> QED BY <2>2, <2>3, ListsGrow
<1>6. q \in Seq(Seq(F))
  <2>1. q = [i \in 1 .. Len(valid) |-> q[i]] /\ \A i \in 1 .. Len(valid) : q[i] \in Seq(F)
    <3> HIDE DEF F
    <3> QED BY <1>4, <1>5
  <2> HIDE DEF q, F
  <2> QED BY <1>4, <2>1, FunctionsAreLists
<1>7. files \in Seq(F)
  <2>1. files = FlattenSeq(q)
    BY DEF CollectRuleFiles
  <2> HIDE DEF q, F, files
  <2> QED BY <1>6, <2>1, FlattenElements
<1>8. ASSUME NEW file \in F
      PROVE  /\ Objects(file, table) \in Seq(S)
             /\ \A o \in ToSet(Objects(file, table)) : WellRead(table, o)
  <2> DEFINE objects == Objects(file, table)
  <2>1. PICK root \in R : file \in root.files[d]
    OBVIOUS
  <2>2. ASSUME table \in DOMAIN file.message
        PROVE  /\ IsList(file.message[table])
               /\ \A object \in ToSet(file.message[table]) : WellRead(table, object)
    BY <1>2, <2>1, <2>2
  <2>3. objects = <<>> \/ (table \in DOMAIN file.message /\ objects = file.message[table])
    <3>1. ReadFromFile(file) = file.message \/ (DOMAIN ReadFromFile(file) = {})
      BY DEF ReadFromFile, Unreadable
    <3> QED BY <3>1 DEF Objects
  <2>4. ToSet(<<>>) = {} /\ <<>> \in Seq(S)
    BY DEF ToSet
  <2>5. ToSet(objects) \subseteq S
    OBVIOUS
  <2> HIDE DEF objects, S
  <2>6. CASE objects = <<>>
    BY <2>4, <2>6 DEF objects
  <2>7. CASE table \in DOMAIN file.message /\ objects = file.message[table]
    <3>1. objects \in Seq(ToSet(objects))
      BY <2>2, <2>7 DEF IsList
    <3>2. objects \in Seq(S)
      BY <2>5, <3>1, ListsGrow
    <3> QED BY <2>2, <2>7, <3>2 DEF objects
  <2> QED BY <2>3, <2>6, <2>7
<1>9. \A o \in S : WellRead(table, o)
  BY <1>8
<1> HIDE DEF files, F, S
<1>10. \A i \in 1 .. Len(files) : Objects(files[i], table) \in Seq(S)
  <2>1. \A i \in 1 .. Len(files) : files[i] \in F
    BY <1>7
  <2> QED BY <1>8, <2>1
<1>11. merged = LoadOrderedFilesInto(<<>>, files, table)
  <2>1. HasTables(NoObjects) /\ NoObjects[table] = <<>>
    BY DEF HasTables, NoObjects
  <2>2. ClearTables(NoObjects)[table] = <<>>
    BY <2>1, NothingLeft
  <2> QED BY <2>2 DEF NewTables, LoadTables, files, valid, d
<1>12. merged \in Seq(S) /\ Read(files, table) \in Seq(S) /\ Merges(merged, Read(files, table))
  BY <1>7, <1>10, <1>11, FilesMerge
<1> HIDE DEF merged
<1>13. IsTable(table, merged)
  <2>1. IsList(merged) /\ ToSet(merged) \subseteq S
    BY <1>12, SequencesAreLists
  <2>2. IdsDiffer(merged)
    BY <1>12, MergedDiffer
  <2> QED BY <1>9, <2>1, <2>2 DEF IsTable
<1> QED BY <1>12, <1>13 DEF files, valid, d, merged

-----------------------------------------------------------------------------
(* Groups enter the index.                                                 *)

\* What rulesets are built of.
IsRuleSet(r) ==
    /\ r = [tables |-> r.tables, improvementsByType |-> r.improvementsByType,
            jobsByType |-> r.jobsByType, resourcesById |-> r.resourcesById,
            groupsById |-> r.groupsById, projectsByType |-> r.projectsByType,
            jobIds |-> r.jobIds, resourceIds |-> r.resourceIds,
            definitions |-> r.definitions, effectDefinitions |-> r.effectDefinitions,
            success |-> r.success]
    /\ r.success \in BOOLEAN
    /\ r.groupsById = [id \in DOMAIN r.groupsById |-> r.groupsById[id]]

\* So many groups have valid ids, each its own and none that the index has.
Fresh(index, groups, n) ==
    \A i \in 1 .. n :
       /\ IsValidIdentifier(groups[i].id) /\ groups[i].id \notin DOMAIN index
       /\ \A j \in 1 .. i - 1 : groups[j].id # groups[i].id

\* The id is that of one of these groups, and leads to it.
Enters(index, groups, scopeType, n, id) ==
    \E i \in 1 .. n : groups[i].id = id /\ index[id] = [scopeType |-> scopeType, index |-> i]

\* What the ruleset r has become when so many groups are added.
Added(r, groups, scopeType, n, a) ==
    /\ a = [r EXCEPT !.groupsById = a.groupsById, !.success = a.success]
    /\ IsRuleSet(a)
    /\ a.success <=> r.success /\ Fresh(r.groupsById, groups, n)
    /\ \A id : id \in DOMAIN a.groupsById <=>
          id \in DOMAIN r.groupsById
             \/ \E i \in 1 .. n : groups[i].id = id /\ IsValidIdentifier(id)
    /\ \A id \in DOMAIN r.groupsById : a.groupsById[id] = r.groupsById[id]
    /\ \A id \in DOMAIN a.groupsById :
          id \in DOMAIN r.groupsById \/ Enters(a.groupsById, groups, scopeType, n, id)
    /\ Fresh(r.groupsById, groups, n) =>
          \A i \in 1 .. n :
             a.groupsById[groups[i].id] = [scopeType |-> scopeType, index |-> i]

\* One more group (AddGroup).
LEMMA GroupIsAdded ==
  ASSUME NEW r, IsRuleSet(r), NEW groups, NEW table, groups = r.tables[table], NEW scopeType,
         NEW n \in Nat \ {0}, NEW a, Added(r, groups, scopeType, n - 1, a)
  PROVE  Added(r, groups, scopeType, n, AddGroup(a, table, scopeType, n))
<1> DEFINE id == groups[n].id
           value == [scopeType |-> scopeType, index |-> n]
           b == AddGroup(a, table, scopeType, n)
<1>1. /\ a = [r EXCEPT !.groupsById = a.groupsById, !.success = a.success]
      /\ IsRuleSet(a)
      /\ a.success <=> r.success /\ Fresh(r.groupsById, groups, n - 1)
      /\ \A i : i \in DOMAIN a.groupsById <=>
            i \in DOMAIN r.groupsById
               \/ \E k \in 1 .. n - 1 : groups[k].id = i /\ IsValidIdentifier(i)
      /\ \A i \in DOMAIN r.groupsById : a.groupsById[i] = r.groupsById[i]
      /\ \A i \in DOMAIN a.groupsById :
            i \in DOMAIN r.groupsById \/ Enters(a.groupsById, groups, scopeType, n - 1, i)
      /\ Fresh(r.groupsById, groups, n - 1) =>
            \A i \in 1 .. n - 1 :
               a.groupsById[groups[i].id] = [scopeType |-> scopeType, index |-> i]
  BY DEF Added
<1>2. a.tables = r.tables
  BY <1>1 DEF IsRuleSet
<1>3. b = IF ~IsValidIdentifier(id) \/ id \in DOMAIN a.groupsById
          THEN [a EXCEPT !.success = FALSE]
          ELSE [a EXCEPT !.groupsById =
                   [i \in DOMAIN a.groupsById \cup {id} |->
                       IF i = id THEN value ELSE a.groupsById[i]]]
  BY <1>2 DEF AddGroup
<1>4. /\ \A k : k \in 1 .. n <=> k \in 1 .. n - 1 \/ k = n
      /\ n \in 1 .. n
  OBVIOUS
<1>5. Fresh(r.groupsById, groups, n) <=>
          /\ Fresh(r.groupsById, groups, n - 1)
          /\ IsValidIdentifier(id) /\ id \notin DOMAIN r.groupsById
          /\ \A j \in 1 .. n - 1 : groups[j].id # id
  BY <1>4 DEF Fresh
<1> HIDE DEF id, value, b
<1>6. CASE ~IsValidIdentifier(id) \/ id \in DOMAIN a.groupsById
  <2>1. b = [a EXCEPT !.success = FALSE]
    BY <1>3, <1>6
  <2>2. /\ b.groupsById = a.groupsById /\ b.success = FALSE /\ IsRuleSet(b)
        /\ b = [r EXCEPT !.groupsById = b.groupsById, !.success = b.success]
    <3> DEFINE index == a.groupsById
               success == a.success
    <3>1. a = [r EXCEPT !.groupsById = index, !.success = success]
      BY <1>1
    <3> HIDE DEF index, success
    <3>2. a = [tables |-> r.tables, improvementsByType |-> r.improvementsByType,
             jobsByType |-> r.jobsByType, resourcesById |-> r.resourcesById,
             groupsById |-> index, projectsByType |-> r.projectsByType,
             jobIds |-> r.jobIds, resourceIds |-> r.resourceIds,
             definitions |-> r.definitions, effectDefinitions |-> r.effectDefinitions,
             success |-> success]
      BY <3>1 DEF IsRuleSet
    <3>3. b = [tables |-> r.tables, improvementsByType |-> r.improvementsByType,
             jobsByType |-> r.jobsByType, resourcesById |-> r.resourcesById,
             groupsById |-> index, projectsByType |-> r.projectsByType,
             jobIds |-> r.jobIds, resourceIds |-> r.resourceIds,
             definitions |-> r.definitions, effectDefinitions |-> r.effectDefinitions,
             success |-> FALSE]
      BY <2>1, <3>2
    <3>4. b.groupsById = index /\ b.success = FALSE
      BY <3>3
    <3>5. IsRuleSet(b)
      <4>1. index = [i \in DOMAIN index |-> index[i]]
        BY <1>1 DEF IsRuleSet, index
      <4> QED BY <3>3, <4>1 DEF IsRuleSet
    <3>6. b = [r EXCEPT !.groupsById = index, !.success = FALSE]
      <4> DEFINE wanted == [r EXCEPT !.groupsById = index, !.success = FALSE]
      <4>1. wanted = [r EXCEPT !.groupsById = index, !.success = FALSE]
        OBVIOUS
      <4> HIDE DEF wanted
      <4>2. wanted = [tables |-> r.tables, improvementsByType |-> r.improvementsByType,
               jobsByType |-> r.jobsByType, resourcesById |-> r.resourcesById,
               groupsById |-> index, projectsByType |-> r.projectsByType,
               jobIds |-> r.jobIds, resourceIds |-> r.resourceIds,
               definitions |-> r.definitions, effectDefinitions |-> r.effectDefinitions,
               success |-> FALSE]
        BY <4>1 DEF IsRuleSet
      <4> QED BY <3>3, <4>1, <4>2
    <3> QED BY <3>4, <3>5, <3>6 DEF index
  <2>3. ~Fresh(r.groupsById, groups, n)
    BY <1>1, <1>5, <1>6
  <2>4. \A i : i \in DOMAIN b.groupsById <=>
          i \in DOMAIN r.groupsById
             \/ \E k \in 1 .. n : groups[k].id = i /\ IsValidIdentifier(i)
    BY <1>1, <1>4, <1>6, <2>2 DEF id
  <2>5. \A i \in DOMAIN b.groupsById :
          i \in DOMAIN r.groupsById \/ Enters(b.groupsById, groups, scopeType, n, i)
    BY <1>1, <1>4, <2>2 DEF Enters
  <2> QED BY <1>1, <2>2, <2>3, <2>4, <2>5 DEF Added, b
<1>7. CASE IsValidIdentifier(id) /\ id \notin DOMAIN a.groupsById
  <2> DEFINE g == [i \in DOMAIN a.groupsById \cup {id} |->
                      IF i = id THEN value ELSE a.groupsById[i]]
  <2>1. b = [a EXCEPT !.groupsById = g]
    BY <1>3, <1>7
  <2>2. /\ g = [i \in DOMAIN a.groupsById \cup {id} |-> g[i]] /\ g[id] = value
        /\ DOMAIN g = DOMAIN a.groupsById \cup {id}
        /\ \A i \in DOMAIN a.groupsById : g[i] = a.groupsById[i]
    BY <1>7
  <2> HIDE DEF g
  <2>3. /\ b.groupsById = g /\ b.success = a.success /\ IsRuleSet(b)
        /\ b = [r EXCEPT !.groupsById = b.groupsById, !.success = b.success]
    <3> DEFINE index == a.groupsById
               success == a.success
               wanted == [r EXCEPT !.groupsById = g, !.success = success]
    <3>1. /\ a = [r EXCEPT !.groupsById = index, !.success = success]
          /\ wanted = [r EXCEPT !.groupsById = g, !.success = success]
      BY <1>1
    <3> HIDE DEF index, success, wanted
    <3>2. a = [tables |-> r.tables, improvementsByType |-> r.improvementsByType,
               jobsByType |-> r.jobsByType, resourcesById |-> r.resourcesById,
               groupsById |-> index, projectsByType |-> r.projectsByType,
               jobIds |-> r.jobIds, resourceIds |-> r.resourceIds,
               definitions |-> r.definitions, effectDefinitions |-> r.effectDefinitions,
               success |-> success]
      BY <3>1 DEF IsRuleSet
    <3>3. b = [tables |-> r.tables, improvementsByType |-> r.improvementsByType,
               jobsByType |-> r.jobsByType, resourcesById |-> r.resourcesById,
               groupsById |-> g, projectsByType |-> r.projectsByType,
               jobIds |-> r.jobIds, resourceIds |-> r.resourceIds,
               definitions |-> r.definitions, effectDefinitions |-> r.effectDefinitions,
               success |-> success]
      BY <2>1, <3>2
    <3>4. b.groupsById = g /\ b.success = success
      BY <3>3
    <3>5. IsRuleSet(b)
      <4>1. success \in BOOLEAN
        BY <1>1 DEF IsRuleSet, success
      <4>2. g = [i \in DOMAIN g |-> g[i]]
        BY <2>2
      <4> QED BY <3>3, <4>1, <4>2 DEF IsRuleSet
    <3>6. wanted = [tables |-> r.tables, improvementsByType |-> r.improvementsByType,
               jobsByType |-> r.jobsByType, resourcesById |-> r.resourcesById,
               groupsById |-> g, projectsByType |-> r.projectsByType,
               jobIds |-> r.jobIds, resourceIds |-> r.resourceIds,
               definitions |-> r.definitions, effectDefinitions |-> r.effectDefinitions,
               success |-> success]
      BY <3>1 DEF IsRuleSet
    <3>7. b = [r EXCEPT !.groupsById = g, !.success = success]
      BY <3>1, <3>3, <3>6
    <3> QED BY <3>4, <3>5, <3>7 DEF success
  <2>4. /\ id \notin DOMAIN r.groupsById /\ \A j \in 1 .. n - 1 : groups[j].id # id
        /\ Fresh(r.groupsById, groups, n) <=> Fresh(r.groupsById, groups, n - 1)
    BY <1>1, <1>5, <1>7
  <2>5. \A i : i \in DOMAIN g <=>
          i \in DOMAIN r.groupsById
             \/ \E k \in 1 .. n : groups[k].id = i /\ IsValidIdentifier(i)
    BY <1>1, <1>4, <1>7, <2>2 DEF id
  <2>6. \A i \in DOMAIN r.groupsById : g[i] = r.groupsById[i]
    BY <1>1, <2>2
  <2>7. ASSUME Fresh(r.groupsById, groups, n), NEW i \in 1 .. n
        PROVE  g[groups[i].id] = [scopeType |-> scopeType, index |-> i]
    <3>1. CASE i = n
      BY <2>2, <3>1 DEF id, value
    <3>2. CASE i \in 1 .. n - 1
      <4>1. Fresh(r.groupsById, groups, n - 1)
        BY <2>4, <2>7
      <4>2. groups[i].id \in DOMAIN a.groupsById
        BY <1>1, <3>2, <4>1 DEF Fresh
      <4> QED BY <1>1, <2>2, <3>2, <4>1, <4>2
    <3> QED BY <1>4, <3>1, <3>2
  <2>8. b.success <=> r.success /\ Fresh(r.groupsById, groups, n)
    BY <1>1, <2>3, <2>4
  <2>9. ASSUME NEW i \in DOMAIN g, i \notin DOMAIN r.groupsById
        PROVE  Enters(g, groups, scopeType, n, i)
    <3>1. CASE i = id
      BY <1>4, <2>2, <3>1 DEF Enters, id, value
    <3>2. CASE i # id
      <4>1. i \in DOMAIN a.groupsById /\ g[i] = a.groupsById[i]
        BY <2>2, <3>2
      <4>2. Enters(a.groupsById, groups, scopeType, n - 1, i)
        BY <1>1, <2>9, <4>1
      <4> QED BY <1>4, <4>1, <4>2 DEF Enters
    <3> QED BY <3>1, <3>2
  <2> QED BY <2>3, <2>5, <2>6, <2>7, <2>8, <2>9 DEF Added, b
<1> QED BY <1>6, <1>7

\* All groups of a table (AddGroups).
LEMMA GroupsAreAdded ==
  ASSUME NEW r, IsRuleSet(r), NEW S, NEW table, r.tables[table] \in Seq(S), NEW scopeType
  PROVE  Added(r, r.tables[table], scopeType, Len(r.tables[table]),
               AddGroups(r, table, scopeType))
<1> DEFINE groups == r.tables[table]
           L == Len(groups)
           Solves(g) == g = [n \in 0 .. L |->
               IF n = 0 THEN r ELSE AddGroup(g[n - 1], table, scopeType, n)]
           added == CHOOSE g : Solves(g)
           Upto(n, f) == /\ f = [k \in 0 .. n |-> f[k]] /\ f[0] = r
                         /\ \A k \in 1 .. n : f[k] = AddGroup(f[k - 1], table, scopeType, k)
                         /\ Added(r, groups, scopeType, n, f[n])
           G == {n \in 0 .. L : \E f : Upto(n, f)}
<1>1. /\ L \in Nat
      /\ \A n \in 1 .. L : n \in 0 .. L /\ n - 1 \in 0 .. L /\ n # 0
  OBVIOUS
<1>2. AddGroups(r, table, scopeType) = added[L]
  BY DEF AddGroups
<1> HIDE DEF L
<1>3. Added(r, groups, scopeType, 0, r)
  <2>1. 1 .. 0 = {}
    OBVIOUS
  <2>2. r = [r EXCEPT !.groupsById = r.groupsById, !.success = r.success]
    BY DEF IsRuleSet
  <2> QED BY <2>1, <2>2 DEF Added, Fresh
<1>4. 0 \in G
  <2> DEFINE f == [k \in 0 .. 0 |-> r]
  <2>1. Upto(0, f) /\ 0 \in 0 .. L
    BY <1>1, <1>3
  <2> HIDE DEF f, Upto
  <2> QED BY <2>1
<1>5. ASSUME NEW n \in 1 .. L, n - 1 \in G PROVE n \in G
  <2>1. PICK f : Upto(n - 1, f)
    BY <1>5
  <2> DEFINE u == f[n - 1]
             w == AddGroup(u, table, scopeType, n)
             h == [k \in 0 .. n |-> IF k = n THEN w ELSE f[k]]
  <2>2. /\ n \in 0 .. L /\ n - 1 \in 0 .. L /\ n # 0 /\ n \in Nat
        /\ n - 1 \in 0 .. n - 1 /\ \A k \in 0 .. n : k # n => k \in 0 .. n - 1
    BY <1>1
  <2>3. Added(r, groups, scopeType, n - 1, u)
    BY <2>1
  <2>4. Added(r, groups, scopeType, n, w)
    <3> HIDE DEF u, groups
    <3>1. groups = r.tables[table] /\ n \in Nat \ {0}
      BY <2>2 DEF groups
    <3> QED BY <2>3, <3>1, GroupIsAdded
  <2> HIDE DEF u, w
  <2>5. h = [k \in 0 .. n |-> h[k]]
    OBVIOUS
  <2>6. h[0] = r /\ h[n] = w
    BY <2>1, <2>2
  <2>7. ASSUME NEW k \in 1 .. n PROVE h[k] = AddGroup(h[k - 1], table, scopeType, k)
    <3>1. k \in 0 .. n /\ k - 1 \in 0 .. n /\ k - 1 # n /\ h[k - 1] = f[k - 1]
      BY <2>2
    <3>2. CASE k = n
      BY <2>6, <3>1, <3>2 DEF u, w
    <3>3. CASE k # n
      <4>1. k \in 1 .. n - 1 /\ h[k] = f[k]
        BY <2>2, <3>1, <3>3
      <4> QED BY <2>1, <3>1, <4>1
    <3> QED BY <3>2, <3>3
  <2> HIDE DEF h
  <2>8. Upto(n, h)
    BY <2>4, <2>5, <2>6, <2>7
  <2> HIDE DEF Upto
  <2> QED BY <2>2, <2>8
<1> HIDE DEF G
<1>6. 0 .. L \subseteq G
  BY <1>1, <1>4, <1>5, BoundedInduction
<1>7. PICK f : Upto(L, f)
  <2>1. L \in G
    BY <1>1, <1>6
  <2> HIDE DEF Upto
  <2> QED BY <2>1 DEF G
<1>8. Solves(f)
  <2>1. \A n \in 0 .. L : n = 0 \/ n \in 1 .. L
    BY <1>1
  <2>2. \A n \in 0 .. L : f[n] = IF n = 0 THEN r ELSE AddGroup(f[n - 1], table, scopeType, n)
    BY <1>1, <1>7, <2>1
  <2> QED BY <1>7, <2>2
<1>9. Solves(added)
  <2> HIDE DEF Solves, Upto
  <2> QED BY <1>8
<1> HIDE DEF added
<1>10. /\ added[0] = r
       /\ \A n \in 1 .. L : added[n] = AddGroup(added[n - 1], table, scopeType, n)
  <2>1. 0 \in 0 .. L
    BY <1>1
  <2> QED BY <1>1, <1>9, <2>1
<1> HIDE DEF Solves
<1> DEFINE H == {n \in 0 .. L : added[n] = f[n]}
<1>11. 0 .. L \subseteq H
  <2>1. 0 \in H
    BY <1>1, <1>7, <1>10
  <2>2. ASSUME NEW n \in 1 .. L, n - 1 \in H PROVE n \in H
    BY <1>1, <1>7, <1>10, <2>2
  <2> HIDE DEF H
  <2> QED BY <1>1, <2>1, <2>2, BoundedInduction
<1>12. added[L] = f[L]
  <2>1. L \in H
    BY <1>1, <1>11
  <2> QED BY <2>1
<1> QED BY <1>2, <1>7, <1>12 DEF L

-----------------------------------------------------------------------------
(* Both orders in which classes are looked through.                        *)

\* The list of valid ids (job_ids_, resource_ids_) has them all.
LEMMA ValidIdsAre ==
  ASSUME NEW objects, IsList(objects)
  PROVE  /\ ValidIds(objects) \in Seq(IdsOf(objects))
         /\ ToSet(ValidIds(objects)) = ValidIdsOf(objects)
         /\ Range(ValidIds(objects)) = ValidIdsOf(objects)
         /\ IdsDiffer(objects) => IsInjective(ValidIds(objects))
<1> DEFINE S == IdsOf(objects)
           L == Len(objects)
           q == [i \in DOMAIN objects |-> objects[i].id]
           keep == {i \in DOMAIN objects : IsValidIdentifier(objects[i].id)}
<1>1. /\ DOMAIN objects = 1 .. L /\ L \in Nat
      /\ \A o : o \in ToSet(objects) <=> \E i \in 1 .. L : objects[i] = o
  BY DEF IsList, ToSet
<1>2. \A id : id \in S <=> \E i \in 1 .. L : objects[i].id = id
  BY <1>1 DEF IdsOf
<1> HIDE DEF S, L
<1>3. q \in Seq(S) /\ Len(q) = L
  <2>1. q = [i \in 1 .. L |-> q[i]] /\ \A i \in 1 .. L : q[i] \in S
    BY <1>1, <1>2
  <2> HIDE DEF q
  <2> QED BY <1>1, <2>1, FunctionsAreLists
<1>4. ValidIds(objects) = Selected(q, keep)
  BY DEF ValidIds
<1>5. /\ Selected(q, keep) \in Seq(S)
      /\ Range(Selected(q, keep)) = {q[i] : i \in (1 .. Len(q)) \cap keep}
      /\ IsInjective(q) => IsInjective(Selected(q, keep))
  <2> HIDE DEF q, keep
  <2> QED BY <1>3, SelectedAre
<1>6. {q[i] : i \in (1 .. Len(q)) \cap keep} = ValidIdsOf(objects)
  <2>1. ASSUME NEW id PROVE id \in ValidIdsOf(objects) <=> id \in S /\ IsValidIdentifier(id)
    BY DEF ValidIdsOf, S
  <2>2. ASSUME NEW id
        PROVE  id \in {q[i] : i \in (1 .. Len(q)) \cap keep}
                  <=> \E i \in 1 .. L : objects[i].id = id /\ IsValidIdentifier(id)
    BY <1>1, <1>3
  <2> HIDE DEF q, keep
  <2> QED BY <1>2, <2>1, <2>2
<1>7. ToSet(ValidIds(objects)) = Range(ValidIds(objects)) /\ ValidIds(objects) \in Seq(S)
  <2> HIDE DEF q, keep
  <2> QED BY <1>4, <1>5, SequencesAreLists
<1>8. IdsDiffer(objects) => IsInjective(q)
  BY <1>1 DEF IdsDiffer, IsInjective
<1> HIDE DEF q, keep
<1> QED BY <1>4, <1>5, <1>6, <1>7, <1>8 DEF S

\* Groups of a table have valid ids, each its own and none of the other table.
Separate(groups, others) ==
    \A i \in 1 .. Len(groups) :
       /\ IsValidIdentifier(groups[i].id)
       /\ \A j \in 1 .. i - 1 : groups[j].id # groups[i].id
       /\ \A k \in 1 .. Len(others) : groups[i].id # others[k].id

GroupsSeparate(tables) ==
    /\ Separate(tables.job_groups, tables.improvement_groups)
    /\ Separate(tables.improvement_groups, tables.job_groups)

\* index finds every group, under its scope type.
Finds(index, groups, scopeType) ==
    \A i \in 1 .. Len(groups) :
       index[groups[i].id] = [scopeType |-> scopeType, index |-> i]

\* index is of both groups and finds each of them.
FindsBoth(index, groups, m, others, n) ==
    /\ index = [id \in DOMAIN index |-> index[id]]
    /\ \A id : id \in DOMAIN index <=>
          \/ \E i \in 1 .. Len(groups) : groups[i].id = id
          \/ \E i \in 1 .. Len(others) : others[i].id = id
    /\ Finds(index, groups, m)
    /\ Finds(index, others, n)

GroupIndex(tables, index) ==
    FindsBoth(index, tables.job_groups, "job group",
              tables.improvement_groups, "improvement group")

\* There is one index only that does.
LEMMA OneGroupIndex ==
  ASSUME NEW tables, NEW index, NEW other, GroupIndex(tables, index), GroupIndex(tables, other)
  PROVE  index = other
<1>1. DOMAIN index = DOMAIN other
  BY DEF GroupIndex, FindsBoth
<1>2. \A id \in DOMAIN index : index[id] = other[id]
  <2> SUFFICES ASSUME NEW id \in DOMAIN index PROVE index[id] = other[id]
    OBVIOUS
  <2>1. CASE \E i \in 1 .. Len(tables.job_groups) : tables.job_groups[i].id = id
    <3>1. PICK i \in 1 .. Len(tables.job_groups) : tables.job_groups[i].id = id
      BY <2>1
    <3>2. /\ Finds(index, tables.job_groups, "job group")
          /\ Finds(other, tables.job_groups, "job group")
      BY DEF GroupIndex, FindsBoth
    <3>3. index[tables.job_groups[i].id] = [scopeType |-> "job group", index |-> i]
      BY <3>1, <3>2 DEF Finds
    <3>4. other[tables.job_groups[i].id] = [scopeType |-> "job group", index |-> i]
      BY <3>1, <3>2 DEF Finds
    <3> QED BY <3>1, <3>3, <3>4
  <2>2. CASE \E i \in 1 .. Len(tables.improvement_groups) : tables.improvement_groups[i].id = id
    <3>1. PICK i \in 1 .. Len(tables.improvement_groups) : tables.improvement_groups[i].id = id
      BY <2>2
    <3>2. /\ Finds(index, tables.improvement_groups, "improvement group")
          /\ Finds(other, tables.improvement_groups, "improvement group")
      BY DEF GroupIndex, FindsBoth
    <3>3. index[tables.improvement_groups[i].id] = [scopeType |-> "improvement group", index |-> i]
      BY <3>1, <3>2 DEF Finds
    <3>4. other[tables.improvement_groups[i].id] = [scopeType |-> "improvement group", index |-> i]
      BY <3>1, <3>2 DEF Finds
    <3> QED BY <3>1, <3>3, <3>4
  <2> QED BY <2>1, <2>2 DEF GroupIndex, FindsBoth
<1>3. index = [id \in DOMAIN index |-> index[id]] /\ other = [id \in DOMAIN other |-> other[id]]
  BY DEF GroupIndex, FindsBoth
<1> QED BY <1>1, <1>2, <1>3

\* Groups of one table and then of the other one (AddGroups) enter an empty index: if all
\* are well, it finds them all.
LEMMA BothAreAdded ==
  ASSUME NEW r, DOMAIN r.groupsById = {}, NEW groups, NEW m, NEW a,
         Added(r, groups, m, Len(groups), a),
         NEW s, s.groupsById = a.groupsById, s.success => a.success,
         NEW others, NEW n, NEW b, Added(s, others, n, Len(others), b),
         Len(groups) \in Nat, Len(others) \in Nat
  PROVE  /\ b.success <=> s.success /\ Separate(groups, others) /\ Separate(others, groups)
         /\ b.success => FindsBoth(b.groupsById, groups, m, others, n)
<1>1. a.success <=> r.success /\ Fresh(r.groupsById, groups, Len(groups))
  BY DEF Added
<1>2. b.success <=> s.success /\ Fresh(s.groupsById, others, Len(others))
  BY DEF Added
<1>3. ASSUME s.success
      PROVE  /\ Fresh(r.groupsById, groups, Len(groups))
             /\ \A id : id \in DOMAIN s.groupsById <=>
                   \E i \in 1 .. Len(groups) : groups[i].id = id
  <2>1. Fresh(r.groupsById, groups, Len(groups))
    BY <1>1, <1>3
  <2>2. \A i \in 1 .. Len(groups) : IsValidIdentifier(groups[i].id)
    BY <2>1 DEF Fresh
  <2>3. \A id : id \in DOMAIN a.groupsById <=>
          id \in DOMAIN r.groupsById
             \/ \E i \in 1 .. Len(groups) : groups[i].id = id /\ IsValidIdentifier(id)
    BY DEF Added
  <2> QED BY <2>1, <2>2, <2>3
<1>4. ASSUME s.success
      PROVE  Fresh(s.groupsById, others, Len(others))
                <=> Separate(groups, others) /\ Separate(others, groups)
  <2>1. Fresh(s.groupsById, others, Len(others)) <=> Separate(others, groups)
    BY <1>3, <1>4 DEF Fresh, Separate
  <2>2. Separate(others, groups) => Separate(groups, others)
    BY <1>3, <1>4 DEF Fresh, Separate
  <2> QED BY <2>1, <2>2
<1>5. ASSUME b.success
      PROVE  FindsBoth(b.groupsById, groups, m, others, n)
  <2>1. s.success /\ Fresh(s.groupsById, others, Len(others))
    BY <1>2, <1>5
  <2>2. b.groupsById = [id \in DOMAIN b.groupsById |-> b.groupsById[id]]
    BY DEF Added, IsRuleSet
  <2>3. \A id : id \in DOMAIN b.groupsById <=>
          id \in DOMAIN s.groupsById
             \/ \E i \in 1 .. Len(others) : others[i].id = id /\ IsValidIdentifier(id)
    BY DEF Added
  <2>4. \A i \in 1 .. Len(others) : IsValidIdentifier(others[i].id)
    BY <2>1 DEF Fresh
  <2>5. Finds(b.groupsById, others, n)
    BY <2>1 DEF Added, Finds
  <2>6. Finds(b.groupsById, groups, m)
    <3> SUFFICES ASSUME NEW i \in 1 .. Len(groups)
                 PROVE  b.groupsById[groups[i].id] = [scopeType |-> m, index |-> i]
      BY DEF Finds
    <3>1. a.groupsById[groups[i].id] = [scopeType |-> m, index |-> i]
      BY <1>3, <2>1 DEF Added
    <3>2. groups[i].id \in DOMAIN s.groupsById
      BY <1>3, <2>1
    <3>3. b.groupsById[groups[i].id] = s.groupsById[groups[i].id]
      BY <3>2 DEF Added
    <3> QED BY <3>1, <3>3
  <2> QED BY <1>3, <2>1, <2>2, <2>3, <2>4, <2>5, <2>6 DEF FindsBoth
<1>6. b.success \in BOOLEAN
  BY DEF Added, IsRuleSet
<1> QED BY <1>2, <1>4, <1>5, <1>6

\* Of two tables of objects, the valid ids are those at valid places.
LEMMA ValidPlaces ==
  ASSUME NEW objects, IsList(objects)
  PROVE  \A id : id \in ValidIdsOf(objects) <=>
             \E i \in 1 .. Len(objects) : objects[i].id = id /\ IsValidIdentifier(id)
<1>1. DOMAIN objects = 1 .. Len(objects)
  BY DEF IsList
<1>2. \A o : o \in ToSet(objects) <=> \E i \in 1 .. Len(objects) : objects[i] = o
  BY <1>1 DEF ToSet
<1> QED BY <1>2 DEF ValidIdsOf, IdsOf

\* Whether all are well or not, the index has the valid ids of both tables and leads from
\* each of them to a group that has it.
LEMMA BothAreLed ==
  ASSUME NEW r, DOMAIN r.groupsById = {}, NEW groups, IsList(groups), NEW m, NEW a,
         Added(r, groups, m, Len(groups), a),
         NEW s, s.groupsById = a.groupsById, NEW others, IsList(others), NEW n, NEW b,
         Added(s, others, n, Len(others), b)
  PROVE  /\ DOMAIN b.groupsById = ValidIdsOf(groups) \cup ValidIdsOf(others)
         /\ \A id \in DOMAIN b.groupsById :
               \/ Enters(b.groupsById, groups, m, Len(groups), id)
               \/ Enters(b.groupsById, others, n, Len(others), id)
<1>1. \A id : id \in DOMAIN a.groupsById <=> id \in ValidIdsOf(groups)
  BY ValidPlaces DEF Added
<1>2. \A id : id \in DOMAIN b.groupsById <=>
          id \in DOMAIN a.groupsById \/ id \in ValidIdsOf(others)
  BY ValidPlaces DEF Added
<1>3. \A id \in DOMAIN a.groupsById :
          Enters(a.groupsById, groups, m, Len(groups), id)
             /\ b.groupsById[id] = a.groupsById[id]
  BY DEF Added
<1>4. \A id \in DOMAIN b.groupsById :
          id \in DOMAIN a.groupsById \/ Enters(b.groupsById, others, n, Len(others), id)
  BY DEF Added
<1>5. \A id \in DOMAIN a.groupsById : Enters(b.groupsById, groups, m, Len(groups), id)
  BY <1>3 DEF Enters
<1> QED BY <1>1, <1>2, <1>4, <1>5

\* An id that leads to a group leads to one of its own.
LedTo(index, groups, scopeType, id) ==
    /\ index[id].scopeType = scopeType /\ index[id].index \in DOMAIN groups
    /\ groups[index[id].index].id = id

LEMMA LedIs ==
  ASSUME NEW index, NEW groups, IsList(groups), NEW scopeType, NEW id,
         Enters(index, groups, scopeType, Len(groups), id)
  PROVE  LedTo(index, groups, scopeType, id)
<1>1. DOMAIN groups = 1 .. Len(groups)
  BY DEF IsList
<1>2. PICK i \in 1 .. Len(groups) :
          groups[i].id = id /\ index[id] = [scopeType |-> scopeType, index |-> i]
  BY DEF Enters
<1>3. index[id].scopeType = scopeType /\ index[id].index = i
  BY <1>2
<1> QED BY <1>1, <1>2, <1>3 DEF LedTo

\* So groups are led to.
LEMMA GroupsAreLed ==
  ASSUME NEW b, NEW groups, NEW others,
         b.tables.improvement_groups = groups, b.tables.job_groups = others,
         IsList(groups), IsList(others),
         DOMAIN b.groupsById = ValidIdsOf(groups) \cup ValidIdsOf(others),
         \A id \in DOMAIN b.groupsById :
             \/ Enters(b.groupsById, groups, "improvement group", Len(groups), id)
             \/ Enters(b.groupsById, others, "job group", Len(others), id)
  PROVE  GroupsLead(b)
<1> DEFINE index == b.groupsById
<1>1. ASSUME NEW id \in DOMAIN index
      PROVE  LedTo(index, groups, "improvement group", id) \/ LedTo(index, others, "job group", id)
  <2>1. \/ Enters(index, groups, "improvement group", Len(groups), id)
        \/ Enters(index, others, "job group", Len(others), id)
    BY <1>1
  <2> HIDE DEF index
  <2>2. CASE Enters(index, groups, "improvement group", Len(groups), id)
    BY <2>2, LedIs
  <2>3. CASE Enters(index, others, "job group", Len(others), id)
    BY <2>3, LedIs
  <2> QED BY <2>1, <2>2, <2>3
<1>2. ASSUME NEW id \in DOMAIN index
      PROVE  LET group == index[id]
                 own == GroupsOf(b.tables, group.scopeType)
             IN  /\ group.scopeType \in {"improvement group", "job group"}
                 /\ group.index \in DOMAIN own
                 /\ own[group.index].id = id
  <2>1. CASE LedTo(index, groups, "improvement group", id)
    BY <2>1 DEF GroupsOf, LedTo
  <2>2. CASE LedTo(index, others, "job group", id)
    BY <2>2 DEF GroupsOf, LedTo
  <2> QED BY <1>1, <1>2, <2>1, <2>2
<1> QED BY <1>2 DEF GroupsLead

\* Tables as they are loaded or restored.
AreTables(tables) ==
    HasTables(tables) /\ \A table \in TableNames : IsTable(table, tables[table])

\* Every table is a list.
LEMMA TablesAreLists ==
  ASSUME NEW tables, AreTables(tables)
  PROVE  /\ IsTable("improvements", tables.improvements) /\ IsTable("jobs", tables.jobs)
         /\ IsTable("improvement_groups", tables.improvement_groups)
         /\ IsTable("job_groups", tables.job_groups) /\ IsTable("resources", tables.resources)
         /\ IsTable("projects", tables.projects) /\ IsTable("variables", tables.variables)
         /\ IsTable("effects", tables.effects)
         /\ IsList(tables.improvements) /\ IsList(tables.jobs)
         /\ IsList(tables.improvement_groups) /\ IsList(tables.job_groups)
         /\ IsList(tables.resources) /\ IsList(tables.projects)
         /\ IsList(tables.variables) /\ IsList(tables.effects)
<1>1. {"improvements", "jobs", "improvement_groups", "job_groups", "resources", "projects",
       "variables", "effects"} \subseteq TableNames
  BY DEF TableNames, Directory
<1>2. \A table \in {"improvements", "jobs", "improvement_groups", "job_groups", "resources",
                    "projects", "variables", "effects"} :
          IsTable(table, tables[table]) /\ IsList(tables[table])
  BY <1>1 DEF AreTables, IsTable
<1> QED BY <1>2

\* A ruleset that has its tables and nothing else.
Base(tables) == [EmptyRuleSet EXCEPT !.tables = tables]

ClassesLoaded(tables) == LoadImprovements(LoadJobs(LoadResources(Base(tables))))
ClassesRestored(tables) == LoadJobs(LoadResources(LoadImprovements(Base(tables))))

\* What classes need in either order.
ClassesAreWell(tables) ==
    /\ ValidateIdentifiers(tables.resources) /\ ValidateIdentifiers(tables.jobs)
    /\ ValidateIdentifiers(tables.improvements)
    /\ \A job \in ToSet(tables.jobs) :
          job.input \cup job.output \subseteq ValidIdsOf(tables.resources)
    /\ GroupsSeparate(tables)

\* The ruleset that has looked them through.
Classes(tables, index) == [
    tables |-> tables,
    improvementsByType |->
        Emplace(NoIndex, tables.improvements, ToSet(ValidIds(tables.improvements))),
    jobsByType |-> Emplace(NoIndex, tables.jobs, ToSet(ValidIds(tables.jobs))),
    resourcesById |-> Emplace(NoIndex, tables.resources, ToSet(ValidIds(tables.resources))),
    groupsById |-> index,
    projectsByType |-> NoIndex,
    jobIds |-> <<>> \o ValidIds(tables.jobs),
    resourceIds |-> <<>> \o ValidIds(tables.resources),
    definitions |-> EmptyTables,
    effectDefinitions |-> <<>>,
    success |-> TRUE]

\* An index that was empty has the ids it is given.
LEMMA EmplaceInEmpty ==
  ASSUME NEW objects, NEW ids
  PROVE  DOMAIN Emplace(NoIndex, objects, ids) = ids
BY DEF Emplace, NoIndex

\* The stages, field by field.
LEMMA ResourcesAre ==
  ASSUME NEW r, IsRuleSet(r)
  PROVE  LET s == LoadResources(r)
         IN  /\ s = [tables |-> r.tables, improvementsByType |-> r.improvementsByType,
                     jobsByType |-> r.jobsByType,
                     resourcesById |-> Emplace(r.resourcesById, r.tables.resources,
                                               ToSet(ValidIds(r.tables.resources))),
                     groupsById |-> r.groupsById, projectsByType |-> r.projectsByType,
                     jobIds |-> r.jobIds,
                     resourceIds |-> r.resourceIds \o ValidIds(r.tables.resources),
                     definitions |-> r.definitions, effectDefinitions |-> r.effectDefinitions,
                     success |-> r.success /\ ValidateIdentifiers(r.tables.resources)]
             /\ IsRuleSet(s)
<1> DEFINE index == Emplace(r.resourcesById, r.tables.resources,
                            ToSet(ValidIds(r.tables.resources)))
           ids == r.resourceIds \o ValidIds(r.tables.resources)
           well == r.success /\ ValidateIdentifiers(r.tables.resources)
           s == LoadResources(r)
<1>1. s = [r EXCEPT !.resourcesById = index, !.resourceIds = ids, !.success = well]
  BY DEF LoadResources
<1>2. well \in BOOLEAN
  BY DEF ValidateIdentifiers
<1> HIDE DEF index, ids, well, s
<1>3. s = [tables |-> r.tables, improvementsByType |-> r.improvementsByType,
           jobsByType |-> r.jobsByType, resourcesById |-> index,
           groupsById |-> r.groupsById, projectsByType |-> r.projectsByType,
           jobIds |-> r.jobIds, resourceIds |-> ids,
           definitions |-> r.definitions, effectDefinitions |-> r.effectDefinitions,
           success |-> well]
  BY <1>1 DEF IsRuleSet
<1>4. IsRuleSet(s)
  BY <1>2, <1>3 DEF IsRuleSet
<1> QED BY <1>3, <1>4 DEF index, ids, well, s

\* What is checked of jobs and of improvements by themselves.
JobsWell(r) ==
    /\ ValidateIdentifiers(r.tables.jobs)
    /\ \A job \in ToSet(r.tables.jobs) :
          job.input \cup job.output \subseteq DOMAIN r.resourcesById

ImprovementsWell(r) ==
    /\ ValidateIdentifiers(r.tables.improvements)
    /\ \A improvement \in ToSet(r.tables.improvements) :
          improvement.jobs \subseteq DOMAIN r.jobsByType

\* Jobs: their index, their ids, their groups (LoadJobs).
LEMMA JobsAre ==
  ASSUME NEW r, IsRuleSet(r), IsList(r.tables.job_groups)
  PROVE  LET c == LoadJobs(r)
         IN  /\ IsRuleSet(c)
             /\ c = [tables |-> r.tables, improvementsByType |-> r.improvementsByType,
                     jobsByType |-> Emplace(r.jobsByType, r.tables.jobs,
                                            ToSet(ValidIds(r.tables.jobs))),
                     resourcesById |-> r.resourcesById, groupsById |-> c.groupsById,
                     projectsByType |-> r.projectsByType,
                     jobIds |-> r.jobIds \o ValidIds(r.tables.jobs), resourceIds |-> r.resourceIds,
                     definitions |-> r.definitions, effectDefinitions |-> r.effectDefinitions,
                     success |-> c.success]
             /\ \E s : /\ IsRuleSet(s) /\ s.groupsById = r.groupsById
                       /\ s.success <=> r.success /\ JobsWell(r)
                       /\ Added(s, r.tables.job_groups, "job group", Len(r.tables.job_groups), c)
<1> DEFINE index == Emplace(r.jobsByType, r.tables.jobs, ToSet(ValidIds(r.tables.jobs)))
           ids == r.jobIds \o ValidIds(r.tables.jobs)
           well == r.success /\ JobsWell(r)
           s == [r EXCEPT !.jobsByType = index, !.jobIds = ids, !.success = well]
           c == LoadJobs(r)
<1>1. c = AddGroups(s, "job_groups", "job group")
  BY DEF LoadJobs, JobsWell
<1>2. well \in BOOLEAN
  BY DEF JobsWell, ValidateIdentifiers
<1> HIDE DEF index, ids, well, c
<1>3. s = [r EXCEPT !.jobsByType = index, !.jobIds = ids, !.success = well]
  OBVIOUS
<1> HIDE DEF s
<1>4. s = [tables |-> r.tables, improvementsByType |-> r.improvementsByType, jobsByType |-> index,
           resourcesById |-> r.resourcesById, groupsById |-> r.groupsById,
           projectsByType |-> r.projectsByType, jobIds |-> ids, resourceIds |-> r.resourceIds,
           definitions |-> r.definitions, effectDefinitions |-> r.effectDefinitions,
           success |-> well]
  BY <1>3 DEF IsRuleSet
<1>5. /\ IsRuleSet(s) /\ s.groupsById = r.groupsById /\ s.tables = r.tables
      /\ s.success <=> r.success /\ JobsWell(r)
  BY <1>2, <1>4 DEF IsRuleSet, well
<1>6. Added(s, r.tables.job_groups, "job group", Len(r.tables.job_groups), c)
  <2>1. s.tables["job_groups"] = r.tables.job_groups
    BY <1>5
  <2>2. s.tables["job_groups"] \in Seq(ToSet(r.tables.job_groups))
    BY <2>1 DEF IsList
  <2> QED BY <1>1, <1>5, <2>1, <2>2, GroupsAreAdded
<1>7. IsRuleSet(c) /\ c = [s EXCEPT !.groupsById = c.groupsById, !.success = c.success]
  BY <1>6 DEF Added
<1>8. c = [tables |-> r.tables, improvementsByType |-> r.improvementsByType, jobsByType |-> index,
           resourcesById |-> r.resourcesById, groupsById |-> c.groupsById,
           projectsByType |-> r.projectsByType, jobIds |-> ids, resourceIds |-> r.resourceIds,
           definitions |-> r.definitions, effectDefinitions |-> r.effectDefinitions,
           success |-> c.success]
  BY <1>4, <1>7
<1>9. \E u : /\ IsRuleSet(u) /\ u.groupsById = r.groupsById
             /\ u.success <=> r.success /\ JobsWell(r)
             /\ Added(u, r.tables.job_groups, "job group", Len(r.tables.job_groups), c)
  BY <1>5, <1>6
<1> QED BY <1>7, <1>8, <1>9 DEF index, ids, c

\* Improvements: their index and their groups (LoadImprovements).
LEMMA ImprovementsAre ==
  ASSUME NEW r, IsRuleSet(r), IsList(r.tables.improvement_groups)
  PROVE  LET c == LoadImprovements(r)
         IN  /\ IsRuleSet(c)
             /\ c = [tables |-> r.tables,
                     improvementsByType |->
                         Emplace(r.improvementsByType, r.tables.improvements,
                                 ToSet(ValidIds(r.tables.improvements))),
                     jobsByType |-> r.jobsByType, resourcesById |-> r.resourcesById,
                     groupsById |-> c.groupsById, projectsByType |-> r.projectsByType,
                     jobIds |-> r.jobIds, resourceIds |-> r.resourceIds,
                     definitions |-> r.definitions, effectDefinitions |-> r.effectDefinitions,
                     success |-> c.success]
             /\ \E s : /\ IsRuleSet(s) /\ s.groupsById = r.groupsById
                       /\ s.success <=> r.success /\ ImprovementsWell(r)
                       /\ Added(s, r.tables.improvement_groups, "improvement group",
                                Len(r.tables.improvement_groups), c)
<1> DEFINE index == Emplace(r.improvementsByType, r.tables.improvements,
                            ToSet(ValidIds(r.tables.improvements)))
           well == r.success /\ ImprovementsWell(r)
           s == [r EXCEPT !.improvementsByType = index, !.success = well]
           c == LoadImprovements(r)
<1>1. c = AddGroups(s, "improvement_groups", "improvement group")
  BY DEF LoadImprovements, ImprovementsWell
<1>2. well \in BOOLEAN
  BY DEF ImprovementsWell, ValidateIdentifiers
<1> HIDE DEF index, well, c
<1>3. s = [r EXCEPT !.improvementsByType = index, !.success = well]
  OBVIOUS
<1> HIDE DEF s
<1>4. s = [tables |-> r.tables, improvementsByType |-> index, jobsByType |-> r.jobsByType,
           resourcesById |-> r.resourcesById, groupsById |-> r.groupsById,
           projectsByType |-> r.projectsByType, jobIds |-> r.jobIds, resourceIds |-> r.resourceIds,
           definitions |-> r.definitions, effectDefinitions |-> r.effectDefinitions,
           success |-> well]
  BY <1>3 DEF IsRuleSet
<1>5. /\ IsRuleSet(s) /\ s.groupsById = r.groupsById /\ s.tables = r.tables
      /\ s.success <=> r.success /\ ImprovementsWell(r)
  BY <1>2, <1>4 DEF IsRuleSet, well
<1>6. Added(s, r.tables.improvement_groups, "improvement group",
            Len(r.tables.improvement_groups), c)
  <2>1. s.tables["improvement_groups"] = r.tables.improvement_groups
    BY <1>5
  <2>2. s.tables["improvement_groups"] \in Seq(ToSet(r.tables.improvement_groups))
    BY <2>1 DEF IsList
  <2> QED BY <1>1, <1>5, <2>1, <2>2, GroupsAreAdded
<1>7. IsRuleSet(c) /\ c = [s EXCEPT !.groupsById = c.groupsById, !.success = c.success]
  BY <1>6 DEF Added
<1>8. c = [tables |-> r.tables, improvementsByType |-> index, jobsByType |-> r.jobsByType,
           resourcesById |-> r.resourcesById, groupsById |-> c.groupsById,
           projectsByType |-> r.projectsByType, jobIds |-> r.jobIds, resourceIds |-> r.resourceIds,
           definitions |-> r.definitions, effectDefinitions |-> r.effectDefinitions,
           success |-> c.success]
  BY <1>4, <1>7
<1>9. \E u : /\ IsRuleSet(u) /\ u.groupsById = r.groupsById
             /\ u.success <=> r.success /\ ImprovementsWell(r)
             /\ Added(u, r.tables.improvement_groups, "improvement group",
                      Len(r.tables.improvement_groups), c)
  BY <1>5, <1>6
<1> QED BY <1>7, <1>8, <1>9 DEF index, c

\* The base of both orders.
LEMMA BaseIs ==
  ASSUME NEW tables
  PROVE  /\ IsRuleSet(Base(tables))
         /\ Base(tables) = [
                tables |-> tables, improvementsByType |-> NoIndex, jobsByType |-> NoIndex,
                resourcesById |-> NoIndex, groupsById |-> NoIndex, projectsByType |-> NoIndex,
                jobIds |-> <<>>, resourceIds |-> <<>>, definitions |-> EmptyTables,
                effectDefinitions |-> <<>>, success |-> TRUE]
<1>1. Base(tables) = [
          tables |-> tables, improvementsByType |-> NoIndex, jobsByType |-> NoIndex,
          resourcesById |-> NoIndex, groupsById |-> NoIndex, projectsByType |-> NoIndex,
          jobIds |-> <<>>, resourceIds |-> <<>>, definitions |-> EmptyTables,
          effectDefinitions |-> <<>>, success |-> TRUE]
  <2>1. Base(tables) = [EmptyRuleSet EXCEPT !.tables = tables]
    BY DEF Base
  <2>2. EmptyRuleSet = [
            tables |-> NoObjects, improvementsByType |-> NoIndex, jobsByType |-> NoIndex,
            resourcesById |-> NoIndex, groupsById |-> NoIndex, projectsByType |-> NoIndex,
            jobIds |-> <<>>, resourceIds |-> <<>>, definitions |-> EmptyTables,
            effectDefinitions |-> <<>>, success |-> TRUE]
    BY DEF EmptyRuleSet
  <2> QED BY <2>1, <2>2
<1>2. NoIndex = [id \in DOMAIN NoIndex |-> NoIndex[id]]
  BY DEF NoIndex
<1> QED BY <1>1, <1>2 DEF IsRuleSet

\* Loading: resources, jobs and their groups, improvements and theirs.
LEMMA ClassesLoadedAre ==
  ASSUME NEW tables, AreTables(tables)
  PROVE  LET c == ClassesLoaded(tables)
         IN  /\ IsRuleSet(c) /\ c.tables = tables
             /\ c.definitions = EmptyTables /\ c.effectDefinitions = <<>>
             /\ c.success <=>
                   /\ ClassesAreWell(tables)
                   /\ \A improvement \in ToSet(tables.improvements) :
                         improvement.jobs \subseteq ValidIdsOf(tables.jobs)
             /\ c.success => c = Classes(tables, c.groupsById) /\ GroupIndex(tables, c.groupsById)
             /\ c = [Classes(tables, c.groupsById) EXCEPT !.success = c.success]
             /\ GroupsLead(c)
<1> DEFINE b == Base(tables)
           r == LoadResources(b)
           j == LoadJobs(r)
           c == LoadImprovements(j)
           resourcesById == Emplace(NoIndex, tables.resources, ToSet(ValidIds(tables.resources)))
           jobsByType == Emplace(NoIndex, tables.jobs, ToSet(ValidIds(tables.jobs)))
           improvementsByType ==
               Emplace(NoIndex, tables.improvements, ToSet(ValidIds(tables.improvements)))
           jobIds == <<>> \o ValidIds(tables.jobs)
           resourceIds == <<>> \o ValidIds(tables.resources)
<1>1. ClassesLoaded(tables) = c
  BY DEF ClassesLoaded
<1> HIDE DEF b, r, j, c, resourcesById, jobsByType, improvementsByType, jobIds, resourceIds
<1>2. /\ IsRuleSet(b)
      /\ b = [tables |-> tables, improvementsByType |-> NoIndex, jobsByType |-> NoIndex,
              resourcesById |-> NoIndex, groupsById |-> NoIndex, projectsByType |-> NoIndex,
              jobIds |-> <<>>, resourceIds |-> <<>>, definitions |-> EmptyTables,
              effectDefinitions |-> <<>>, success |-> TRUE]
  BY BaseIs DEF b
<1>3. /\ r = [tables |-> tables, improvementsByType |-> NoIndex, jobsByType |-> NoIndex,
              resourcesById |-> resourcesById, groupsById |-> NoIndex,
              projectsByType |-> NoIndex, jobIds |-> <<>>, resourceIds |-> resourceIds,
              definitions |-> EmptyTables, effectDefinitions |-> <<>>,
              success |-> r.success]
      /\ IsRuleSet(r)
      /\ r.success <=> ValidateIdentifiers(tables.resources)
  <2>1. /\ r = [tables |-> b.tables, improvementsByType |-> b.improvementsByType,
                jobsByType |-> b.jobsByType,
                resourcesById |-> Emplace(b.resourcesById, b.tables.resources,
                                          ToSet(ValidIds(b.tables.resources))),
                groupsById |-> b.groupsById, projectsByType |-> b.projectsByType,
                jobIds |-> b.jobIds,
                resourceIds |-> b.resourceIds \o ValidIds(b.tables.resources),
                definitions |-> b.definitions, effectDefinitions |-> b.effectDefinitions,
                success |-> b.success /\ ValidateIdentifiers(b.tables.resources)]
        /\ IsRuleSet(r)
    BY <1>2, ResourcesAre DEF r
  <2>2. /\ b.tables = tables /\ b.improvementsByType = NoIndex /\ b.jobsByType = NoIndex
        /\ b.resourcesById = NoIndex /\ b.groupsById = NoIndex /\ b.projectsByType = NoIndex
        /\ b.jobIds = <<>> /\ b.resourceIds = <<>> /\ b.definitions = EmptyTables
        /\ b.effectDefinitions = <<>> /\ b.success = TRUE
    BY <1>2
  <2> QED BY <2>1, <2>2 DEF resourcesById, resourceIds
<1>4. IsList(tables.job_groups) /\ IsList(tables.improvement_groups)
  BY TablesAreLists
<1>5. PICK s : /\ IsRuleSet(s) /\ s.groupsById = NoIndex
               /\ s.success <=> r.success /\ JobsWell(r)
               /\ Added(s, tables.job_groups, "job group", Len(tables.job_groups), j)
  <2>1. r.tables = tables /\ r.groupsById = NoIndex
    BY <1>3
  <2>2. \E s : /\ IsRuleSet(s) /\ s.groupsById = r.groupsById
               /\ s.success <=> r.success /\ JobsWell(r)
               /\ Added(s, r.tables.job_groups, "job group", Len(r.tables.job_groups), j)
    <3>1. IsRuleSet(r) /\ IsList(r.tables.job_groups)
      BY <1>3, <1>4, <2>1
    <3> QED BY <3>1, JobsAre DEF j
  <2> QED BY <2>1, <2>2
<1>6. /\ j = [tables |-> tables, improvementsByType |-> NoIndex, jobsByType |-> jobsByType,
              resourcesById |-> resourcesById, groupsById |-> j.groupsById,
              projectsByType |-> NoIndex, jobIds |-> jobIds, resourceIds |-> resourceIds,
              definitions |-> EmptyTables, effectDefinitions |-> <<>>, success |-> j.success]
      /\ IsRuleSet(j)
  <2>1. /\ r.tables = tables /\ r.improvementsByType = NoIndex /\ r.jobsByType = NoIndex
        /\ r.resourcesById = resourcesById /\ r.projectsByType = NoIndex
        /\ r.jobIds = <<>> /\ r.resourceIds = resourceIds /\ r.definitions = EmptyTables
        /\ r.effectDefinitions = <<>>
    BY <1>3
  <2>2. /\ j = [tables |-> r.tables, improvementsByType |-> r.improvementsByType,
                jobsByType |-> Emplace(r.jobsByType, r.tables.jobs,
                                       ToSet(ValidIds(r.tables.jobs))),
                resourcesById |-> r.resourcesById, groupsById |-> j.groupsById,
                projectsByType |-> r.projectsByType,
                jobIds |-> r.jobIds \o ValidIds(r.tables.jobs),
                resourceIds |-> r.resourceIds, definitions |-> r.definitions,
                effectDefinitions |-> r.effectDefinitions, success |-> j.success]
        /\ IsRuleSet(j)
    <3>1. IsRuleSet(r) /\ IsList(r.tables.job_groups)
      BY <1>3, <1>4, <2>1
    <3> QED BY <3>1, JobsAre DEF j
  <2> QED BY <2>1, <2>2 DEF jobsByType, jobIds
<1>7. PICK t : /\ IsRuleSet(t) /\ t.groupsById = j.groupsById
               /\ t.success <=> j.success /\ ImprovementsWell(j)
               /\ Added(t, tables.improvement_groups, "improvement group",
                        Len(tables.improvement_groups), c)
  <2>1. j.tables = tables
    BY <1>6
  <2>2. \E t : /\ IsRuleSet(t) /\ t.groupsById = j.groupsById
               /\ t.success <=> j.success /\ ImprovementsWell(j)
               /\ Added(t, j.tables.improvement_groups, "improvement group",
                        Len(j.tables.improvement_groups), c)
    <3>1. IsRuleSet(j) /\ IsList(j.tables.improvement_groups)
      BY <1>4, <1>6, <2>1
    <3> QED BY <3>1, ImprovementsAre DEF c
  <2> QED BY <2>1, <2>2
<1>8. /\ c = [tables |-> tables, improvementsByType |-> improvementsByType,
              jobsByType |-> jobsByType,
              resourcesById |-> resourcesById, groupsById |-> c.groupsById,
              projectsByType |-> NoIndex, jobIds |-> jobIds, resourceIds |-> resourceIds,
              definitions |-> EmptyTables, effectDefinitions |-> <<>>, success |-> c.success]
      /\ IsRuleSet(c)
  <2>1. /\ j.tables = tables /\ j.improvementsByType = NoIndex /\ j.jobsByType = jobsByType
        /\ j.resourcesById = resourcesById /\ j.projectsByType = NoIndex
        /\ j.jobIds = jobIds /\ j.resourceIds = resourceIds /\ j.definitions = EmptyTables
        /\ j.effectDefinitions = <<>>
    BY <1>6
  <2>2. /\ c = [tables |-> j.tables,
                improvementsByType |-> Emplace(j.improvementsByType, j.tables.improvements,
                                               ToSet(ValidIds(j.tables.improvements))),
                jobsByType |-> j.jobsByType,
                resourcesById |-> j.resourcesById, groupsById |-> c.groupsById,
                projectsByType |-> j.projectsByType, jobIds |-> j.jobIds,
                resourceIds |-> j.resourceIds, definitions |-> j.definitions,
                effectDefinitions |-> j.effectDefinitions, success |-> c.success]
        /\ IsRuleSet(c)
    <3>1. IsRuleSet(j) /\ IsList(j.tables.improvement_groups)
      BY <1>4, <1>6, <2>1
    <3> QED BY <3>1, ImprovementsAre DEF c
  <2> QED BY <2>1, <2>2 DEF improvementsByType
<1>9. /\ c.success <=> t.success /\ GroupsSeparate(tables)
      /\ c.success => GroupIndex(tables, c.groupsById)
  <2>1. Len(tables.job_groups) \in Nat /\ Len(tables.improvement_groups) \in Nat
    BY <1>4 DEF IsList
  <2>2. DOMAIN s.groupsById = {} /\ t.groupsById = j.groupsById /\ (t.success => j.success)
    BY <1>5, <1>7 DEF NoIndex
  <2>3. /\ c.success <=> /\ t.success
                          /\ Separate(tables.job_groups, tables.improvement_groups)
                          /\ Separate(tables.improvement_groups, tables.job_groups)
        /\ c.success => FindsBoth(c.groupsById, tables.job_groups, "job group",
                                  tables.improvement_groups, "improvement group")
    BY <1>5, <1>7, <2>1, <2>2, BothAreAdded
  <2> QED BY <2>3 DEF GroupsSeparate, GroupIndex
<1>10. j.success <=> s.success /\ Fresh(NoIndex, tables.job_groups, Len(tables.job_groups))
  BY <1>5 DEF Added
<1>11. GroupsSeparate(tables) => Fresh(NoIndex, tables.job_groups, Len(tables.job_groups))
  BY DEF GroupsSeparate, Separate, Fresh, NoIndex
<1>12. /\ DOMAIN resourcesById = ValidIdsOf(tables.resources)
       /\ DOMAIN jobsByType = ValidIdsOf(tables.jobs)
  BY EmplaceInEmpty, TablesAreLists, ValidIdsAre DEF resourcesById, jobsByType
<1>13. /\ r.resourcesById = resourcesById /\ j.jobsByType = jobsByType
       /\ r.tables = tables /\ j.tables = tables
  BY <1>3, <1>6
<1>14. c.success <=> /\ ClassesAreWell(tables)
                     /\ \A improvement \in ToSet(tables.improvements) :
                           improvement.jobs \subseteq ValidIdsOf(tables.jobs)
  <2>1. JobsWell(r) <=>
          /\ ValidateIdentifiers(tables.jobs)
          /\ \A job \in ToSet(tables.jobs) :
                job.input \cup job.output \subseteq ValidIdsOf(tables.resources)
    BY <1>12, <1>13 DEF JobsWell
  <2>2. ImprovementsWell(j) <=>
          /\ ValidateIdentifiers(tables.improvements)
          /\ \A improvement \in ToSet(tables.improvements) :
                improvement.jobs \subseteq ValidIdsOf(tables.jobs)
    BY <1>12, <1>13 DEF ImprovementsWell
  <2>3. c.success <=> /\ ValidateIdentifiers(tables.resources) /\ JobsWell(r)
                      /\ GroupsSeparate(tables) /\ ImprovementsWell(j)
    BY <1>3, <1>5, <1>7, <1>9, <1>10, <1>11
  <2> QED BY <2>1, <2>2, <2>3 DEF ClassesAreWell
<1>15. c.success => c = Classes(tables, c.groupsById)
  <2> SUFFICES ASSUME c.success PROVE c = Classes(tables, c.groupsById)
    OBVIOUS
  <2>1. c.success = TRUE
    BY <1>8 DEF IsRuleSet
  <2> QED BY <1>8, <2>1
          DEF Classes, improvementsByType, jobsByType, resourcesById, jobIds, resourceIds
<1>16. c.tables = tables /\ c.definitions = EmptyTables /\ c.effectDefinitions = <<>>
  BY <1>8
<1>17. c = [Classes(tables, c.groupsById) EXCEPT !.success = c.success]
  BY <1>8 DEF Classes, improvementsByType, jobsByType, resourcesById, jobIds, resourceIds
<1>18. GroupsLead(c)
  <2>1. DOMAIN s.groupsById = {} /\ t.groupsById = j.groupsById
    BY <1>5, <1>7 DEF NoIndex
  <2>2. /\ DOMAIN c.groupsById =
               ValidIdsOf(tables.job_groups) \cup ValidIdsOf(tables.improvement_groups)
        /\ \A id \in DOMAIN c.groupsById :
              \/ Enters(c.groupsById, tables.job_groups, "job group",
                        Len(tables.job_groups), id)
              \/ Enters(c.groupsById, tables.improvement_groups, "improvement group",
                        Len(tables.improvement_groups), id)
    BY <1>4, <1>5, <1>7, <2>1, BothAreLed
  <2> QED BY <1>4, <1>16, <2>2, GroupsAreLed
<1> QED BY <1>1, <1>8, <1>9, <1>14, <1>15, <1>16, <1>17, <1>18

\* Restoring: improvements and their groups, while there are no jobs, then resources, jobs
\* and theirs.
LEMMA ClassesRestoredAre ==
  ASSUME NEW tables, AreTables(tables)
  PROVE  LET c == ClassesRestored(tables)
         IN  /\ IsRuleSet(c) /\ c.tables = tables
             /\ c.definitions = EmptyTables /\ c.effectDefinitions = <<>>
             /\ c.success <=>
                   /\ ClassesAreWell(tables)
                   /\ \A improvement \in ToSet(tables.improvements) : improvement.jobs \subseteq {}
             /\ c.success => c = Classes(tables, c.groupsById) /\ GroupIndex(tables, c.groupsById)
             /\ c = [Classes(tables, c.groupsById) EXCEPT !.success = c.success]
             /\ GroupsLead(c)
<1> DEFINE b == Base(tables)
           m == LoadImprovements(b)
           r == LoadResources(m)
           c == LoadJobs(r)
           resourcesById == Emplace(NoIndex, tables.resources, ToSet(ValidIds(tables.resources)))
           jobsByType == Emplace(NoIndex, tables.jobs, ToSet(ValidIds(tables.jobs)))
           improvementsByType ==
               Emplace(NoIndex, tables.improvements, ToSet(ValidIds(tables.improvements)))
           jobIds == <<>> \o ValidIds(tables.jobs)
           resourceIds == <<>> \o ValidIds(tables.resources)
<1>1. ClassesRestored(tables) = c
  BY DEF ClassesRestored
<1> HIDE DEF b, m, r, c, resourcesById, jobsByType, improvementsByType, jobIds, resourceIds
<1>2. /\ IsRuleSet(b)
      /\ b = [tables |-> tables, improvementsByType |-> NoIndex, jobsByType |-> NoIndex,
              resourcesById |-> NoIndex, groupsById |-> NoIndex, projectsByType |-> NoIndex,
              jobIds |-> <<>>, resourceIds |-> <<>>, definitions |-> EmptyTables,
              effectDefinitions |-> <<>>, success |-> TRUE]
  BY BaseIs DEF b
<1>3. IsList(tables.job_groups) /\ IsList(tables.improvement_groups)
  BY TablesAreLists
<1>4. PICK t : /\ IsRuleSet(t) /\ t.groupsById = NoIndex
               /\ t.success <=> ImprovementsWell(b)
               /\ Added(t, tables.improvement_groups, "improvement group",
                        Len(tables.improvement_groups), m)
  <2>1. b.tables = tables /\ b.groupsById = NoIndex /\ b.success = TRUE
    BY <1>2
  <2>2. \E t : /\ IsRuleSet(t) /\ t.groupsById = b.groupsById
               /\ t.success <=> b.success /\ ImprovementsWell(b)
               /\ Added(t, b.tables.improvement_groups, "improvement group",
                        Len(b.tables.improvement_groups), m)
    <3>1. IsRuleSet(b) /\ IsList(b.tables.improvement_groups)
      BY <1>2, <1>3, <2>1
    <3> QED BY <3>1, ImprovementsAre DEF m
  <2> QED BY <2>1, <2>2
<1>5. /\ m = [tables |-> tables, improvementsByType |-> improvementsByType,
              jobsByType |-> NoIndex, resourcesById |-> NoIndex, groupsById |-> m.groupsById,
              projectsByType |-> NoIndex, jobIds |-> <<>>, resourceIds |-> <<>>,
              definitions |-> EmptyTables, effectDefinitions |-> <<>>, success |-> m.success]
      /\ IsRuleSet(m)
  <2>1. /\ b.tables = tables /\ b.improvementsByType = NoIndex /\ b.jobsByType = NoIndex
        /\ b.resourcesById = NoIndex /\ b.projectsByType = NoIndex
        /\ b.jobIds = <<>> /\ b.resourceIds = <<>> /\ b.definitions = EmptyTables
        /\ b.effectDefinitions = <<>>
    BY <1>2
  <2>2. /\ m = [tables |-> b.tables,
                improvementsByType |-> Emplace(b.improvementsByType, b.tables.improvements,
                                               ToSet(ValidIds(b.tables.improvements))),
                jobsByType |-> b.jobsByType,
                resourcesById |-> b.resourcesById, groupsById |-> m.groupsById,
                projectsByType |-> b.projectsByType, jobIds |-> b.jobIds,
                resourceIds |-> b.resourceIds, definitions |-> b.definitions,
                effectDefinitions |-> b.effectDefinitions, success |-> m.success]
        /\ IsRuleSet(m)
    <3>1. IsRuleSet(b) /\ IsList(b.tables.improvement_groups)
      BY <1>2, <1>3, <2>1
    <3> QED BY <3>1, ImprovementsAre DEF m
  <2> QED BY <2>1, <2>2 DEF improvementsByType
<1>6. /\ r = [tables |-> tables, improvementsByType |-> improvementsByType,
              jobsByType |-> NoIndex, resourcesById |-> resourcesById,
              groupsById |-> m.groupsById, projectsByType |-> NoIndex, jobIds |-> <<>>,
              resourceIds |-> resourceIds, definitions |-> EmptyTables,
              effectDefinitions |-> <<>>, success |-> r.success]
      /\ IsRuleSet(r)
      /\ r.success <=> m.success /\ ValidateIdentifiers(tables.resources)
  <2>1. /\ r = [tables |-> m.tables, improvementsByType |-> m.improvementsByType,
                jobsByType |-> m.jobsByType,
                resourcesById |-> Emplace(m.resourcesById, m.tables.resources,
                                          ToSet(ValidIds(m.tables.resources))),
                groupsById |-> m.groupsById, projectsByType |-> m.projectsByType,
                jobIds |-> m.jobIds,
                resourceIds |-> m.resourceIds \o ValidIds(m.tables.resources),
                definitions |-> m.definitions, effectDefinitions |-> m.effectDefinitions,
                success |-> m.success /\ ValidateIdentifiers(m.tables.resources)]
        /\ IsRuleSet(r)
    BY <1>5, ResourcesAre DEF r
  <2>2. /\ m.tables = tables /\ m.improvementsByType = improvementsByType
        /\ m.jobsByType = NoIndex /\ m.resourcesById = NoIndex /\ m.projectsByType = NoIndex
        /\ m.jobIds = <<>> /\ m.resourceIds = <<>> /\ m.definitions = EmptyTables
        /\ m.effectDefinitions = <<>>
    BY <1>5
  <2> QED BY <2>1, <2>2 DEF resourcesById, resourceIds
<1>7. PICK s : /\ IsRuleSet(s) /\ s.groupsById = m.groupsById
               /\ s.success <=> r.success /\ JobsWell(r)
               /\ Added(s, tables.job_groups, "job group", Len(tables.job_groups), c)
  <2>1. r.tables = tables /\ r.groupsById = m.groupsById
    BY <1>6
  <2>2. \E s : /\ IsRuleSet(s) /\ s.groupsById = r.groupsById
               /\ s.success <=> r.success /\ JobsWell(r)
               /\ Added(s, r.tables.job_groups, "job group", Len(r.tables.job_groups), c)
    <3>1. IsRuleSet(r) /\ IsList(r.tables.job_groups)
      BY <1>3, <1>6, <2>1
    <3> QED BY <3>1, JobsAre DEF c
  <2> QED BY <2>1, <2>2
<1>8. /\ c = [tables |-> tables, improvementsByType |-> improvementsByType,
              jobsByType |-> jobsByType,
              resourcesById |-> resourcesById, groupsById |-> c.groupsById,
              projectsByType |-> NoIndex, jobIds |-> jobIds, resourceIds |-> resourceIds,
              definitions |-> EmptyTables, effectDefinitions |-> <<>>, success |-> c.success]
      /\ IsRuleSet(c)
  <2>1. /\ r.tables = tables /\ r.improvementsByType = improvementsByType
        /\ r.jobsByType = NoIndex /\ r.resourcesById = resourcesById
        /\ r.projectsByType = NoIndex /\ r.jobIds = <<>> /\ r.resourceIds = resourceIds
        /\ r.definitions = EmptyTables /\ r.effectDefinitions = <<>>
    BY <1>6
  <2>2. /\ c = [tables |-> r.tables, improvementsByType |-> r.improvementsByType,
                jobsByType |-> Emplace(r.jobsByType, r.tables.jobs,
                                       ToSet(ValidIds(r.tables.jobs))),
                resourcesById |-> r.resourcesById, groupsById |-> c.groupsById,
                projectsByType |-> r.projectsByType,
                jobIds |-> r.jobIds \o ValidIds(r.tables.jobs),
                resourceIds |-> r.resourceIds, definitions |-> r.definitions,
                effectDefinitions |-> r.effectDefinitions, success |-> c.success]
        /\ IsRuleSet(c)
    <3>1. IsRuleSet(r) /\ IsList(r.tables.job_groups)
      BY <1>3, <1>6, <2>1
    <3> QED BY <3>1, JobsAre DEF c
  <2> QED BY <2>1, <2>2 DEF jobsByType, jobIds
<1>9. /\ c.success <=> s.success /\ GroupsSeparate(tables)
      /\ c.success => GroupIndex(tables, c.groupsById)
  <2>1. Len(tables.job_groups) \in Nat /\ Len(tables.improvement_groups) \in Nat
    BY <1>3 DEF IsList
  <2>2. DOMAIN t.groupsById = {} /\ s.groupsById = m.groupsById /\ (s.success => m.success)
    BY <1>4, <1>6, <1>7 DEF NoIndex
  <2>3. /\ c.success <=> /\ s.success
                          /\ Separate(tables.improvement_groups, tables.job_groups)
                          /\ Separate(tables.job_groups, tables.improvement_groups)
        /\ c.success => FindsBoth(c.groupsById, tables.improvement_groups, "improvement group",
                                  tables.job_groups, "job group")
    BY <1>4, <1>7, <2>1, <2>2, BothAreAdded
  <2>4. c.success => GroupIndex(tables, c.groupsById)
    BY <2>3 DEF GroupIndex, FindsBoth
  <2> QED BY <2>3, <2>4 DEF GroupsSeparate
<1>10. m.success <=> /\ t.success
                     /\ Fresh(NoIndex, tables.improvement_groups, Len(tables.improvement_groups))
  BY <1>4 DEF Added
<1>11. GroupsSeparate(tables) =>
          Fresh(NoIndex, tables.improvement_groups, Len(tables.improvement_groups))
  BY DEF GroupsSeparate, Separate, Fresh, NoIndex
<1>12. DOMAIN resourcesById = ValidIdsOf(tables.resources) /\ DOMAIN NoIndex = {}
  BY EmplaceInEmpty, TablesAreLists, ValidIdsAre DEF resourcesById, NoIndex
<1>13. /\ r.resourcesById = resourcesById /\ b.jobsByType = NoIndex
       /\ r.tables = tables /\ b.tables = tables
  BY <1>2, <1>6
<1>14. c.success <=> /\ ClassesAreWell(tables)
                     /\ \A improvement \in ToSet(tables.improvements) :
                           improvement.jobs \subseteq {}
  <2>1. JobsWell(r) <=>
          /\ ValidateIdentifiers(tables.jobs)
          /\ \A job \in ToSet(tables.jobs) :
                job.input \cup job.output \subseteq ValidIdsOf(tables.resources)
    BY <1>12, <1>13 DEF JobsWell
  <2>2. ImprovementsWell(b) <=>
          /\ ValidateIdentifiers(tables.improvements)
          /\ \A improvement \in ToSet(tables.improvements) : improvement.jobs \subseteq {}
    BY <1>12, <1>13 DEF ImprovementsWell
  <2>3. c.success <=> /\ ValidateIdentifiers(tables.resources) /\ JobsWell(r)
                      /\ GroupsSeparate(tables) /\ ImprovementsWell(b)
    BY <1>4, <1>6, <1>7, <1>9, <1>10, <1>11
  <2> QED BY <2>1, <2>2, <2>3 DEF ClassesAreWell
<1>15. c.success => c = Classes(tables, c.groupsById)
  <2> SUFFICES ASSUME c.success PROVE c = Classes(tables, c.groupsById)
    OBVIOUS
  <2>1. c.success = TRUE
    BY <1>8 DEF IsRuleSet
  <2> QED BY <1>8, <2>1
          DEF Classes, improvementsByType, jobsByType, resourcesById, jobIds, resourceIds
<1>16. c.tables = tables /\ c.definitions = EmptyTables /\ c.effectDefinitions = <<>>
  BY <1>8
<1>17. c = [Classes(tables, c.groupsById) EXCEPT !.success = c.success]
  BY <1>8 DEF Classes, improvementsByType, jobsByType, resourcesById, jobIds, resourceIds
<1>18. GroupsLead(c)
  <2>1. DOMAIN t.groupsById = {} /\ s.groupsById = m.groupsById
    BY <1>4, <1>7 DEF NoIndex
  <2>2. /\ DOMAIN c.groupsById =
               ValidIdsOf(tables.improvement_groups) \cup ValidIdsOf(tables.job_groups)
        /\ \A id \in DOMAIN c.groupsById :
              \/ Enters(c.groupsById, tables.improvement_groups, "improvement group",
                        Len(tables.improvement_groups), id)
              \/ Enters(c.groupsById, tables.job_groups, "job group",
                        Len(tables.job_groups), id)
    BY <1>3, <1>4, <1>7, <2>1, BothAreLed
  <2> QED BY <1>3, <1>16, <2>2, GroupsAreLed
<1> QED BY <1>1, <1>8, <1>9, <1>14, <1>15, <1>16, <1>17, <1>18

-----------------------------------------------------------------------------
(* Definitions of variables.                                               *)

OneType(d) == Numbers(d) \cap Strings(d) = {}

\* The definitions of an empty ruleset.
LEMMA NoDefinitionsAreSeparate ==
  /\ OneType(EmptyTables) /\ IsTables(EmptyTables)
  /\ Numbers(EmptyTables) = {} /\ Strings(EmptyTables) = {}
  /\ \A domain \in FixedDomains : EmptyTables.domains[domain] = Unset
BY EmptyTable DEF OneType, EmptyTables, Tables, Numbers, Strings, IsTables

\* So many variables define no more than this, and no less.
OfSome(d, variables, n) ==
    /\ \A id \in Numbers(d) : \E i \in 1 .. n :
          variables[i].type \in {"numeric", "boolean"} /\ DefinedId(variables[i]) = id
    /\ \A id \in Strings(d) : \E i \in 1 .. n :
          variables[i].type = "string" /\ DefinedId(variables[i]) = id
OfAll(d, variables, n) ==
    \A i \in 1 .. n :
       /\ variables[i].type \in {"numeric", "boolean"} => DefinedId(variables[i]) \in Numbers(d)
       /\ variables[i].type = "string" => DefinedId(variables[i]) \in Strings(d)

\* One more definition is of the id and the type that its variable declares.
LEMMA DefinedIs ==
  ASSUME NEW d, NEW variable, Accepts(d, variable)
  PROVE  LET a == Add(d, variable)
         IN  /\ IsTables(a)
             /\ \/ /\ variable.type \in {"numeric", "boolean"}
                   /\ Numbers(a) = Numbers(d) \cup {DefinedId(variable)}
                   /\ Strings(a) = Strings(d)
                \/ /\ variable.type = "string"
                   /\ Strings(a) = Strings(d) \cup {DefinedId(variable)}
                   /\ Numbers(a) = Numbers(d)
<1> DEFINE id == variable.id
           a == Add(d, variable)
           numeric == variable.type \in {"numeric", "boolean"}
           string == variable.type = "string"
           Result == /\ IsTables(a)
                     /\ \/ /\ numeric /\ Strings(a) = Strings(d)
                           /\ Numbers(a) = Numbers(d) \cup {DefinedId(variable)}
                        \/ /\ string /\ Numbers(a) = Numbers(d)
                           /\ Strings(a) = Strings(d) \cup {DefinedId(variable)}
<1> SUFFICES Result
  OBVIOUS
<1>1. \/ numeric /\ DefinedId(variable) = id /\ a = AddNumericDefinition(d, id)
      \/ string /\ DefinedId(variable) = id /\ a = AddStringDefinition(d, id)
      \/ /\ numeric /\ DefinedId(variable) = DefinitionId(id)
         /\ a = AddParameterizedNumericDefinition(d, id)
      \/ /\ string /\ DefinedId(variable) = DefinitionId(id)
         /\ a = AddParameterizedStringDefinition(d, id)
  BY DEF Accepts, Add, DefinedId
<1> HIDE DEF a, id, numeric, string
<1>2. \A table : DOMAIN With(table, id, d.domains) = DOMAIN table \cup {DefinitionId(id)}
  BY DEF With
<1> USE DEF IsTables, Numbers, Strings, Tables
<1> HIDE DEF Result
<1>3. CASE numeric /\ DefinedId(variable) = id /\ a = AddNumericDefinition(d, id)
  BY <1>3 DEF AddNumericDefinition, Result
<1>4. CASE string /\ DefinedId(variable) = id /\ a = AddStringDefinition(d, id)
  BY <1>4 DEF AddStringDefinition, Result
<1>5. CASE /\ numeric /\ DefinedId(variable) = DefinitionId(id)
           /\ a = AddParameterizedNumericDefinition(d, id)
  <2> DEFINE t == With(d.numericPatterns, id, d.domains)
  <2>1. /\ a = Tables(d.numeric, d.string, t, d.stringPatterns, d.domains)
        /\ DOMAIN t = DOMAIN d.numericPatterns \cup {DefinitionId(id)}
    BY <1>2, <1>5 DEF AddParameterizedNumericDefinition
  <2> HIDE DEF t
  <2> QED BY <1>5, <2>1 DEF Result
<1>6. CASE /\ string /\ DefinedId(variable) = DefinitionId(id)
           /\ a = AddParameterizedStringDefinition(d, id)
  <2> DEFINE t == With(d.stringPatterns, id, d.domains)
  <2>1. /\ a = Tables(d.numeric, d.string, d.numericPatterns, t, d.domains)
        /\ DOMAIN t = DOMAIN d.stringPatterns \cup {DefinitionId(id)}
    BY <1>2, <1>6 DEF AddParameterizedStringDefinition
  <2> HIDE DEF t
  <2> QED BY <1>6, <2>1 DEF Result
<1> QED BY <1>1, <1>3, <1>4, <1>5, <1>6

\* One more definition keeps the domains, and one type per id (each Add looks at the
\* tables it must).
LEMMA DefinitionIsAdded ==
  ASSUME NEW d, NEW variable, Accepts(d, variable)
  PROVE  Add(d, variable).domains = d.domains /\ (OneType(d) => OneType(Add(d, variable)))
<1> DEFINE id == variable.id
           a == Add(d, variable)
<1> USE DEF OneType, Numbers, Strings, Tables
<1>1. \/ /\ AcceptsNumeric(d, id) /\ a = AddNumericDefinition(d, id)
      \/ /\ AcceptsString(d, id) /\ a = AddStringDefinition(d, id)
      \/ /\ AcceptsParameterizedNumeric(d, id) /\ a = AddParameterizedNumericDefinition(d, id)
      \/ /\ AcceptsParameterizedString(d, id) /\ a = AddParameterizedStringDefinition(d, id)
  BY DEF Accepts, Add
<1> HIDE DEF id, a
<1>2. CASE AcceptsNumeric(d, id) /\ a = AddNumericDefinition(d, id)
  <2>1. OneType(d) => id \notin Strings(d)
    BY <1>2 DEF AcceptsNumeric, GetVariableType
  <2> QED BY <1>2, <2>1 DEF AddNumericDefinition, a
<1>3. CASE AcceptsString(d, id) /\ a = AddStringDefinition(d, id)
  <2>1. OneType(d) => id \notin Numbers(d)
    BY <1>3 DEF AcceptsString, GetVariableType
  <2> QED BY <1>3, <2>1 DEF AddStringDefinition, a
<1>4. CASE AcceptsParameterizedNumeric(d, id) /\ a = AddParameterizedNumericDefinition(d, id)
  <2>1. OneType(d) => DefinitionId(id) \notin Strings(d)
    BY <1>4 DEF AcceptsParameterizedNumeric, GetVariableType
  <2>2. DOMAIN With(d.numericPatterns, id, d.domains)
            = DOMAIN d.numericPatterns \cup {DefinitionId(id)}
    BY DEF With
  <2> QED BY <1>4, <2>1, <2>2 DEF AddParameterizedNumericDefinition, a
<1>5. CASE AcceptsParameterizedString(d, id) /\ a = AddParameterizedStringDefinition(d, id)
  <2>1. OneType(d) => DefinitionId(id) \notin Numbers(d)
    BY <1>5 DEF AcceptsParameterizedString, GetVariableType
  <2>2. DOMAIN With(d.stringPatterns, id, d.domains)
            = DOMAIN d.stringPatterns \cup {DefinitionId(id)}
    BY DEF With
  <2> QED BY <1>5, <2>1, <2>2 DEF AddParameterizedStringDefinition, a
<1> QED BY <1>1, <1>2, <1>3, <1>4, <1>5 DEF a

\* A ruleset that differs from another one in definitions and success alone, has these
\* domains, and defines what so many variables declare.
Defines(r, s, domains, variables, n) ==
    /\ IsRuleSet(s)
    /\ s = [r EXCEPT !.definitions = s.definitions, !.success = s.success]
    /\ s.definitions.domains = domains
    /\ IsTables(s.definitions) /\ OneType(s.definitions)
    /\ OfSome(s.definitions, variables, n)
    /\ s.success => OfAll(s.definitions, variables, n)

\* A variable changes the definitions and success only (LoadVariableDefinitions).
LEMMA VariableIsAdded ==
  ASSUME NEW r, IsRuleSet(r), NEW domains, NEW variables, NEW n \in Nat \ {0},
         NEW s, Defines(r, s, domains, variables, n - 1)
  PROVE  Defines(r, AddVariable(s, variables[n]), domains, variables, n)
<1> DEFINE variable == variables[n]
           a == AddVariable(s, variable)
           d == Add(s.definitions, variable)
<1>1. \A i : i \in 1 .. n <=> i \in 1 .. n - 1 \/ i = n
  OBVIOUS
<1>2. OfSome(s.definitions, variables, n)
  BY <1>1 DEF Defines, OfSome
<1>3. CASE ~s.success
  BY <1>2, <1>3 DEF AddVariable, Defines
<1>4. CASE s.success /\ Accepts(s.definitions, variable)
  <2>1. a = [s EXCEPT !.definitions = d]
    BY <1>4 DEF AddVariable
  <2>2. d.domains = domains /\ OneType(d)
    BY <1>4, DefinitionIsAdded DEF Defines
  <2>3. /\ IsTables(d)
        /\ \/ /\ variable.type \in {"numeric", "boolean"}
              /\ Numbers(d) = Numbers(s.definitions) \cup {DefinedId(variable)}
              /\ Strings(d) = Strings(s.definitions)
           \/ /\ variable.type = "string"
              /\ Strings(d) = Strings(s.definitions) \cup {DefinedId(variable)}
              /\ Numbers(d) = Numbers(s.definitions)
    BY <1>4, DefinedIs
  <2> HIDE DEF a, d
  <2>4. OfSome(d, variables, n)
    BY <1>1, <1>2, <2>3 DEF OfSome
  <2>5. OfAll(d, variables, n)
    <3>1. OfAll(s.definitions, variables, n - 1)
      BY <1>4 DEF Defines
    <3> QED BY <1>1, <2>3, <3>1 DEF OfAll
  <2>6. IsRuleSet(a) /\ a.definitions = d /\ a.success = s.success
    BY <2>1 DEF Defines, IsRuleSet
  <2>7. a = [r EXCEPT !.definitions = a.definitions, !.success = a.success]
    BY <2>1, <2>6 DEF Defines, IsRuleSet
  <2> QED BY <2>2, <2>3, <2>4, <2>5, <2>6, <2>7 DEF Defines, a
<1>5. CASE s.success /\ ~Accepts(s.definitions, variable)
  <2>1. a = [s EXCEPT !.success = FALSE]
    BY <1>5 DEF AddVariable
  <2> HIDE DEF a
  <2>2. IsRuleSet(a) /\ a.definitions = s.definitions /\ a.success = FALSE
    BY <2>1 DEF Defines, IsRuleSet
  <2>3. a = [r EXCEPT !.definitions = a.definitions, !.success = a.success]
    BY <2>1, <2>2 DEF Defines, IsRuleSet
  <2> QED BY <1>2, <2>2, <2>3 DEF Defines, a
<1> QED BY <1>3, <1>4, <1>5

\* The domains that LoadVariableDefinitions registers.
Registered(r) ==
    SetFixedParameterDomainValues(
        SetFixedParameterDomainValues(r.definitions, "job", r.jobIds), "resource", r.resourceIds)

\* The domains have the ids of jobs and resources, each once.
LEMMA RegisteredAre ==
  ASSUME NEW r, OneType(r.definitions)
  PROVE  /\ OneType(Registered(r)) /\ IsTables(Registered(r))
         /\ Numbers(Registered(r)) = Numbers(r.definitions)
         /\ Strings(Registered(r)) = Strings(r.definitions)
         /\ Registered(r).domains["job"] = Distinct(r.jobIds)
         /\ Registered(r).domains["resource"] = Distinct(r.resourceIds)
<1> DEFINE d == r.definitions
           e == SetFixedParameterDomainValues(d, "job", r.jobIds)
           f == SetFixedParameterDomainValues(e, "resource", r.resourceIds)
<1> USE DEF OneType, Numbers, Strings, Tables
<1>1. /\ Numbers(e) = Numbers(d) /\ Strings(e) = Strings(d)
      /\ \A n \in FixedDomains :
            e.domains[n] = IF n = "job" THEN Distinct(r.jobIds) ELSE d.domains[n]
  BY FillCurrent DEF SetFixedParameterDomainValues
<1> HIDE DEF e
<1>2. /\ Numbers(f) = Numbers(e) /\ Strings(f) = Strings(e)
      /\ \A n \in FixedDomains :
            f.domains[n] = IF n = "resource" THEN Distinct(r.resourceIds) ELSE e.domains[n]
  BY FillCurrent DEF SetFixedParameterDomainValues
<1>3. "job" \in FixedDomains /\ "resource" \in FixedDomains /\ "job" # "resource"
  BY FixedAssumption
<1>4. Registered(r) = f
  BY DEF Registered, e
<1>5. IsTables(f)
  BY DEF SetFixedParameterDomainValues, IsTables
<1> HIDE DEF f, d
<1> QED BY <1>1, <1>2, <1>3, <1>4, <1>5 DEF d

\* The definitions of a table are added one after the other, until one is refused.
LEMMA VariablesAreAdded ==
  ASSUME NEW r, NEW domains, NEW base, NEW variables, Len(variables) \in Nat,
         IsRuleSet(r), Defines(r, base, domains, variables, 0)
  PROVE  LET loaded[n \in 0 .. Len(variables)] ==
                 IF n = 0 THEN base ELSE AddVariable(loaded[n - 1], variables[n])
         IN  Defines(r, loaded[Len(variables)], domains, variables, Len(variables))
<1> DEFINE L == Len(variables)
           Solves(g) == g = [n \in 0 .. L |->
               IF n = 0 THEN base ELSE AddVariable(g[n - 1], variables[n])]
           loaded == CHOOSE g : Solves(g)
           Upto(n, f) == /\ f = [k \in 0 .. n |-> f[k]] /\ f[0] = base
                         /\ \A k \in 1 .. n : f[k] = AddVariable(f[k - 1], variables[k])
                         /\ Defines(r, f[n], domains, variables, n)
           G == {n \in 0 .. L : \E f : Upto(n, f)}
<1>1. /\ L \in Nat
      /\ \A n \in 1 .. L : n \in 0 .. L /\ n - 1 \in 0 .. L /\ n # 0
  OBVIOUS
<1> HIDE DEF L
<1>2. 0 \in G
  <2> DEFINE f == [k \in 0 .. 0 |-> base]
  <2>1. Upto(0, f) /\ 0 \in 0 .. L
    BY <1>1
  <2> HIDE DEF f, Upto
  <2> QED BY <2>1
<1>3. ASSUME NEW n \in 1 .. L, n - 1 \in G PROVE n \in G
  <2>1. PICK f : Upto(n - 1, f)
    BY <1>3
  <2> DEFINE u == f[n - 1]
             w == AddVariable(u, variables[n])
             h == [k \in 0 .. n |-> IF k = n THEN w ELSE f[k]]
  <2>2. /\ n \in 0 .. L /\ n - 1 \in 0 .. L /\ n # 0 /\ n \in Nat
        /\ n - 1 \in 0 .. n - 1 /\ \A k \in 0 .. n : k # n => k \in 0 .. n - 1
    BY <1>1
  <2>3. Defines(r, u, domains, variables, n - 1)
    BY <2>1
  <2>4. Defines(r, w, domains, variables, n)
    <3> HIDE DEF u
    <3> QED BY <2>2, <2>3, VariableIsAdded
  <2> HIDE DEF u, w
  <2>5. h = [k \in 0 .. n |-> h[k]]
    OBVIOUS
  <2>6. h[0] = base /\ h[n] = w
    BY <2>1, <2>2
  <2>7. ASSUME NEW k \in 1 .. n PROVE h[k] = AddVariable(h[k - 1], variables[k])
    <3>1. k \in 0 .. n /\ k - 1 \in 0 .. n /\ k - 1 # n /\ h[k - 1] = f[k - 1]
      BY <2>2
    <3>2. CASE k = n
      BY <2>6, <3>1, <3>2 DEF u, w
    <3>3. CASE k # n
      <4>1. k \in 1 .. n - 1 /\ h[k] = f[k]
        BY <2>2, <3>1, <3>3
      <4> QED BY <2>1, <3>1, <4>1
    <3> QED BY <3>2, <3>3
  <2> HIDE DEF h
  <2>8. Upto(n, h)
    BY <2>4, <2>5, <2>6, <2>7
  <2> HIDE DEF Upto
  <2> QED BY <2>2, <2>8
<1> HIDE DEF G
<1>4. 0 .. L \subseteq G
  BY <1>1, <1>2, <1>3, BoundedInduction
<1>5. PICK f : Upto(L, f)
  <2>1. L \in G
    BY <1>1, <1>4
  <2> HIDE DEF Upto
  <2> QED BY <2>1 DEF G
<1>6. Solves(f)
  <2>1. \A n \in 0 .. L : n = 0 \/ n \in 1 .. L
    BY <1>1
  <2>2. \A n \in 0 .. L : f[n] = IF n = 0 THEN base ELSE AddVariable(f[n - 1], variables[n])
    BY <1>1, <1>5, <2>1
  <2> QED BY <1>5, <2>2
<1>7. Solves(loaded)
  <2> HIDE DEF Solves, Upto
  <2> QED BY <1>6
<1> HIDE DEF loaded
<1>8. /\ loaded[0] = base
      /\ \A n \in 1 .. L : loaded[n] = AddVariable(loaded[n - 1], variables[n])
  <2>1. 0 \in 0 .. L
    BY <1>1
  <2> QED BY <1>1, <1>7, <2>1
<1> HIDE DEF Solves
<1> DEFINE H == {n \in 0 .. L : loaded[n] = f[n]}
<1>9. 0 .. L \subseteq H
  <2>1. 0 \in H
    BY <1>1, <1>5, <1>8
  <2>2. ASSUME NEW n \in 1 .. L, n - 1 \in H PROVE n \in H
    BY <1>1, <1>5, <1>8, <2>2
  <2> HIDE DEF H
  <2> QED BY <1>1, <2>1, <2>2, BoundedInduction
<1>10. loaded[L] = f[L]
  <2>1. L \in H
    BY <1>1, <1>9
  <2> QED BY <2>1
<1>11. Defines(r, loaded[L], domains, variables, L)
  BY <1>5, <1>10
<1> QED BY <1>11 DEF loaded, Solves, L

\* LoadVariableDefinitions changes definitions and success: it defines what variables
\* declare, all of it if all is well, and gives the domains the ids of jobs and resources.
LEMMA DefinitionsAreLoaded ==
  ASSUME NEW r, IsRuleSet(r), r.definitions = EmptyTables, Len(r.tables.variables) \in Nat
  PROVE  LET d == LoadVariableDefinitions(r)
             variables == r.tables.variables
         IN  /\ IsRuleSet(d)
             /\ d = [r EXCEPT !.definitions = d.definitions, !.success = d.success]
             /\ OneType(d.definitions) /\ IsTables(d.definitions)
             /\ OfSome(d.definitions, variables, Len(variables))
             /\ d.definitions.domains["job"] \in {Unset, Distinct(r.jobIds)}
             /\ d.definitions.domains["resource"] \in {Unset, Distinct(r.resourceIds)}
             /\ d.success =>
                   /\ r.success
                   /\ OfAll(d.definitions, variables, Len(variables))
                   /\ d.definitions.domains["job"] = Distinct(r.jobIds)
                   /\ d.definitions.domains["resource"] = Distinct(r.resourceIds)
<1> DEFINE registered == Registered(r)
           variables == r.tables.variables
           base == [r EXCEPT !.definitions = registered, !.success = TRUE]
           loaded[n \in 0 .. Len(variables)] ==
               IF n = 0 THEN base ELSE AddVariable(loaded[n - 1], variables[n])
           all == loaded[Len(variables)]
           d == LoadVariableDefinitions(r)
<1>1. d = IF ~(AcceptsDomainValues(r.jobIds) /\ AcceptsDomainValues(r.resourceIds))
          THEN [r EXCEPT !.success = FALSE]
          ELSE [all EXCEPT !.success = @ /\ r.success]
  BY DEF LoadVariableDefinitions, Registered
<1>2. /\ OneType(registered) /\ IsTables(registered)
      /\ Numbers(registered) = {} /\ Strings(registered) = {}
  BY RegisteredAre, NoDefinitionsAreSeparate
<1>3. Defines(r, all, registered.domains, variables, Len(variables))
  <2>1. base = [r EXCEPT !.definitions = registered, !.success = TRUE]
    OBVIOUS
  <2> HIDE DEF registered, base
  <2>2. IsRuleSet(base) /\ base.definitions = registered /\ base.success = TRUE
    BY <2>1 DEF IsRuleSet
  <2>3. base = [r EXCEPT !.definitions = base.definitions, !.success = base.success]
    BY <2>1, <2>2
  <2>4. Defines(r, base, registered.domains, variables, 0)
    <3>1. OfSome(registered, variables, 0) /\ OfAll(registered, variables, 0)
      BY <1>2 DEF OfSome, OfAll
    <3> QED BY <1>2, <2>2, <2>3, <3>1 DEF Defines
  <2>5. Len(variables) \in Nat
    OBVIOUS
  <2> HIDE DEF variables
  <2> QED BY <2>4, <2>5, VariablesAreAdded
<1> HIDE DEF all, d, registered, variables
<1>4. CASE d = [r EXCEPT !.success = FALSE]
  <2>1. IsRuleSet(d) /\ d.definitions = r.definitions /\ d.success = FALSE
    BY <1>4 DEF IsRuleSet
  <2>2. d = [r EXCEPT !.definitions = d.definitions, !.success = d.success]
    BY <1>4, <2>1 DEF IsRuleSet
  <2>3. /\ OneType(d.definitions) /\ IsTables(d.definitions)
        /\ OfSome(d.definitions, variables, Len(variables))
        /\ d.definitions.domains["job"] = Unset /\ d.definitions.domains["resource"] = Unset
    BY <2>1, NoDefinitionsAreSeparate, FixedAssumption DEF OfSome
  <2> QED BY <2>1, <2>2, <2>3 DEF d, variables
<1>5. CASE d = [all EXCEPT !.success = @ /\ r.success]
  <2>1. IsRuleSet(all) /\ all = [r EXCEPT !.definitions = all.definitions, !.success = all.success]
    BY <1>3 DEF Defines
  <2>2. /\ IsRuleSet(d) /\ d.definitions = all.definitions
        /\ d.success = (all.success /\ r.success)
    <3> DEFINE well == all.success /\ r.success
    <3>1. well \in BOOLEAN
      OBVIOUS
    <3>2. d = [all EXCEPT !.success = well]
      BY <1>5
    <3> HIDE DEF well
    <3>3. IsRuleSet(d) /\ d.definitions = all.definitions /\ d.success = well
      BY <2>1, <3>1, <3>2 DEF IsRuleSet
    <3> QED BY <3>3 DEF well
  <2>3. d = [r EXCEPT !.definitions = d.definitions, !.success = d.success]
    BY <1>5, <2>1, <2>2 DEF IsRuleSet
  <2>4. /\ OneType(d.definitions) /\ IsTables(d.definitions)
        /\ d.definitions.domains = registered.domains
        /\ OfSome(d.definitions, variables, Len(variables))
        /\ d.success => OfAll(d.definitions, variables, Len(variables))
    BY <1>3, <2>2 DEF Defines
  <2>5. /\ registered.domains["job"] = Distinct(r.jobIds)
        /\ registered.domains["resource"] = Distinct(r.resourceIds)
    BY RegisteredAre, NoDefinitionsAreSeparate DEF registered
  <2> QED BY <2>2, <2>3, <2>4, <2>5 DEF d, variables
<1> QED BY <1>1, <1>4, <1>5

-----------------------------------------------------------------------------
(* What follows when classes are looked through.                           *)

\* The references of ValidateGroups.
GroupsAreWell(tables) ==
    /\ \A object \in ToSet(tables.improvements) :
          ValidateGroupReferences(object, tables.improvement_groups)
    /\ \A object \in ToSet(tables.jobs) : ValidateGroupReferences(object, tables.job_groups)
    /\ ValidateGroupGraph(tables.improvement_groups)
    /\ ValidateGroupGraph(tables.job_groups)

\* The effects that are made of tables.
Given(e) == Effect(<<e.id>>, e.scopeType, e.class, e.possible, e.effect, {})
EffectsOf(t) ==
    <<>> \o [i \in DOMAIN t.effects |-> Given(t.effects[i])]
         \o FlattenSeq([i \in DOMAIN t.improvements |-> EffectsOfImprovement(t.improvements[i])])
         \o FlattenSeq([i \in DOMAIN t.jobs |-> EffectsOfJob(t.jobs[i])])
         \o FlattenSeq([i \in DOMAIN t.improvement_groups |->
                            EffectsOfGroup(t.improvement_groups[i], "improvement group")])
         \o FlattenSeq([i \in DOMAIN t.job_groups |->
                            EffectsOfGroup(t.job_groups[i], "job group")])

Finished(classes) ==
    LET all == LoadVariableDefinitions(LoadProjects(ValidateGroups(classes)))
    IN  IF all.success THEN LoadEffects(all) ELSE all

\* Of whatever ruleset, Clear leaves an empty one: it misses no member.
LEMMA ClearedIs ==
  ASSUME NEW r, IsRuleSet(r), HasTables(r.tables), IsTables(r.definitions)
  PROVE  Cleared(r) = [
             tables |-> NoObjects, improvementsByType |-> NoIndex, jobsByType |-> NoIndex,
             resourcesById |-> NoIndex, groupsById |-> NoIndex, projectsByType |-> NoIndex,
             jobIds |-> <<>>, resourceIds |-> <<>>, definitions |-> EmptyTables,
             effectDefinitions |-> <<>>, success |-> r.success]
<1> DEFINE tables == ClearTables(r.tables)
           definitions0 == ClearDefinitions(r.definitions)
           c == Cleared(r)
<1>1. tables = NoObjects /\ definitions0 = EmptyTables
  BY NothingLeft, ClearIs
<1>2. c = [r EXCEPT
             !.tables = tables,
             !.improvementsByType = NoIndex, !.resourcesById = NoIndex, !.jobsByType = NoIndex,
             !.groupsById = NoIndex, !.projectsByType = NoIndex,
             !.resourceIds = <<>>, !.jobIds = <<>>,
             !.definitions = definitions0, !.effectDefinitions = <<>>]
  BY DEF Cleared
<1> HIDE DEF tables, definitions0, c
<1>3. c = [tables |-> tables, improvementsByType |-> NoIndex, jobsByType |-> NoIndex,
           resourcesById |-> NoIndex, groupsById |-> NoIndex, projectsByType |-> NoIndex,
           jobIds |-> <<>>, resourceIds |-> <<>>, definitions |-> definitions0,
           effectDefinitions |-> <<>>, success |-> r.success]
  BY <1>2 DEF IsRuleSet
<1> QED BY <1>1, <1>3 DEF c

\* The ruleset that everything begins with.
LEMMA EmptyRuleSetIs ==
  /\ IsRuleSet(EmptyRuleSet) /\ HasTables(EmptyRuleSet.tables)
  /\ IsTables(EmptyRuleSet.definitions)
  /\ EmptyRuleSet = [
         tables |-> NoObjects, improvementsByType |-> NoIndex, jobsByType |-> NoIndex,
         resourcesById |-> NoIndex, groupsById |-> NoIndex, projectsByType |-> NoIndex,
         jobIds |-> <<>>, resourceIds |-> <<>>, definitions |-> EmptyTables,
         effectDefinitions |-> <<>>, success |-> TRUE]
<1>1. EmptyRuleSet = [
         tables |-> NoObjects, improvementsByType |-> NoIndex, jobsByType |-> NoIndex,
         resourcesById |-> NoIndex, groupsById |-> NoIndex, projectsByType |-> NoIndex,
         jobIds |-> <<>>, resourceIds |-> <<>>, definitions |-> EmptyTables,
         effectDefinitions |-> <<>>, success |-> TRUE]
  BY DEF EmptyRuleSet
<1>2. NoIndex = [id \in DOMAIN NoIndex |-> NoIndex[id]]
  BY DEF NoIndex
<1>3. HasTables(NoObjects)
  BY DEF HasTables, NoObjects
<1>4. IsTables(EmptyTables)
  BY DEF IsTables, EmptyTables, Tables
<1> QED BY <1>1, <1>2, <1>3, <1>4 DEF IsRuleSet

\* Loading and restoring differ in how they look through classes.
LEMMA LoadedIs ==
  ASSUME NEW r, IsRuleSet(r), HasTables(r.tables), IsTables(r.definitions), NEW directories
  PROVE  Loaded(r, directories) = Finished(ClassesLoaded(NewTables(directories)))
<1> DEFINE c == Cleared(r)
           tables == NewTables(directories)
           base == [c EXCEPT !.tables = LoadTables(@, directories), !.success = TRUE]
<1>1. c = [tables |-> NoObjects, improvementsByType |-> NoIndex, jobsByType |-> NoIndex,
           resourcesById |-> NoIndex, groupsById |-> NoIndex, projectsByType |-> NoIndex,
           jobIds |-> <<>>, resourceIds |-> <<>>, definitions |-> EmptyTables,
           effectDefinitions |-> <<>>, success |-> r.success]
  BY ClearedIs
<1>2. base = [c EXCEPT !.tables = tables, !.success = TRUE]
  <2>1. c.tables = NoObjects
    BY <1>1
  <2> HIDE DEF c
  <2> QED BY <2>1 DEF NewTables
<1>3. Loaded(r, directories) = Finished(LoadImprovements(LoadJobs(LoadResources(base))))
  BY DEF Loaded, Finished
<1> HIDE DEF c, tables, base
<1>4. base = [
           tables |-> tables, improvementsByType |-> NoIndex, jobsByType |-> NoIndex,
           resourcesById |-> NoIndex, groupsById |-> NoIndex, projectsByType |-> NoIndex,
           jobIds |-> <<>>, resourceIds |-> <<>>, definitions |-> EmptyTables,
           effectDefinitions |-> <<>>, success |-> TRUE]
  BY <1>1, <1>2
<1>5. Base(tables) = base
  BY <1>4, BaseIs
<1> QED BY <1>3, <1>5 DEF ClassesLoaded, tables

\* A ruleset is restored in the order of ParseFrom.
LEMMA RestoredIs ==
  ASSUME NEW saved
  PROVE  ParseFrom(saved) = Finished(ClassesRestored(saved))
<1>1. Cleared(EmptyRuleSet) = EmptyRuleSet
  BY ClearedIs, EmptyRuleSetIs
<1>2. [Cleared(EmptyRuleSet) EXCEPT !.tables = saved] = Base(saved)
  BY <1>1 DEF Base
<1> QED BY <1>2 DEF ParseFrom, Finished, ClassesRestored

\* What they have in common.
LEMMA FinishedIs ==
  ASSUME NEW c, IsRuleSet(c), c.definitions = EmptyTables, c.effectDefinitions = <<>>,
         Len(c.tables.variables) \in Nat
  PROVE  LET f == Finished(c)
             variables == c.tables.variables
         IN  /\ IsRuleSet(f) /\ f.tables = c.tables
             /\ OneType(f.definitions) /\ IsTables(f.definitions)
             /\ f = [c EXCEPT
                       !.projectsByType = Emplace(c.projectsByType, c.tables.projects,
                           {project.id : project \in ToSet(c.tables.projects)}),
                       !.definitions = f.definitions,
                       !.effectDefinitions = f.effectDefinitions,
                       !.success = f.success]
             /\ OfSome(f.definitions, variables, Len(variables))
             /\ f.definitions.domains["job"] \in {Unset, Distinct(c.jobIds)}
             /\ f.definitions.domains["resource"] \in {Unset, Distinct(c.resourceIds)}
             /\ f.success =>
                   /\ c.success /\ GroupsAreWell(c.tables)
                   /\ OfAll(f.definitions, variables, Len(variables))
                   /\ f.groupsById = c.groupsById
                   /\ f.definitions.domains["job"] = Distinct(c.jobIds)
                   /\ f.definitions.domains["resource"] = Distinct(c.resourceIds)
                   /\ f.effectDefinitions = EffectsOf(c.tables)
             /\ ~f.success => f.effectDefinitions = <<>>
<1> DEFINE well == c.success /\ GroupsAreWell(c.tables)
           v == ValidateGroups(c)
           index == Emplace(c.projectsByType, c.tables.projects,
                            {project.id : project \in ToSet(c.tables.projects)})
           p == LoadProjects(v)
           d == LoadVariableDefinitions(p)
           f == Finished(c)
           variables == c.tables.variables
<1>1. well \in BOOLEAN
  OBVIOUS
<1>2. v = [c EXCEPT !.success = well]
  BY DEF ValidateGroups, GroupsAreWell
<1>3. p = [v EXCEPT !.projectsByType =
              Emplace(v.projectsByType, v.tables.projects,
                      {project.id : project \in ToSet(v.tables.projects)})]
  BY DEF LoadProjects
<1>4. f = IF d.success THEN LoadEffects(d) ELSE d
  BY DEF Finished
<1> HIDE DEF well, v, p, d, f
<1>5. /\ v.projectsByType = c.projectsByType /\ v.tables = c.tables
      /\ v = [tables |-> c.tables, improvementsByType |-> c.improvementsByType,
              jobsByType |-> c.jobsByType, resourcesById |-> c.resourcesById,
              groupsById |-> c.groupsById, projectsByType |-> c.projectsByType,
              jobIds |-> c.jobIds, resourceIds |-> c.resourceIds,
              definitions |-> EmptyTables, effectDefinitions |-> <<>>, success |-> well]
  BY <1>2 DEF IsRuleSet
<1>6. p = [v EXCEPT !.projectsByType = index]
  BY <1>3, <1>5
<1> HIDE DEF index
<1>7. p = [tables |-> c.tables, improvementsByType |-> c.improvementsByType,
           jobsByType |-> c.jobsByType, resourcesById |-> c.resourcesById,
           groupsById |-> c.groupsById, projectsByType |-> index,
           jobIds |-> c.jobIds, resourceIds |-> c.resourceIds,
           definitions |-> EmptyTables, effectDefinitions |-> <<>>, success |-> well]
  BY <1>5, <1>6
<1>8. /\ IsRuleSet(p) /\ p.success = well /\ p.tables = c.tables
      /\ p.definitions = EmptyTables /\ p.jobIds = c.jobIds /\ p.resourceIds = c.resourceIds
  BY <1>1, <1>7 DEF IsRuleSet
<1>9. /\ IsRuleSet(d)
      /\ d = [p EXCEPT !.definitions = d.definitions, !.success = d.success]
      /\ OneType(d.definitions) /\ IsTables(d.definitions)
      /\ OfSome(d.definitions, variables, Len(variables))
      /\ d.definitions.domains["job"] \in {Unset, Distinct(c.jobIds)}
      /\ d.definitions.domains["resource"] \in {Unset, Distinct(c.resourceIds)}
      /\ d.success =>
            /\ p.success
            /\ OfAll(d.definitions, variables, Len(variables))
            /\ d.definitions.domains["job"] = Distinct(c.jobIds)
            /\ d.definitions.domains["resource"] = Distinct(c.resourceIds)
  <2>1. Len(p.tables.variables) \in Nat
    BY <1>8
  <2> QED BY <1>8, <2>1, DefinitionsAreLoaded DEF d
<1> HIDE DEF variables
<1>10. d = [tables |-> c.tables, improvementsByType |-> c.improvementsByType,
            jobsByType |-> c.jobsByType, resourcesById |-> c.resourcesById,
            groupsById |-> c.groupsById, projectsByType |-> index,
            jobIds |-> c.jobIds, resourceIds |-> c.resourceIds,
            definitions |-> d.definitions, effectDefinitions |-> <<>>, success |-> d.success]
  BY <1>7, <1>9
<1>11. /\ d.tables = c.tables /\ d.groupsById = c.groupsById
       /\ d.effectDefinitions = <<>>
  BY <1>10
<1>12. /\ f = [tables |-> c.tables, improvementsByType |-> c.improvementsByType,
               jobsByType |-> c.jobsByType, resourcesById |-> c.resourcesById,
               groupsById |-> c.groupsById, projectsByType |-> index,
               jobIds |-> c.jobIds, resourceIds |-> c.resourceIds,
               definitions |-> d.definitions, effectDefinitions |-> f.effectDefinitions,
               success |-> d.success]
       /\ f.effectDefinitions = IF d.success THEN EffectsOf(c.tables) ELSE <<>>
  <2>1. CASE ~d.success
    <3>1. f = d
      BY <1>4, <2>1
    <3> QED BY <1>10, <1>11, <2>1, <3>1
  <2>2. CASE d.success
    <3> DEFINE effects == EffectsOf(c.tables)
    <3>1. f = [d EXCEPT !.effectDefinitions = effects]
      <4>1. LoadEffects(d) = [d EXCEPT !.effectDefinitions = EffectsOf(d.tables)]
        BY <1>11 DEF LoadEffects, EffectsOf, Given
      <4> QED BY <1>4, <1>11, <2>2, <4>1
    <3> HIDE DEF effects
    <3>2. f = [tables |-> c.tables, improvementsByType |-> c.improvementsByType,
               jobsByType |-> c.jobsByType, resourcesById |-> c.resourcesById,
               groupsById |-> c.groupsById, projectsByType |-> index,
               jobIds |-> c.jobIds, resourceIds |-> c.resourceIds,
               definitions |-> d.definitions, effectDefinitions |-> effects,
               success |-> d.success]
      BY <1>10, <3>1
    <3> QED BY <2>2, <3>2 DEF effects
  <2> QED BY <2>1, <2>2
<1>13. /\ IsRuleSet(f) /\ f.tables = c.tables /\ f.definitions = d.definitions
       /\ f.groupsById = c.groupsById /\ f.success = d.success
  BY <1>9, <1>12 DEF IsRuleSet
<1>14. f = [c EXCEPT !.projectsByType = index, !.definitions = f.definitions,
                     !.effectDefinitions = f.effectDefinitions, !.success = f.success]
  <2> DEFINE fd == f.definitions
             fe == f.effectDefinitions
             fs == f.success
  <2>1. f = [tables |-> c.tables, improvementsByType |-> c.improvementsByType,
             jobsByType |-> c.jobsByType, resourcesById |-> c.resourcesById,
             groupsById |-> c.groupsById, projectsByType |-> index,
             jobIds |-> c.jobIds, resourceIds |-> c.resourceIds,
             definitions |-> fd, effectDefinitions |-> fe, success |-> fs]
    BY <1>12, <1>13
  <2> DEFINE e == [c EXCEPT !.projectsByType = index, !.definitions = fd,
                            !.effectDefinitions = fe, !.success = fs]
  <2>2. e = [c EXCEPT !.projectsByType = index, !.definitions = fd,
                      !.effectDefinitions = fe, !.success = fs]
    OBVIOUS
  <2> HIDE DEF fd, fe, fs, e
  <2>3. e = [tables |-> c.tables, improvementsByType |-> c.improvementsByType,
             jobsByType |-> c.jobsByType, resourcesById |-> c.resourcesById,
             groupsById |-> c.groupsById, projectsByType |-> index,
             jobIds |-> c.jobIds, resourceIds |-> c.resourceIds,
             definitions |-> fd, effectDefinitions |-> fe, success |-> fs]
    BY <2>2 DEF IsRuleSet
  <2> QED BY <2>1, <2>3 DEF e, fd, fe, fs
<1>15. d.success => c.success /\ GroupsAreWell(c.tables)
  BY <1>8, <1>9 DEF well
<1>16. /\ d.success => f.effectDefinitions = EffectsOf(c.tables)
       /\ ~d.success => f.effectDefinitions = <<>>
  BY <1>12
<1> QED BY <1>9, <1>13, <1>14, <1>15, <1>16 DEF f, index, variables

-----------------------------------------------------------------------------
(* Rulesets over time.                                                     *)

\* A ruleset is made of its tables, in one order or in the other.
IsMade(r) ==
    /\ AreTables(r.tables)
    /\ \/ r = Finished(ClassesLoaded(r.tables))
       \/ r = Finished(ClassesRestored(r.tables))

RuleSetInv ==
    /\ roots = <<>> => ruleset = EmptyRuleSet /\ former = <<>>
    /\ roots # <<>> => IsMade(ruleset)
    /\ WasLoaded => /\ Head(roots) \in RootSequences
                    /\ ruleset = Finished(ClassesLoaded(NewTables(Head(roots))))
    /\ WasRestored => IsMade(Head(former)) /\ ruleset = ParseFrom(Head(former).tables)

\* What is made of tables has them.
LEMMA TablesStay ==
  ASSUME NEW tables, AreTables(tables)
  PROVE  /\ LET f == Finished(ClassesLoaded(tables)) IN f.tables = tables /\ IsMade(f)
         /\ LET f == Finished(ClassesRestored(tables)) IN f.tables = tables /\ IsMade(f)
<1>1. Len(tables.variables) \in Nat
  BY TablesAreLists DEF IsList
<1>2. Finished(ClassesLoaded(tables)).tables = tables
  <2> DEFINE c == ClassesLoaded(tables)
  <2>1. /\ IsRuleSet(c) /\ c.tables = tables
        /\ c.definitions = EmptyTables /\ c.effectDefinitions = <<>>
    BY ClassesLoadedAre
  <2> HIDE DEF c
  <2>2. Len(c.tables.variables) \in Nat
    BY <1>1, <2>1
  <2>3. Finished(c).tables = tables
    BY <2>1, <2>2, FinishedIs
  <2> QED BY <2>3 DEF c
<1>3. Finished(ClassesRestored(tables)).tables = tables
  <2> DEFINE c == ClassesRestored(tables)
  <2>1. /\ IsRuleSet(c) /\ c.tables = tables
        /\ c.definitions = EmptyTables /\ c.effectDefinitions = <<>>
    BY ClassesRestoredAre
  <2> HIDE DEF c
  <2>2. Len(c.tables.variables) \in Nat
    BY <1>1, <2>1
  <2>3. Finished(c).tables = tables
    BY <2>1, <2>2, FinishedIs
  <2> QED BY <2>3 DEF c
<1> QED BY <1>2, <1>3 DEF IsMade

\* What a ruleset that is made comes from: classes that were looked through, in one order
\* or the other, all of them, with or without success.
LEMMA MadeOfClasses ==
  ASSUME NEW r, IsMade(r)
  PROVE  \E c : /\ r = Finished(c) /\ IsRuleSet(c) /\ c.tables = r.tables
                /\ c.definitions = EmptyTables /\ c.effectDefinitions = <<>>
                /\ c = [Classes(r.tables, c.groupsById) EXCEPT !.success = c.success]
                /\ GroupsLead(c) /\ Len(c.tables.variables) \in Nat
<1> DEFINE tables == r.tables
<1>1. AreTables(tables) /\ Len(tables.variables) \in Nat
  BY TablesAreLists DEF IsMade, IsList
<1>2. r = Finished(ClassesLoaded(tables)) \/ r = Finished(ClassesRestored(tables))
  BY DEF IsMade
<1> HIDE DEF tables
<1>3. ASSUME NEW c, c = ClassesLoaded(tables) \/ c = ClassesRestored(tables)
      PROVE  /\ IsRuleSet(c) /\ c.tables = tables
             /\ c.definitions = EmptyTables /\ c.effectDefinitions = <<>>
             /\ c = [Classes(tables, c.groupsById) EXCEPT !.success = c.success]
             /\ GroupsLead(c)
  <2>1. CASE c = ClassesLoaded(tables)
    BY <1>1, <2>1, ClassesLoadedAre
  <2>2. CASE c = ClassesRestored(tables)
    BY <1>1, <2>2, ClassesRestoredAre
  <2> QED BY <1>3, <2>1, <2>2
<1> QED BY <1>1, <1>2, <1>3 DEF tables

\* It is a ruleset with all its members.
LEMMA MadeAre ==
  ASSUME NEW r, IsMade(r)
  PROVE  IsRuleSet(r) /\ HasTables(r.tables) /\ IsTables(r.definitions)
<1>1. HasTables(r.tables)
  BY DEF IsMade, AreTables
<1>2. PICK c : /\ r = Finished(c) /\ IsRuleSet(c) /\ c.definitions = EmptyTables
               /\ c.effectDefinitions = <<>> /\ Len(c.tables.variables) \in Nat
  BY MadeOfClasses
<1>3. LET f == Finished(c) IN IsRuleSet(f) /\ IsTables(f.definitions)
  BY <1>2, FinishedIs
<1> QED BY <1>1, <1>2, <1>3

\* Tables that are loaded are tables.
LEMMA LoadedTables ==
  ASSUME NEW directories \in RootSequences
  PROVE  AreTables(NewTables(directories))
<1>1. HasTables(NewTables(directories))
  BY DEF HasTables, NewTables, LoadTables
<1> QED BY <1>1, TablesMerge DEF AreTables

\* The inductive invariant.
LEMMA RuleSetInvAlways == RuleSetSpec => []RuleSetInv
<1>1. RuleSetInit => RuleSetInv
  BY DEF RuleSetInit, RuleSetInv, WasLoaded, WasRestored
<1>2. RuleSetInv /\ [RuleSetNext]_ruleSetVars => RuleSetInv'
  <2> SUFFICES ASSUME RuleSetInv, [RuleSetNext]_ruleSetVars PROVE RuleSetInv'
    OBVIOUS
  <2>1. ASSUME NEW directories \in RootSequences, Load(directories) PROVE RuleSetInv'
    <3>1. IsRuleSet(ruleset) /\ HasTables(ruleset.tables) /\ IsTables(ruleset.definitions)
      BY EmptyRuleSetIs, MadeAre DEF RuleSetInv
    <3>2. ruleset' = Finished(ClassesLoaded(NewTables(directories)))
      BY <2>1, <3>1, LoadedIs DEF Load
    <3>3. IsMade(ruleset')
      BY <3>2, LoadedTables, TablesStay
    <3>4. roots' # <<>> /\ former' = <<>> /\ Head(roots') = directories
      BY <2>1 DEF Load
    <3> QED BY <3>2, <3>3, <3>4 DEF RuleSetInv, WasLoaded, WasRestored
  <2>2. CASE SaveAndRestore
    <3>1. IsMade(ruleset)
      BY <2>2 DEF RuleSetInv, SaveAndRestore
    <3>2. ruleset' = ParseFrom(ruleset.tables) /\ AreTables(ruleset.tables)
      BY <2>2, <3>1 DEF SaveAndRestore, SerializeTo, IsMade
    <3>3. IsMade(ruleset')
      BY <3>2, RestoredIs, TablesStay
    <3>4. roots' # <<>> /\ former' # <<>> /\ Head(former') = ruleset
      BY <2>2 DEF SaveAndRestore
    <3> QED BY <3>1, <3>2, <3>3, <3>4 DEF RuleSetInv, WasLoaded, WasRestored
  <2>3. CASE UNCHANGED ruleSetVars
    BY <2>3 DEF ruleSetVars, RuleSetInv, WasLoaded, WasRestored
  <2> QED BY <2>1, <2>2, <2>3 DEF RuleSetNext
<1> QED BY <1>1, <1>2, PTL DEF RuleSetSpec

-----------------------------------------------------------------------------
(* Later files win.                                                        *)

\* A table that merges what was read has the ids that were read.
LEMMA MergedIds ==
  ASSUME NEW S, NEW merged \in Seq(S), NEW read \in Seq(S), Merges(merged, read)
  PROVE  {merged[i].id : i \in DOMAIN merged} = {read[i].id : i \in DOMAIN read}
<1>1. DOMAIN merged = 1 .. Len(merged) /\ DOMAIN read = 1 .. Len(read)
  OBVIOUS
<1>2. \A i \in 1 .. Len(merged) : \E k \in 1 .. Len(read) : read[k].id = merged[i].id
  <2> SUFFICES ASSUME NEW i \in 1 .. Len(merged)
               PROVE  \E k \in 1 .. Len(read) : read[k].id = merged[i].id
    OBVIOUS
  <2>1. PICK k \in 1 .. Len(read) : read[k] = merged[i]
    BY DEF Merges
  <2> QED BY <2>1
<1>3. \A k \in 1 .. Len(read) : \E i \in 1 .. Len(merged) : merged[i].id = read[k].id
  BY DEF Merges
<1>4. ASSUME NEW id
      PROVE  id \in {merged[i].id : i \in DOMAIN merged}
                 <=> id \in {read[i].id : i \in DOMAIN read}
  <2>1. id \in {merged[i].id : i \in DOMAIN merged}
            <=> \E i \in 1 .. Len(merged) : merged[i].id = id
    BY <1>1
  <2>2. id \in {read[i].id : i \in DOMAIN read} <=> \E k \in 1 .. Len(read) : read[k].id = id
    BY <1>1
  <2> QED BY <1>2, <1>3, <2>1, <2>2
<1> QED BY <1>4

\* A table that merges what was read has each id once, in the order in which ids appear
\* first, with the object that is last.
LEMMA MergedIs ==
  ASSUME NEW S, NEW merged \in Seq(S), NEW read \in Seq(S), Merges(merged, read)
  PROVE  LET Places(id) == {i \in DOMAIN read : read[i].id = id}
         IN  /\ \A i \in DOMAIN merged : merged[i] = read[Max(Places(merged[i].id))]
             /\ \A i, j \in DOMAIN merged :
                   i < j => Min(Places(merged[i].id)) < Min(Places(merged[j].id))
<1> DEFINE Places(id) == {i \in DOMAIN read : read[i].id = id}
           T == Len(merged)
           N == Len(read)
<1>1. /\ DOMAIN merged = 1 .. T /\ DOMAIN read = 1 .. N /\ N \in Nat
      /\ \A k \in 1 .. N : k \in 0 .. N
  OBVIOUS
<1>2. /\ \A i \in 1 .. T : \E k \in 1 .. N :
            read[k] = merged[i] /\ \A m \in 1 .. N : read[m].id = merged[i].id => m <= k
      /\ \A k \in 1 .. N : \E i \in 1 .. T : merged[i].id = read[k].id
      /\ \A i, j \in 1 .. T : i < j =>
            \E k \in 1 .. N :
               read[k].id = merged[i].id /\ \A m \in 1 .. N : read[m].id = merged[j].id => k < m
  BY DEF Merges
<1> HIDE DEF T, N
<1>4. ASSUME NEW i \in 1 .. T
      PROVE  /\ merged[i] = read[Max(Places(merged[i].id))]
             /\ Places(merged[i].id) \subseteq 0 .. N
             /\ Min(Places(merged[i].id)) \in Places(merged[i].id)
             /\ \A m \in Places(merged[i].id) : Min(Places(merged[i].id)) <= m
  <2> DEFINE P == Places(merged[i].id)
  <2>1. PICK k \in 1 .. N : /\ read[k] = merged[i]
                            /\ \A m \in 1 .. N : read[m].id = merged[i].id => m <= k
    BY <1>2
  <2>2. P \subseteq 0 .. N /\ k \in P /\ (\A m \in P : m <= k)
    BY <1>1, <2>1
  <2> HIDE DEF P
  <2>3. /\ Max(P) \in P /\ Min(P) \in P
        /\ \A m \in P : m <= Max(P) /\ Min(P) <= m
    BY <1>1, <2>2, MaxIsGreatest
  <2>4. Max(P) = k
    <3>1. Max(P) <= k /\ k <= Max(P) /\ Max(P) \in 0 .. N /\ k \in 0 .. N
      BY <2>2, <2>3
    <3> QED BY <1>1, <3>1
  <2> QED BY <2>1, <2>2, <2>3, <2>4 DEF P
<1>5. ASSUME NEW i \in 1 .. T, NEW j \in 1 .. T, i < j
      PROVE  Min(Places(merged[i].id)) < Min(Places(merged[j].id))
  <2>1. PICK k \in 1 .. N :
            read[k].id = merged[i].id /\ \A m \in 1 .. N : read[m].id = merged[j].id => k < m
    BY <1>2, <1>5
  <2>2. k \in Places(merged[i].id)
    BY <1>1, <2>1
  <2>3. Min(Places(merged[i].id)) <= k /\ Min(Places(merged[i].id)) \in 0 .. N
    BY <1>4, <2>2
  <2>4. k < Min(Places(merged[j].id)) /\ Min(Places(merged[j].id)) \in 0 .. N
    BY <1>1, <1>4, <2>1
  <2> HIDE DEF Places
  <2> QED BY <1>1, <2>3, <2>4
<1> HIDE DEF Places
<1>6. /\ \A i \in DOMAIN merged : merged[i] = read[Max(Places(merged[i].id))]
      /\ \A i, j \in DOMAIN merged :
            i < j => Min(Places(merged[i].id)) < Min(Places(merged[j].id))
  BY <1>1, <1>4, <1>5
<1> QED BY <1>6 DEF Places

\* The tables of a ruleset that was loaded are merged from its files
\* (UpsertRepeatedField).
THEOREM LastFileAlwaysWins == RuleSetSpec => []LastFileWins
<1>1. RuleSetInv => LastFileWins
  <2> SUFFICES ASSUME RuleSetInv, WasLoaded, NEW table \in TableNames
               PROVE  LET files == CollectRuleFiles(FilterValidRuleRoots(Head(roots)),
                                                    Directory[table])
                          read == Read(files, table)
                          Places(id) == {i \in DOMAIN read : read[i].id = id}
                          merged == ruleset.tables[table]
                      IN  /\ {merged[i].id : i \in DOMAIN merged} = {read[i].id : i \in DOMAIN read}
                          /\ \A i \in DOMAIN merged : merged[i] = read[Max(Places(merged[i].id))]
                          /\ \A i, j \in DOMAIN merged :
                                i < j => Min(Places(merged[i].id)) < Min(Places(merged[j].id))
    BY DEF LastFileWins, Read
  <2> DEFINE directories == Head(roots)
             files == CollectRuleFiles(FilterValidRuleRoots(directories), Directory[table])
             read == Read(files, table)
             Places(id) == {i \in DOMAIN read : read[i].id = id}
             merged == ruleset.tables[table]
  <2>1. directories \in RootSequences /\ ruleset = Finished(ClassesLoaded(NewTables(directories)))
    BY DEF RuleSetInv
  <2>2. ruleset.tables = NewTables(directories)
    BY <2>1, LoadedTables, TablesStay
  <2> HIDE DEF directories
  <2>3. merged = NewTables(directories)[table]
    BY <2>2
  <2> HIDE DEF files, merged
  <2>4. PICK S : merged \in Seq(S) /\ read \in Seq(S) /\ Merges(merged, read)
    BY <2>1, <2>3, TablesMerge DEF files
  <2> HIDE DEF read, merged
  <2>5. {merged[i].id : i \in DOMAIN merged} = {read[i].id : i \in DOMAIN read}
    BY ZenonT(30), <2>4, MergedIds
  <2>6. \A i \in DOMAIN merged : merged[i] = read[Max(Places(merged[i].id))]
    BY <2>4, MergedIs
  <2>7. \A i, j \in DOMAIN merged :
            i < j => Min(Places(merged[i].id)) < Min(Places(merged[j].id))
    BY <2>4, MergedIs
  <2> QED BY <2>5, <2>6, <2>7 DEF read, files, directories, merged
<1> QED BY <1>1, RuleSetInvAlways, PTL

-----------------------------------------------------------------------------
(* Restoring.                                                              *)

\* Both orders come to the same where no improvement gives jobs.
LEMMA OrdersAgree ==
  ASSUME NEW tables, AreTables(tables), Finished(ClassesLoaded(tables)).success,
         \A improvement \in ToSet(tables.improvements) : improvement.jobs = {}
  PROVE  ClassesRestored(tables) = ClassesLoaded(tables)
<1> DEFINE c == ClassesLoaded(tables)
           d == ClassesRestored(tables)
<1>1. /\ IsRuleSet(c) /\ c.tables = tables
      /\ c.definitions = EmptyTables /\ c.effectDefinitions = <<>>
      /\ c.success => ClassesAreWell(tables)
      /\ c.success => c = Classes(tables, c.groupsById) /\ GroupIndex(tables, c.groupsById)
  BY ClassesLoadedAre
<1>2. /\ d.success <=>
            /\ ClassesAreWell(tables)
            /\ \A improvement \in ToSet(tables.improvements) : improvement.jobs \subseteq {}
      /\ d.success => d = Classes(tables, d.groupsById) /\ GroupIndex(tables, d.groupsById)
  BY ClassesRestoredAre
<1> HIDE DEF c, d
<1>3. c.success
  <2>1. Len(c.tables.variables) \in Nat
    BY <1>1, TablesAreLists DEF IsList
  <2>2. Finished(c).success
    BY DEF c
  <2> QED BY <1>1, <2>1, <2>2, FinishedIs
<1>4. d.success
  BY <1>1, <1>2, <1>3
<1>5. c.groupsById = d.groupsById
  BY <1>1, <1>2, <1>3, <1>4, OneGroupIndex
<1> QED BY <1>1, <1>2, <1>3, <1>4, <1>5 DEF c, d

\* What is restored of a ruleset that was loaded or restored well is what was saved,
\* unless an improvement gives jobs (RuleSet::ParseFrom).
THEOREM RestoredUnlessJobsAlways == RuleSetSpec => []RestoredUnlessJobs
<1>1. RuleSetInv => RestoredUnlessJobs
  <2> SUFFICES ASSUME RuleSetInv, WasRestored, Head(former).success
               PROVE  /\ ruleset.tables = Head(former).tables
                      /\ \/ ruleset = Head(former)
                         \/ \E i \in ToSet(Head(former).tables.improvements) : i.jobs # {}
    BY DEF RestoredUnlessJobs
  <2> DEFINE r == Head(former)
             tables == r.tables
  <2>1. /\ IsMade(r) /\ ruleset = Finished(ClassesRestored(tables))
        /\ AreTables(tables)
    BY RestoredIs DEF RuleSetInv, IsMade
  <2>2. ruleset.tables = tables
    BY <2>1, TablesStay
  <2>3. ASSUME r = Finished(ClassesLoaded(tables)),
               \A i \in ToSet(tables.improvements) : i.jobs = {}
        PROVE  ruleset = r
    <3>1. Finished(ClassesLoaded(tables)).success
      BY <2>3
    <3> HIDE DEF tables, r
    <3>2. ClassesRestored(tables) = ClassesLoaded(tables)
      BY <2>1, <2>3, <3>1, OrdersAgree
    <3> QED BY <2>1, <2>3, <3>2
  <2> QED BY <2>1, <2>2, <2>3 DEF IsMade
<1> QED BY <1>1, RuleSetInvAlways, PTL

-----------------------------------------------------------------------------
(* Groups are found.                                                       *)

\* X has all that a group in it inherits from.
Closed(groups, X) == \A h \in ToSet(groups) : h.id \in X => ToSet(h.groups) \subseteq X

\* A set that is closed and has what a group names has all it inherits from.
LEMMA InheritedStays ==
  ASSUME NEW groups, IsList(groups), NEW group, NEW X, Closed(groups, X),
         ToSet(group.groups) \subseteq X
  PROVE  Inherited(groups, group) \subseteq X
<1> DEFINE L == Len(groups)
           More(u) == u \cup UNION {ToSet(g.groups) : g \in {h \in ToSet(groups) : h.id \in u}}
           Solves(g) == g = [n \in 0 .. L |->
               IF n = 0 THEN ToSet(group.groups)
               ELSE g[n - 1] \cup UNION {ToSet(k.groups) :
                        k \in {h \in ToSet(groups) : h.id \in g[n - 1]}}]
           known == CHOOSE g : Solves(g)
           D == SUBSET X
           step == [x \in (1 .. L) \X D |-> More(x[2])]
<1>1. L \in Nat /\ \A n \in 1 .. L : n \in 0 .. L /\ n - 1 \in 0 .. L /\ n # 0
  BY DEF IsList
<1>2. Inherited(groups, group) = known[L]
  BY DEF Inherited
<1>3. \A n \in 1 .. L, u \in D : step[<<n, u>>] = More(u)
  OBVIOUS
<1>4. \A u \in D : More(u) \in D
  BY DEF Closed
<1> HIDE DEF L, step
<1>5. Stays(D, ToSet(group.groups), L, step)
  <2> HIDE DEF More, D
  <2>1. ToSet(group.groups) \in D
    BY DEF D
  <2> QED BY <1>1, <1>3, <1>4, <2>1 DEF Stays
<1>6. PICK f : Computes(f, D, ToSet(group.groups), L, step)
  <2> HIDE DEF D
  <2> QED BY <1>5, RecursionExists
<1>7. /\ f \in [0 .. L -> D] /\ f[0] = ToSet(group.groups)
      /\ \A n \in 1 .. L : f[n] = More(f[n - 1])
  <2> HIDE DEF D, More
  <2> QED BY <1>1, <1>3, <1>6 DEF Computes
<1>8. Solves(f)
  <2>1. \A n \in 0 .. L : n = 0 \/ n \in 1 .. L
    BY <1>1
  <2>2. \A n \in 0 .. L : f[n] = IF n = 0 THEN ToSet(group.groups) ELSE More(f[n - 1])
    <3> HIDE DEF More
    <3> QED BY <1>1, <1>7, <2>1
  <2> HIDE DEF D
  <2>3. f = [n \in 0 .. L |-> IF n = 0 THEN ToSet(group.groups) ELSE More(f[n - 1])]
    <3> HIDE DEF More
    <3> QED BY <1>7, <2>2
  <2> QED BY <2>3
<1>9. Solves(known)
  <2> HIDE DEF Solves
  <2> QED BY <1>8
<1> HIDE DEF known
<1>10. /\ known[0] = ToSet(group.groups)
       /\ \A n \in 1 .. L : known[n] = More(known[n - 1])
  <2>1. 0 \in 0 .. L
    BY <1>1
  <2> QED BY <1>1, <1>9, <2>1
<1> HIDE DEF Solves
<1> DEFINE G == {n \in 0 .. L : known[n] \in D}
<1>11. 0 .. L \subseteq G
  <2>1. 0 \in G
    BY <1>1, <1>10
  <2>2. ASSUME NEW n \in 1 .. L, n - 1 \in G PROVE n \in G
    <3> HIDE DEF More, D
    <3> QED BY <1>1, <1>4, <1>10, <2>2
  <2> HIDE DEF G
  <2> QED BY <1>1, <2>1, <2>2, BoundedInduction
<1>12. L \in G
  BY <1>1, <1>11
<1> QED BY <1>2, <1>12

\* No group of a graph that was validated inherits from itself (ValidateGroupGraph).
LEMMA NoCircle ==
  ASSUME NEW groups, IsList(groups), ValidateGroupGraph(groups),
         \A g \in ToSet(groups) : IsValidIdentifier(g.id),
         NEW group \in ToSet(groups)
  PROVE  group.id \notin Inherited(groups, group)
<1> DEFINE x == group.id
           U == Inherited(groups, group) \cup UNION {ToSet(g.groups) : g \in ToSet(groups)}
           Reaches(g) == \A X \in SUBSET U :
               Closed(groups, X) /\ ToSet(g.groups) \subseteq X => x \in X
           C == {g \in ToSet(groups) : Reaches(g)}
<1>1. \A cycle \in SUBSET {g \in ToSet(groups) : IsValidIdentifier(g.id)} :
          cycle # {} => \E g \in cycle : {c.id : c \in cycle} \cap ToSet(g.groups) = {}
  BY DEF ValidateGroupGraph
<1>2. SUFFICES ASSUME x \in Inherited(groups, group) PROVE FALSE
  OBVIOUS
<1>3. Reaches(group)
  BY <1>2, InheritedStays
<1>4. \A g \in ToSet(groups) : ToSet(g.groups) \subseteq U
  OBVIOUS
<1> HIDE DEF U, x
<1>5. ASSUME NEW g \in C PROVE \E h \in C : h.id \in ToSet(g.groups)
  <2> SUFFICES ASSUME \A h \in C : h.id \notin ToSet(g.groups) PROVE FALSE
    OBVIOUS
  <2> DEFINE Without == {Y \in SUBSET U : Closed(groups, Y) /\ x \notin Y}
             X == ToSet(g.groups) \cup UNION Without
  <2>1. x \notin ToSet(g.groups)
    BY <1>3 DEF x
  <2>2. x \notin X
    BY <2>1
  <2>3. X \in SUBSET U
    BY <1>4
  <2>4. ASSUME NEW h \in ToSet(groups), h.id \in X, NEW y \in ToSet(h.groups) PROVE y \in X
    <3>1. CASE h.id \in ToSet(g.groups)
      <4>1. ~Reaches(h)
        BY <3>1
      <4>2. PICK Y \in SUBSET U : Closed(groups, Y) /\ ToSet(h.groups) \subseteq Y /\ x \notin Y
        BY <4>1
      <4> QED BY <2>4, <4>2
    <3>2. CASE h.id \in UNION Without
      <4>1. PICK Y \in Without : h.id \in Y
        BY <3>2
      <4>2. y \in Y
        BY <2>4, <4>1 DEF Closed
      <4> QED BY <4>1, <4>2
    <3> QED BY <2>4, <3>1, <3>2
  <2>5. Closed(groups, X)
    <3> HIDE DEF X
    <3> QED BY <2>4 DEF Closed
  <2>6. ToSet(g.groups) \subseteq X /\ Reaches(g)
    OBVIOUS
  <2> HIDE DEF X
  <2> QED BY <2>2, <2>3, <2>5, <2>6
<1>6. /\ C \in SUBSET {g \in ToSet(groups) : IsValidIdentifier(g.id)} /\ C # {}
  BY <1>3
<1> HIDE DEF C
<1>7. PICK g \in C : {c.id : c \in C} \cap ToSet(g.groups) = {}
  BY <1>1, <1>6
<1> QED BY <1>5, <1>7

\* What success says of a ruleset.
SuccessSays(r) ==
    /\ ClassesAreWell(r.tables)
    /\ \A improvement \in ToSet(r.tables.improvements) :
          improvement.jobs \subseteq ValidIdsOf(r.tables.jobs)
    /\ GroupsAreWell(r.tables)
    /\ GroupIndex(r.tables, r.groupsById)
    /\ ToSet(r.definitions.domains["job"]) = ValidIdsOf(r.tables.jobs)
    /\ ToSet(r.definitions.domains["resource"]) = ValidIdsOf(r.tables.resources)
    /\ r.effectDefinitions = EffectsOf(r.tables)

\* The ids a domain is given.
LEMMA DomainIs ==
  ASSUME NEW objects, IsList(objects)
  PROVE  ToSet(Distinct(<<>> \o ValidIds(objects))) = ValidIdsOf(objects)
<1> DEFINE q == ValidIds(objects)
           S == IdsOf(objects)
<1>1. q \in Seq(S) /\ Range(q) = ValidIdsOf(objects)
  BY ValidIdsAre
<1> HIDE DEF q, S
<1>2. <<>> \o q = q
  BY <1>1
<1>3. Distinct(q) \in Seq(S) /\ Range(Distinct(q)) = Range(q)
  BY <1>1, DistinctAre
<1>4. ToSet(Distinct(q)) = Range(Distinct(q))
  BY <1>3, SequencesAreLists
<1> QED BY <1>1, <1>2, <1>3, <1>4 DEF q

\* Whatever was loaded or restored with success says so.
LEMMA SuccessIs ==
  ASSUME NEW r, IsMade(r)
  PROVE  /\ r.success => SuccessSays(r)
         /\ ~r.success => r.effectDefinitions = <<>>
         /\ OneType(r.definitions)
<1> DEFINE tables == r.tables
<1>1. AreTables(tables)
  BY DEF IsMade
<1>2. PICK c : /\ r = Finished(c)
               /\ IsRuleSet(c) /\ c.tables = tables
               /\ c.definitions = EmptyTables /\ c.effectDefinitions = <<>>
               /\ c.success =>
                     /\ ClassesAreWell(tables)
                     /\ \A improvement \in ToSet(tables.improvements) :
                           improvement.jobs \subseteq ValidIdsOf(tables.jobs)
               /\ c.success => c = Classes(tables, c.groupsById)
               /\ c.success => GroupIndex(tables, c.groupsById)
  <2>1. CASE r = Finished(ClassesLoaded(tables))
    <3> DEFINE c == ClassesLoaded(tables)
    <3>1. /\ IsRuleSet(c) /\ c.tables = tables
          /\ c.definitions = EmptyTables /\ c.effectDefinitions = <<>>
          /\ c.success =>
                /\ ClassesAreWell(tables)
                /\ \A improvement \in ToSet(tables.improvements) :
                      improvement.jobs \subseteq ValidIdsOf(tables.jobs)
          /\ c.success => c = Classes(tables, c.groupsById)
          /\ c.success => GroupIndex(tables, c.groupsById)
      <4> HIDE DEF tables
      <4> QED BY <1>1, ClassesLoadedAre
    <3> HIDE DEF c, tables
    <3> QED BY <2>1, <3>1 DEF c
  <2>2. CASE r = Finished(ClassesRestored(tables))
    <3> DEFINE c == ClassesRestored(tables)
    <3>1. /\ IsRuleSet(c) /\ c.tables = tables
          /\ c.definitions = EmptyTables /\ c.effectDefinitions = <<>>
          /\ c.success =>
                /\ ClassesAreWell(tables)
                /\ \A improvement \in ToSet(tables.improvements) : improvement.jobs \subseteq {}
          /\ c.success => c = Classes(tables, c.groupsById)
          /\ c.success => GroupIndex(tables, c.groupsById)
      <4> HIDE DEF tables
      <4> QED BY <1>1, ClassesRestoredAre
    <3> HIDE DEF c, tables
    <3> QED BY <2>2, <3>1 DEF c
  <2> QED BY <2>1, <2>2 DEF IsMade
<1>3. /\ OneType(r.definitions)
      /\ r.success =>
            /\ c.success /\ GroupsAreWell(tables)
            /\ r.groupsById = c.groupsById
            /\ r.definitions.domains["job"] = Distinct(c.jobIds)
            /\ r.definitions.domains["resource"] = Distinct(c.resourceIds)
            /\ r.effectDefinitions = EffectsOf(tables)
      /\ ~r.success => r.effectDefinitions = <<>>
  <2>1. Len(c.tables.variables) \in Nat
    BY <1>1, <1>2, TablesAreLists DEF IsList
  <2> QED BY <1>2, <2>1, FinishedIs
<1>4. c.success => /\ c.jobIds = <<>> \o ValidIds(tables.jobs)
                   /\ c.resourceIds = <<>> \o ValidIds(tables.resources)
  <2> SUFFICES ASSUME c.success
               PROVE  /\ c.jobIds = <<>> \o ValidIds(tables.jobs)
                      /\ c.resourceIds = <<>> \o ValidIds(tables.resources)
    OBVIOUS
  <2>1. c = Classes(tables, c.groupsById)
    BY <1>2
  <2> QED BY <2>1 DEF Classes
<1>5. /\ ToSet(Distinct(<<>> \o ValidIds(tables.jobs))) = ValidIdsOf(tables.jobs)
      /\ ToSet(Distinct(<<>> \o ValidIds(tables.resources))) = ValidIdsOf(tables.resources)
  BY <1>1, TablesAreLists, DomainIs
<1>6. r.success => SuccessSays(r)
  BY <1>2, <1>3, <1>4, <1>5 DEF SuccessSays
<1> QED BY <1>3, <1>6

\* The groups a validated object names are found, as groups of the table.
LEMMA NamedGroupsAreFound ==
  ASSUME NEW groups, IsList(groups), NEW object, ValidateGroupReferences(object, groups),
         NEW index, NEW m, Finds(index, groups, m),
         \A i \in 1 .. Len(groups) : groups[i].id \in DOMAIN index,
         NEW id \in ToSet(object.groups)
  PROVE  /\ id \in DOMAIN index /\ index[id].scopeType = m
         /\ groups[index[id].index].id = id
<1>1. id \in IdsOf(groups)
  BY DEF ValidateGroupReferences
<1>2. PICK i \in 1 .. Len(groups) : groups[i].id = id
  BY <1>1 DEF IdsOf, ToSet, IsList
<1>3. index[id] = [scopeType |-> m, index |-> i]
  BY <1>2 DEF Finds
<1> QED BY <1>2, <1>3

\* The same for all objects of a table and for its groups.
LEMMA TableResolves ==
  ASSUME NEW objects, NEW groups, IsList(groups), NEW index, NEW m,
         Finds(index, groups, m),
         \A i \in 1 .. Len(groups) :
            groups[i].id \in DOMAIN index /\ IsValidIdentifier(groups[i].id),
         \A object \in ToSet(objects) : ValidateGroupReferences(object, groups),
         ValidateGroupGraph(groups)
  PROVE  /\ \A object \in ToSet(objects) \cup ToSet(groups) : \A id \in ToSet(object.groups) :
                /\ id \in DOMAIN index /\ index[id].scopeType = m
                /\ groups[index[id].index].id = id
         /\ \A group \in ToSet(groups) : group.id \notin Inherited(groups, group)
<1>1. \A object \in ToSet(objects) \cup ToSet(groups) : ValidateGroupReferences(object, groups)
  BY DEF ValidateGroupGraph
<1>2. \A g \in ToSet(groups) : IsValidIdentifier(g.id)
  BY DEF ToSet, IsList
<1>3. \A group \in ToSet(groups) : group.id \notin Inherited(groups, group)
  BY <1>2, NoCircle
<1>4. ASSUME NEW object \in ToSet(objects) \cup ToSet(groups), NEW id \in ToSet(object.groups)
      PROVE  /\ id \in DOMAIN index /\ index[id].scopeType = m
             /\ groups[index[id].index].id = id
  BY <1>1, NamedGroupsAreFound
<1> QED BY <1>3, <1>4

\* The empty list has no elements.
LEMMA NothingInEmpty == ToSet(<<>>) = {}
BY DEF ToSet

\* Whatever is named as a group is found as one, and no group inherits from itself.
THEOREM GroupsAlwaysResolve == RuleSetSpec => []GroupsResolve
<1>1. RuleSetInv => GroupsResolve
  <2> SUFFICES ASSUME RuleSetInv, ruleset.success,
                      NEW own \in {<<"improvements", "improvement_groups", "improvement group">>,
                                   <<"jobs", "job_groups", "job group">>}
               PROVE  LET groups == ruleset.tables[own[2]]
                      IN  /\ \A object \in ToSet(ruleset.tables[own[1]]) \cup ToSet(groups) :
                                \A id \in ToSet(object.groups) :
                                    /\ id \in DOMAIN ruleset.groupsById
                                    /\ ruleset.groupsById[id].scopeType = own[3]
                                    /\ groups[ruleset.groupsById[id].index].id = id
                          /\ \A group \in ToSet(groups) : group.id \notin Inherited(groups, group)
    BY DEF GroupsResolve
  <2> DEFINE objects == ruleset.tables[own[1]]
             groups == ruleset.tables[own[2]]
             index == ruleset.groupsById
             m == own[3]
  <2>1. CASE roots = <<>>
    <3>1. ruleset = EmptyRuleSet
      BY <2>1 DEF RuleSetInv
    <3>2. /\ own[1] \in TableNames /\ own[2] \in TableNames
      <4>1. {"improvements", "improvement_groups", "jobs", "job_groups"} \subseteq TableNames
        BY DEF TableNames, Directory
      <4>2. /\ own[1] = "improvements" \/ own[1] = "jobs"
            /\ own[2] = "improvement_groups" \/ own[2] = "job_groups"
        <5>1. CASE own = <<"improvements", "improvement_groups", "improvement group">>
          BY <5>1
        <5>2. CASE own = <<"jobs", "job_groups", "job group">>
          BY <5>2
        <5> QED BY <5>1, <5>2
      <4> QED BY <4>1, <4>2
    <3>3. objects = <<>> /\ groups = <<>>
      BY <3>1, <3>2 DEF EmptyRuleSet, NoObjects
    <3>4. ToSet(objects) = {} /\ ToSet(groups) = {}
      BY <3>3, NothingInEmpty
    <3> QED BY <3>4
  <2>2. CASE roots # <<>>
    <3> DEFINE tables == ruleset.tables
    <3>1. IsMade(ruleset) /\ AreTables(tables)
      BY <2>2 DEF RuleSetInv, IsMade
    <3>2. /\ ClassesAreWell(tables) /\ GroupsAreWell(tables) /\ GroupIndex(tables, index)
      BY <3>1, SuccessIs DEF SuccessSays
    <3>3. IsList(tables.improvement_groups) /\ IsList(tables.job_groups)
      BY <3>1, TablesAreLists
    <3>4. /\ \A id : id \in DOMAIN index <=>
                \/ \E i \in 1 .. Len(tables.job_groups) : tables.job_groups[i].id = id
                \/ \E i \in 1 .. Len(tables.improvement_groups) :
                      tables.improvement_groups[i].id = id
          /\ Finds(index, tables.job_groups, "job group")
          /\ Finds(index, tables.improvement_groups, "improvement group")
      BY <3>2 DEF GroupIndex, FindsBoth
    <3>5. /\ \A i \in 1 .. Len(tables.job_groups) : IsValidIdentifier(tables.job_groups[i].id)
          /\ \A i \in 1 .. Len(tables.improvement_groups) :
                IsValidIdentifier(tables.improvement_groups[i].id)
      BY <3>2 DEF ClassesAreWell, GroupsSeparate, Separate
    <3>6. /\ \A object \in ToSet(tables.improvements) :
                ValidateGroupReferences(object, tables.improvement_groups)
          /\ \A object \in ToSet(tables.jobs) : ValidateGroupReferences(object, tables.job_groups)
          /\ ValidateGroupGraph(tables.improvement_groups)
          /\ ValidateGroupGraph(tables.job_groups)
      BY <3>2 DEF GroupsAreWell
    <3>7. /\ IsList(groups) /\ Finds(index, groups, m)
          /\ \A i \in 1 .. Len(groups) :
                groups[i].id \in DOMAIN index /\ IsValidIdentifier(groups[i].id)
          /\ \A object \in ToSet(objects) : ValidateGroupReferences(object, groups)
          /\ ValidateGroupGraph(groups)
      <4>1. CASE own = <<"improvements", "improvement_groups", "improvement group">>
        <5>1. objects = tables.improvements /\ groups = tables.improvement_groups
              /\ m = "improvement group"
          BY <4>1
        <5> HIDE DEF objects, groups, index, m, tables
        <5> QED BY <3>3, <3>4, <3>5, <3>6, <5>1
      <4>2. CASE own = <<"jobs", "job_groups", "job group">>
        <5>1. objects = tables.jobs /\ groups = tables.job_groups /\ m = "job group"
          BY <4>2
        <5> HIDE DEF objects, groups, index, m, tables
        <5> QED BY <3>3, <3>4, <3>5, <3>6, <5>1
      <4> QED BY <4>1, <4>2
    <3> HIDE DEF objects, groups, index, m, tables
    <3>8. /\ \A object \in ToSet(objects) \cup ToSet(groups) : \A id \in ToSet(object.groups) :
                /\ id \in DOMAIN index /\ index[id].scopeType = m
                /\ groups[index[id].index].id = id
          /\ \A group \in ToSet(groups) : group.id \notin Inherited(groups, group)
      BY <3>7, TableResolves
    <3> QED BY <3>8 DEF objects, groups, index, m
  <2> QED BY <2>1, <2>2
<1> QED BY <1>1, RuleSetInvAlways, PTL

\* No id is defined as a number and as a string in the tables of definitions that a
\* ruleset loads or restores, whether it succeeds or not.
THEOREM LoadedDefinitionsHaveOneType == RuleSetSpec => []OneType(ruleset.definitions)
<1>1. RuleSetInv => OneType(ruleset.definitions)
  <2> SUFFICES ASSUME RuleSetInv PROVE OneType(ruleset.definitions)
    OBVIOUS
  <2>1. CASE roots = <<>>
    BY <2>1, NoDefinitionsAreSeparate DEF RuleSetInv, EmptyRuleSet
  <2>2. CASE roots # <<>>
    BY <2>2, SuccessIs DEF RuleSetInv
  <2> QED BY <2>1, <2>2
<1> QED BY <1>1, RuleSetInvAlways, PTL

-----------------------------------------------------------------------------
(* What is derived from tables.                                            *)

\* An index that was empty leads to the objects of a table.
LEMMA EmplaceLeads ==
  ASSUME NEW objects, IsList(objects), IdsDiffer(objects), NEW ids
  PROVE  Leads(Emplace(NoIndex, objects, ids), objects, ids)
<1> DEFINE index == Emplace(NoIndex, objects, ids)
<1>1. DOMAIN index = ids
  BY EmplaceInEmpty
<1>2. ASSUME NEW i \in DOMAIN objects, objects[i].id \in ids
      PROVE  index[objects[i].id] = i
  <2> DEFINE places == {j \in DOMAIN objects : objects[j].id = objects[i].id}
  <2>1. index[objects[i].id] = Min(places)
    BY <1>2 DEF Emplace, NoIndex
  <2>2. places = {i}
    BY <1>2 DEF IdsDiffer
  <2>3. i \in Nat
    BY <1>2 DEF IsList
  <2> HIDE DEF places, index
  <2>4. Min({i}) = i
    BY <2>3, MaxIsGreatest
  <2> QED BY <2>1, <2>2, <2>4
<1> HIDE DEF index
<1>3. Leads(index, objects, ids)
  BY <1>1, <1>2 DEF Leads
<1> QED BY <1>3 DEF index

\* A list of ids names the objects of a table once, and a domain that is set has its ids.
LEMMA ListNames ==
  ASSUME NEW objects, IsList(objects), IdsDiffer(objects),
         NEW domain \in {Unset, Distinct(<<>> \o ValidIds(objects))}
  PROVE  NamesOnce(<<>> \o ValidIds(objects), objects, domain)
<1> DEFINE q == ValidIds(objects)
           S == IdsOf(objects)
<1>1. q \in Seq(S) /\ ToSet(q) = ValidIdsOf(objects) /\ IsInjective(q)
  BY ValidIdsAre
<1>2. domain # Unset => ToSet(domain) = ValidIdsOf(objects)
  BY DomainIs
<1> HIDE DEF q, S
<1>3. <<>> \o q = q
  BY <1>1
<1>4. NamesOnce(<<>> \o q, objects, domain)
  BY <1>1, <1>2, <1>3 DEF NamesOnce
<1> QED BY <1>4 DEF q

\* Definitions of some variables and of all of them, as sets of ids.
LEMMA DeclaredIs ==
  ASSUME NEW variables, IsList(variables), NEW types
  PROVE  \A id : id \in Declared(variables, types) <=>
            \E i \in 1 .. Len(variables) :
               variables[i].type \in types /\ DefinedId(variables[i]) = id
<1>1. DOMAIN variables = 1 .. Len(variables)
  BY DEF IsList
<1>2. \A v : v \in ToSet(variables) <=> \E i \in 1 .. Len(variables) : variables[i] = v
  BY <1>1 DEF ToSet
<1> QED BY <1>2 DEF Declared

LEMMA SomeAreDeclared ==
  ASSUME NEW r, IsList(r.tables.variables),
         OfSome(r.definitions, r.tables.variables, Len(r.tables.variables)),
         r.success => OfAll(r.definitions, r.tables.variables, Len(r.tables.variables))
  PROVE  DefinitionsAreOf(r)
<1> DEFINE d == r.definitions
           variables == r.tables.variables
           n == Len(variables)
           numbers == Declared(variables, {"numeric", "boolean"})
           strings == Declared(variables, {"string"})
<1>1. /\ OfSome(d, variables, n) /\ (r.success => OfAll(d, variables, n))
      /\ IsList(variables)
  OBVIOUS
<1>2. /\ Numbers(d) = d.numeric \cup DOMAIN d.numericPatterns
      /\ Strings(d) = d.string \cup DOMAIN d.stringPatterns
  BY DEF Numbers, Strings
<1> HIDE DEF variables, d, n
<1>3. /\ \A id : id \in numbers <=> \E i \in 1 .. n :
            variables[i].type \in {"numeric", "boolean"} /\ DefinedId(variables[i]) = id
      /\ \A id : id \in strings <=> \E i \in 1 .. n :
            variables[i].type = "string" /\ DefinedId(variables[i]) = id
  BY <1>1, DeclaredIs DEF n
<1> HIDE DEF numbers, strings
<1>4. Numbers(d) \subseteq numbers /\ Strings(d) \subseteq strings
  BY <1>1, <1>3 DEF OfSome
<1>5. r.success => numbers \subseteq Numbers(d) /\ strings \subseteq Strings(d)
  BY <1>1, <1>3 DEF OfAll
<1> QED BY <1>2, <1>4, <1>5 DEF DefinitionsAreOf, d, variables, numbers, strings

\* Whatever was loaded or restored derives this of its tables.
LEMMA MadeIsDerived ==
  ASSUME NEW r, IsMade(r)
  PROVE  IndicesLead(r) /\ ListsName(r) /\ GroupsLead(r) /\ DefinitionsAreOf(r)
<1> DEFINE t == r.tables
<1>1. PICK c : /\ r = Finished(c) /\ IsRuleSet(c) /\ c.tables = t
               /\ c.definitions = EmptyTables /\ c.effectDefinitions = <<>>
               /\ c = [Classes(t, c.groupsById) EXCEPT !.success = c.success]
               /\ GroupsLead(c) /\ Len(c.tables.variables) \in Nat
  BY MadeOfClasses
<1>2. AreTables(t)
  BY DEF IsMade
<1>3. /\ r = [c EXCEPT
                !.projectsByType = Emplace(c.projectsByType, c.tables.projects,
                    {project.id : project \in ToSet(c.tables.projects)}),
                !.definitions = r.definitions,
                !.effectDefinitions = r.effectDefinitions,
                !.success = r.success]
      /\ OfSome(r.definitions, t.variables, Len(t.variables))
      /\ r.success => OfAll(r.definitions, t.variables, Len(t.variables))
      /\ r.definitions.domains["job"] \in {Unset, Distinct(c.jobIds)}
      /\ r.definitions.domains["resource"] \in {Unset, Distinct(c.resourceIds)}
  <2> HIDE DEF t
  <2> QED BY <1>1, FinishedIs
<1>4. /\ c.improvementsByType =
             Emplace(NoIndex, t.improvements, ToSet(ValidIds(t.improvements)))
      /\ c.jobsByType = Emplace(NoIndex, t.jobs, ToSet(ValidIds(t.jobs)))
      /\ c.resourcesById = Emplace(NoIndex, t.resources, ToSet(ValidIds(t.resources)))
      /\ c.projectsByType = NoIndex
      /\ c.jobIds = <<>> \o ValidIds(t.jobs)
      /\ c.resourceIds = <<>> \o ValidIds(t.resources)
  <2> DEFINE index == c.groupsById
             success == c.success
  <2>1. c = [Classes(t, index) EXCEPT !.success = success]
    BY <1>1
  <2> HIDE DEF index, success, t
  <2> QED BY <2>1 DEF Classes
<1>5. /\ r.improvementsByType = c.improvementsByType /\ r.jobsByType = c.jobsByType
      /\ r.resourcesById = c.resourcesById /\ r.groupsById = c.groupsById
      /\ r.projectsByType = Emplace(NoIndex, t.projects, IdsOf(t.projects))
      /\ r.jobIds = c.jobIds /\ r.resourceIds = c.resourceIds
  <2> DEFINE index == Emplace(c.projectsByType, c.tables.projects,
                              {project.id : project \in ToSet(c.tables.projects)})
             definitions0 == r.definitions
             effects == r.effectDefinitions
             success == r.success
  <2>1. index = Emplace(NoIndex, t.projects, IdsOf(t.projects))
    BY <1>1, <1>4 DEF IdsOf
  <2>2. r = [c EXCEPT !.projectsByType = index, !.definitions = definitions0,
                      !.effectDefinitions = effects, !.success = success]
    BY <1>3
  <2> HIDE DEF index, definitions0, effects, success, t
  <2> QED BY <1>1, <2>1, <2>2 DEF IsRuleSet
<1>6. /\ IsList(t.improvements) /\ IsList(t.jobs) /\ IsList(t.resources) /\ IsList(t.projects)
      /\ IsList(t.variables)
      /\ IdsDiffer(t.improvements) /\ IdsDiffer(t.jobs) /\ IdsDiffer(t.resources)
      /\ IdsDiffer(t.projects)
  BY <1>2, TablesAreLists DEF IsTable
<1>7. /\ ToSet(ValidIds(t.improvements)) = ValidIdsOf(t.improvements)
      /\ ToSet(ValidIds(t.jobs)) = ValidIdsOf(t.jobs)
      /\ ToSet(ValidIds(t.resources)) = ValidIdsOf(t.resources)
  BY <1>6, ValidIdsAre
<1>8. IndicesLead(r)
  BY <1>4, <1>5, <1>6, <1>7, EmplaceLeads DEF IndicesLead
<1>9. ListsName(r)
  BY <1>3, <1>4, <1>5, <1>6, ListNames DEF ListsName
<1>10. GroupsLead(r)
  BY <1>1, <1>5 DEF GroupsLead
<1>11. DefinitionsAreOf(r)
  BY <1>3, <1>6, SomeAreDeclared
<1> QED BY <1>8, <1>9, <1>10, <1>11

\* An empty ruleset derives nothing, of nothing.
LEMMA NothingIsDerived ==
  /\ IndicesLead(EmptyRuleSet) /\ ListsName(EmptyRuleSet) /\ GroupsLead(EmptyRuleSet)
  /\ DefinitionsAreOf(EmptyRuleSet) /\ EffectsAreOf(EmptyRuleSet)
<1> DEFINE r == EmptyRuleSet
<1>1. /\ r.improvementsByType = NoIndex /\ r.jobsByType = NoIndex /\ r.resourcesById = NoIndex
      /\ r.projectsByType = NoIndex /\ r.groupsById = NoIndex
      /\ r.jobIds = <<>> /\ r.resourceIds = <<>> /\ r.effectDefinitions = <<>>
      /\ r.definitions = EmptyTables /\ r.tables = NoObjects
  BY DEF EmptyRuleSet
<1>2. /\ NoObjects.improvements = <<>> /\ NoObjects.jobs = <<>> /\ NoObjects.resources = <<>>
      /\ NoObjects.projects = <<>> /\ NoObjects.improvement_groups = <<>>
      /\ NoObjects.job_groups = <<>> /\ NoObjects.variables = <<>>
  BY DEF NoObjects, TableNames, Directory
<1>3. IdsOf(<<>>) = {} /\ ValidIdsOf(<<>>) = {}
  BY NothingInEmpty DEF IdsOf, ValidIdsOf
<1> HIDE DEF r
<1>4. IndicesLead(r)
  <2>1. Leads(NoIndex, <<>>, {})
    BY DEF Leads, NoIndex
  <2> QED BY <1>1, <1>2, <1>3, <2>1 DEF IndicesLead
<1>5. ListsName(r)
  <2>1. IsInjective(<<>>)
    BY DEF IsInjective
  <2>2. \A domain \in {"job", "resource"} : EmptyTables.domains[domain] = Unset
    BY NoDefinitionsAreSeparate, FixedAssumption
  <2> QED BY <1>1, <1>2, <1>3, <2>1, <2>2, NothingInEmpty DEF ListsName, NamesOnce
<1>6. GroupsLead(r)
  BY <1>1, <1>2, <1>3 DEF GroupsLead, NoIndex
<1>7. DefinitionsAreOf(r)
  <2>1. /\ EmptyTables.numeric \cup DOMAIN EmptyTables.numericPatterns = {}
        /\ EmptyTables.string \cup DOMAIN EmptyTables.stringPatterns = {}
    BY EmptyTable DEF EmptyTables, Tables
  <2>2. \A types : Declared(<<>>, types) = {}
    BY NothingInEmpty DEF Declared
  <2> QED BY <1>1, <1>2, <2>1, <2>2 DEF DefinitionsAreOf
<1>8. EffectsAreOf(r)
  BY <1>1, NothingInEmpty DEF EffectsAreOf, Differ
<1> QED BY <1>4, <1>5, <1>6, <1>7, <1>8 DEF r

\* A list of effects, no two of them of one id and scope type, which are among the keys.
Keyed(effects, keys) ==
    /\ IsList(effects) /\ Differ(effects)
    /\ \A effect \in ToSet(effects) : <<effect.id, effect.scopeType>> \in keys

LEMMA NothingIsKeyed ==
  ASSUME NEW keys
  PROVE  Keyed(<<>>, keys)
BY NothingInEmpty DEF Keyed, IsList, Differ

\* Two of them make one, if they have no key in common.
LEMMA KeyedTogether ==
  ASSUME NEW a, NEW b, NEW keys, NEW others, Keyed(a, keys), Keyed(b, others),
         keys \cap others = {}
  PROVE  Keyed(a \o b, keys \cup others)
<1> DEFINE S == ToSet(a) \cup ToSet(b)
           m == Len(a)
           n == Len(b)
           q == a \o b
<1>1. a \in Seq(S) /\ b \in Seq(S)
  BY ListsGrow DEF Keyed, IsList
<1>2. \A x \in S : <<x.id, x.scopeType>> \in keys \cup others
  BY DEF Keyed
<1> HIDE DEF S
<1>3. /\ q \in Seq(S) /\ m \in Nat /\ n \in Nat /\ Len(q) = m + n
      /\ DOMAIN a = 1 .. m /\ DOMAIN b = 1 .. n /\ DOMAIN q = 1 .. m + n
      /\ \A i \in 1 .. m + n : q[i] = IF i <= m THEN a[i] ELSE b[i - m]
  BY <1>1
<1>4. /\ \A i \in 1 .. m : <<a[i].id, a[i].scopeType>> \in keys
      /\ \A i \in 1 .. n : <<b[i].id, b[i].scopeType>> \in others
  BY <1>3 DEF Keyed, ToSet
<1> HIDE DEF q, m, n
<1>5. ASSUME NEW i \in 1 .. m + n, NEW j \in 1 .. m + n,
             q[i].id = q[j].id, q[i].scopeType = q[j].scopeType
      PROVE  i = j
  <2>1. \A k \in 1 .. m + n : \/ k \in 1 .. m /\ q[k] = a[k]
                              \/ ~(k <= m) /\ k - m \in 1 .. n /\ q[k] = b[k - m]
    BY <1>3
  <2>2. CASE i \in 1 .. m /\ j \in 1 .. m /\ q[i] = a[i] /\ q[j] = a[j]
    BY <1>3, <1>5, <2>2 DEF Keyed, Differ
  <2>3. CASE i - m \in 1 .. n /\ j - m \in 1 .. n /\ q[i] = b[i - m] /\ q[j] = b[j - m]
    <3>1. i - m = j - m
      BY <1>3, <1>5, <2>3 DEF Keyed, Differ
    <3> QED BY <1>3, <3>1
  <2>4. CASE i \in 1 .. m /\ j - m \in 1 .. n /\ q[i] = a[i] /\ q[j] = b[j - m]
    BY <1>4, <1>5, <2>4
  <2>5. CASE i - m \in 1 .. n /\ j \in 1 .. m /\ q[i] = b[i - m] /\ q[j] = a[j]
    BY <1>4, <1>5, <2>5
  <2> QED BY <2>1, <2>2, <2>3, <2>4, <2>5
<1>6. Differ(q)
  BY <1>3, <1>5 DEF Differ
<1>7. IsList(q) /\ ToSet(q) \subseteq S
  BY <1>3, SequencesAreLists
<1>8. Keyed(q, keys \cup others)
  BY <1>2, <1>6, <1>7 DEF Keyed
<1> QED BY <1>8 DEF q

\* One effect for a code, of which there is at most one.
LEMMA OneIsKeyed ==
  ASSUME NEW effects, NEW codes, AreCodes(codes), NEW keys,
         effects = [i \in DOMAIN codes |-> effects[i]],
         \A i \in DOMAIN codes : <<effects[i].id, effects[i].scopeType>> \in keys
  PROVE  Keyed(effects, keys)
<1> DEFINE L == Len(codes)
           S == {effects[i] : i \in 1 .. L}
<1>1. L \in Nat /\ L <= 1 /\ DOMAIN codes = 1 .. L
  BY DEF AreCodes, IsList
<1>2. effects = [i \in 1 .. L |-> effects[i]] /\ \A i \in 1 .. L : effects[i] \in S
  BY <1>1
<1>3. \A x \in S : <<x.id, x.scopeType>> \in keys
  BY <1>1
<1> HIDE DEF S
<1>4. effects \in Seq(S) /\ Len(effects) = L
  <2> HIDE DEF L
  <2> QED BY <1>1, <1>2, FunctionsAreLists
<1>5. IsList(effects) /\ ToSet(effects) \subseteq S
  BY <1>4, SequencesAreLists
<1>6. Differ(effects)
  <2>1. \A i, j \in 1 .. L : i = j
    BY <1>1
  <2> QED BY <1>1, <1>2, <2>1 DEF Differ
<1> QED BY <1>3, <1>5, <1>6 DEF Keyed

LEMMA WhenIsKeyed ==
  ASSUME NEW condition, NEW effect, NEW keys, <<effect.id, effect.scopeType>> \in keys
  PROVE  Keyed(When(condition, effect), keys)
<1>1. CASE condition
  <2>1. <<effect>> \in Seq({effect}) /\ When(condition, effect) = <<effect>>
    BY <1>1 DEF When
  <2>2. IsList(<<effect>>) /\ ToSet(<<effect>>) \subseteq {effect}
    BY <2>1, SequencesAreLists
  <2>3. Differ(<<effect>>)
    BY DEF Differ
  <2> QED BY <2>1, <2>2, <2>3 DEF Keyed
<1>2. CASE ~condition
  BY <1>2, NothingIsKeyed DEF When
<1> QED BY <1>1, <1>2

\* The keys of effects that are made for objects.
Keys(ids, names, types) == (ids \X names) \X types

LEMMA KeysDiffer ==
  ASSUME NEW ids, NEW names, NEW types, NEW others, NEW words, NEW kinds,
         ids \cap others = {} \/ names \cap words = {} \/ types \cap kinds = {}
  PROVE  Keys(ids, names, types) \cap Keys(others, words, kinds) = {}
BY DEF Keys

\* The effects of each object of a table, one after the other.
LEMMA KeyedOfTable ==
  ASSUME NEW objects, IsList(objects), IdsDiffer(objects), NEW each, NEW names, NEW types,
         each = [i \in DOMAIN objects |-> each[i]],
         \A i \in DOMAIN objects : Keyed(each[i], Keys({objects[i].id}, names, types))
  PROVE  Keyed(FlattenSeq(each), Keys(IdsOf(objects), names, types))
<1> DEFINE L == Len(objects)
           S == UNION {ToSet(each[i]) : i \in 1 .. L}
           Ids0(n) == {objects[i].id : i \in 1 .. n}
<1>1. L \in Nat /\ DOMAIN objects = 1 .. L
  BY DEF IsList
<1>2. \A i \in 1 .. L : each[i] \in Seq(S)
  <2> SUFFICES ASSUME NEW i \in 1 .. L PROVE each[i] \in Seq(S)
    OBVIOUS
  <2>1. each[i] \in Seq(ToSet(each[i]))
    BY <1>1 DEF Keyed, IsList
  <2>2. ToSet(each[i]) \subseteq S
    OBVIOUS
  <2> HIDE DEF S
  <2> QED BY <2>1, <2>2, ListsGrow
<1>3. Ids0(L) = IdsOf(objects)
  BY <1>1 DEF IdsOf, ToSet
<1> HIDE DEF S, L
<1>4. each \in Seq(Seq(S)) /\ Len(each) = L
  <2>1. each \in [1 .. L -> Seq(S)]
    BY <1>1, <1>2
  <2> QED BY <1>1, <2>1
<1>5. PICK f \in [0 .. Len(each) -> Seq(S)] :
          /\ f[0] = <<>> /\ FlattenSeq(each) = f[Len(each)]
          /\ \A n \in 1 .. Len(each) : f[n] = f[n - 1] \o each[n]
  BY <1>4, FlattenSteps
<1> DEFINE G == {n \in 0 .. L : Keyed(f[n], Keys(Ids0(n), names, types))}
<1>6. 0 \in G
  BY <1>1, <1>5, NothingIsKeyed
<1>7. ASSUME NEW n \in 1 .. L, n - 1 \in G PROVE n \in G
  <2>1. n \in 0 .. L /\ \A i : i \in 1 .. n <=> i \in 1 .. n - 1 \/ i = n
    BY <1>1
  <2>2. /\ Keyed(f[n - 1], Keys(Ids0(n - 1), names, types))
        /\ Keyed(each[n], Keys({objects[n].id}, names, types))
    BY <1>1, <1>7
  <2>3. Ids0(n - 1) \cap {objects[n].id} = {}
    <3>1. \A i \in 1 .. n - 1 : i \in 1 .. L /\ i # n
      BY <1>1
    <3> QED BY <1>1, <3>1 DEF IdsDiffer
  <2>4. Ids0(n) = Ids0(n - 1) \cup {objects[n].id}
    BY <2>1
  <2> HIDE DEF Ids0
  <2>5. Keys(Ids0(n - 1), names, types) \cap Keys({objects[n].id}, names, types) = {}
    BY <2>3, KeysDiffer
  <2>6. Keys(Ids0(n - 1), names, types) \cup Keys({objects[n].id}, names, types)
            = Keys(Ids0(n), names, types)
    BY <2>4 DEF Keys
  <2>7. Keyed(f[n - 1] \o each[n], Keys(Ids0(n), names, types))
    BY <2>2, <2>5, <2>6, KeyedTogether
  <2> QED BY <1>4, <1>5, <2>1, <2>7
<1> HIDE DEF G
<1>8. 0 .. L \subseteq G
  BY <1>1, <1>6, <1>7, BoundedInduction
<1>9. L \in G
  BY <1>1, <1>8
<1> HIDE DEF Ids0
<1> QED BY <1>3, <1>4, <1>5, <1>9 DEF G

ImprovementNames == {"class.effect", "jobs.effect", "instance.effect"}
ImprovementTypes == {"improvement class", "improvement"}

LEMMA EffectsOfImprovementAreKeyed ==
  ASSUME NEW improvement, WellRead("improvements", improvement)
  PROVE  Keyed(EffectsOfImprovement(improvement),
               Keys({improvement.id}, ImprovementNames, ImprovementTypes))
<1> DEFINE counts == {JobCount(job) : job \in improvement.jobs}
           a == [i \in DOMAIN improvement.classEffect |->
                    ClassEffect(improvement, "class.effect", "improvement class",
                                improvement.classEffect[i], {})]
           generated == ClassEffect(improvement, "jobs.effect", "improvement class",
                                    Setting(counts), counts)
           b == When(counts # {}, generated)
           c == [i \in DOMAIN improvement.instanceEffect |->
                    Effect(<<improvement.id, "instance.effect">>, "improvement", improvement.id,
                           <<Code(<<"x">>, <<>>)>>, improvement.instanceEffect[i], {})]
           A == Keys({improvement.id}, {"class.effect"}, ImprovementTypes)
           B == Keys({improvement.id}, {"jobs.effect"}, ImprovementTypes)
           C == Keys({improvement.id}, {"instance.effect"}, ImprovementTypes)
<1>1. AreCodes(improvement.classEffect) /\ AreCodes(improvement.instanceEffect)
  BY DEF WellRead
<1>2. /\ A = Keys({improvement.id}, {"class.effect"}, ImprovementTypes)
      /\ B = Keys({improvement.id}, {"jobs.effect"}, ImprovementTypes)
      /\ C = Keys({improvement.id}, {"instance.effect"}, ImprovementTypes)
  OBVIOUS
<1>3. /\ <<<<improvement.id, "class.effect">>, "improvement class">> \in A
      /\ <<<<improvement.id, "jobs.effect">>, "improvement class">> \in B
      /\ <<<<improvement.id, "instance.effect">>, "improvement">> \in C
  BY DEF Keys, ImprovementTypes
<1>4. A \cap B = {} /\ (A \cup B) \cap C = {}
  <2>1. A \cap B = {} /\ A \cap C = {} /\ B \cap C = {}
    BY KeysDiffer
  <2> QED BY <2>1
<1>5. A \cup B \cup C = Keys({improvement.id}, ImprovementNames, ImprovementTypes)
  BY DEF Keys, ImprovementNames
<1>6. EffectsOfImprovement(improvement) = a \o b \o c
  BY DEF EffectsOfImprovement
<1> HIDE DEF A, B, C
<1>7. Keyed(a, A)
  <2>1. \A i \in DOMAIN improvement.classEffect : <<a[i].id, a[i].scopeType>> \in A
    BY <1>3 DEF Effect, EffectOf, ClassEffect
  <2>2. a = [i \in DOMAIN improvement.classEffect |-> a[i]]
    OBVIOUS
  <2> HIDE DEF a
  <2> QED BY <1>1, <2>1, <2>2, OneIsKeyed
<1>8. Keyed(b, B)
  <2> HIDE DEF counts
  <2>1. generated.id = <<improvement.id, "jobs.effect">>
        /\ generated.scopeType = "improvement class"
    BY DEF Effect, EffectOf, ClassEffect
  <2> HIDE DEF generated
  <2> QED BY <1>3, <2>1, WhenIsKeyed
<1>9. Keyed(c, C)
  <2>1. \A i \in DOMAIN improvement.instanceEffect : <<c[i].id, c[i].scopeType>> \in C
    BY <1>3 DEF Effect, EffectOf, ClassEffect
  <2>2. c = [i \in DOMAIN improvement.instanceEffect |-> c[i]]
    OBVIOUS
  <2> HIDE DEF c
  <2> QED BY <1>1, <2>1, <2>2, OneIsKeyed
<1> HIDE DEF a, b, c
<1>10. Keyed(a \o b, A \cup B)
  BY <1>4, <1>7, <1>8, KeyedTogether
<1>11. Keyed(a \o b \o c, A \cup B \cup C)
  BY <1>4, <1>9, <1>10, KeyedTogether
<1> QED BY <1>5, <1>6, <1>11

JobNames == {"class.effect", "resources.effect"}

LEMMA EffectsOfJobAreKeyed ==
  ASSUME NEW job, WellRead("jobs", job)
  PROVE  Keyed(EffectsOfJob(job), Keys({job.id}, JobNames, {"job class"}))
<1> DEFINE amounts == {Consumes(resource) : resource \in job.input}
                          \cup {Produces(resource) : resource \in job.output}
           a == [i \in DOMAIN job.classEffect |->
                    ClassEffect(job, "class.effect", "job class", job.classEffect[i], {})]
           generated == ClassEffect(job, "resources.effect", "job class",
                                    Setting(amounts), amounts)
           b == When(amounts # {}, generated)
           A == Keys({job.id}, {"class.effect"}, {"job class"})
           B == Keys({job.id}, {"resources.effect"}, {"job class"})
<1>1. AreCodes(job.classEffect)
  BY DEF WellRead
<1>2. /\ <<<<job.id, "class.effect">>, "job class">> \in A
      /\ <<<<job.id, "resources.effect">>, "job class">> \in B
  BY DEF Keys
<1>3. A \cap B = {}
  BY DEF Keys
<1>4. A \cup B = Keys({job.id}, JobNames, {"job class"})
  BY DEF Keys, JobNames
<1>5. EffectsOfJob(job) = a \o b
  BY DEF EffectsOfJob
<1> HIDE DEF A, B
<1>6. Keyed(a, A)
  <2>1. \A i \in DOMAIN job.classEffect : <<a[i].id, a[i].scopeType>> \in A
    BY <1>2 DEF Effect, EffectOf, ClassEffect
  <2>2. a = [i \in DOMAIN job.classEffect |-> a[i]]
    OBVIOUS
  <2> HIDE DEF a
  <2> QED BY <1>1, <2>1, <2>2, OneIsKeyed
<1>7. Keyed(b, B)
  <2> HIDE DEF amounts
  <2>1. generated.id = <<job.id, "resources.effect">> /\ generated.scopeType = "job class"
    BY DEF Effect, EffectOf, ClassEffect
  <2> HIDE DEF generated
  <2> QED BY <1>2, <2>1, WhenIsKeyed
<1> HIDE DEF a, b
<1>8. Keyed(a \o b, A \cup B)
  BY <1>3, <1>6, <1>7, KeyedTogether
<1> QED BY <1>4, <1>5, <1>8

LEMMA EffectsOfGroupAreKeyed ==
  ASSUME NEW group, AreCodes(group.groupEffect), NEW scopeType
  PROVE  Keyed(EffectsOfGroup(group, scopeType),
               Keys({group.id}, {"group.effect"}, {scopeType}))
<1> DEFINE a == EffectsOfGroup(group, scopeType)
           A == Keys({group.id}, {"group.effect"}, {scopeType})
<1>1. <<<<group.id, "group.effect">>, scopeType>> \in A
  BY DEF Keys
<1>2. /\ a = [i \in DOMAIN group.groupEffect |-> a[i]]
      /\ \A i \in DOMAIN group.groupEffect :
            a[i].id = <<group.id, "group.effect">> /\ a[i].scopeType = scopeType
  BY DEF EffectsOfGroup, ClassEffect, Effect, EffectOf
<1> HIDE DEF A, a
<1>3. \A i \in DOMAIN group.groupEffect : <<a[i].id, a[i].scopeType>> \in A
  BY <1>1, <1>2
<1>4. Keyed(a, A)
  BY <1>2, <1>3, OneIsKeyed
<1> QED BY <1>4 DEF a, A

\* One effect for each effect of the table.
LEMMA GivenAreKeyed ==
  ASSUME NEW objects, IsList(objects), IdsDiffer(objects)
  PROVE  Keyed([i \in DOMAIN objects |-> Given(objects[i])],
               {<<id>> : id \in IdsOf(objects)} \X {e.scopeType : e \in ToSet(objects)})
<1> DEFINE L == Len(objects)
           given == [i \in DOMAIN objects |-> Given(objects[i])]
           S == {given[i] : i \in 1 .. L}
           keys == {<<id>> : id \in IdsOf(objects)} \X {e.scopeType : e \in ToSet(objects)}
<1>1. L \in Nat /\ DOMAIN objects = 1 .. L
  BY DEF IsList
<1>2. /\ given = [i \in 1 .. L |-> given[i]]
      /\ \A i \in 1 .. L : /\ given[i] \in S
                           /\ given[i].id = <<objects[i].id>>
                           /\ given[i].scopeType = objects[i].scopeType
  BY <1>1 DEF Given, Effect, EffectOf
<1>3. \A i \in 1 .. L : <<given[i].id, given[i].scopeType>> \in keys
  BY <1>1, <1>2 DEF IdsOf, ToSet
<1>4. \A x \in S : <<x.id, x.scopeType>> \in keys
  BY <1>3
<1> HIDE DEF given, S, keys
<1>5. given \in Seq(S) /\ Len(given) = L
  <2> HIDE DEF L
  <2> QED BY <1>1, <1>2, FunctionsAreLists
<1>6. IsList(given) /\ ToSet(given) \subseteq S
  BY <1>5, SequencesAreLists
<1>7. Differ(given)
  <2>1. \A i, j \in 1 .. L : given[i].id = given[j].id => i = j
    BY <1>1, <1>2 DEF IdsDiffer
  <2> QED BY <1>2, <2>1 DEF Differ
<1>8. Keyed(given, keys)
  BY <1>4, <1>6, <1>7 DEF Keyed
<1> QED BY <1>8 DEF given, keys

\* All effects that are made of tables: no two have one id and one scope type, and each is
\* of an object that a table has.
LEMMA EffectsAreKeyed ==
  ASSUME NEW t, AreTables(t)
  PROVE  /\ Differ(EffectsOf(t))
         /\ \A effect \in ToSet(EffectsOf(t)) :
               \E table \in Origins : effect.id[1] \in IdsOf(t[table])
<1> DEFINE given == [i \in DOMAIN t.effects |-> Given(t.effects[i])]
           p == [i \in DOMAIN t.improvements |-> EffectsOfImprovement(t.improvements[i])]
           q == [i \in DOMAIN t.jobs |-> EffectsOfJob(t.jobs[i])]
           g == [i \in DOMAIN t.improvement_groups |->
                    EffectsOfGroup(t.improvement_groups[i], "improvement group")]
           h == [i \in DOMAIN t.job_groups |-> EffectsOfGroup(t.job_groups[i], "job group")]
           P == FlattenSeq(p)
           Q == FlattenSeq(q)
           G == FlattenSeq(g)
           H == FlattenSeq(h)
           E == {<<id>> : id \in IdsOf(t.effects)} \X {e.scopeType : e \in ToSet(t.effects)}
           I == Keys(IdsOf(t.improvements), ImprovementNames, ImprovementTypes)
           J == Keys(IdsOf(t.jobs), JobNames, {"job class"})
           M == Keys(IdsOf(t.improvement_groups), {"group.effect"}, {"improvement group"})
           N == Keys(IdsOf(t.job_groups), {"group.effect"}, {"job group"})
<1>1. /\ IsTable("improvements", t.improvements) /\ IsTable("jobs", t.jobs)
      /\ IsTable("improvement_groups", t.improvement_groups)
      /\ IsTable("job_groups", t.job_groups) /\ IsTable("effects", t.effects)
  BY TablesAreLists
<1>2. /\ IsList(t.improvements) /\ IdsDiffer(t.improvements)
      /\ IsList(t.jobs) /\ IdsDiffer(t.jobs)
      /\ IsList(t.improvement_groups) /\ IdsDiffer(t.improvement_groups)
      /\ IsList(t.job_groups) /\ IdsDiffer(t.job_groups)
      /\ IsList(t.effects) /\ IdsDiffer(t.effects)
  BY <1>1 DEF IsTable
<1>3. Keyed(given, E)
  BY <1>2, GivenAreKeyed
<1>4. Keyed(P, I)
  <2>1. ASSUME NEW i \in DOMAIN t.improvements
        PROVE  Keyed(p[i], Keys({t.improvements[i].id}, ImprovementNames, ImprovementTypes))
    <3>1. WellRead("improvements", t.improvements[i])
      BY <1>1 DEF IsTable, ToSet
    <3> QED BY <3>1, EffectsOfImprovementAreKeyed
  <2>2. p = [i \in DOMAIN t.improvements |-> p[i]]
    OBVIOUS
  <2> HIDE DEF p
  <2> QED BY <1>2, <2>1, <2>2, KeyedOfTable
<1>5. Keyed(Q, J)
  <2>1. ASSUME NEW i \in DOMAIN t.jobs
        PROVE  Keyed(q[i], Keys({t.jobs[i].id}, JobNames, {"job class"}))
    <3>1. WellRead("jobs", t.jobs[i])
      BY <1>1 DEF IsTable, ToSet
    <3> QED BY <3>1, EffectsOfJobAreKeyed
  <2>2. q = [i \in DOMAIN t.jobs |-> q[i]]
    OBVIOUS
  <2> HIDE DEF q
  <2> QED BY <1>2, <2>1, <2>2, KeyedOfTable
<1>6. Keyed(G, M)
  <2>1. ASSUME NEW i \in DOMAIN t.improvement_groups
        PROVE  Keyed(g[i], Keys({t.improvement_groups[i].id}, {"group.effect"},
                                {"improvement group"}))
    <3>1. WellRead("improvement_groups", t.improvement_groups[i])
      BY <1>1 DEF IsTable, ToSet
    <3>2. AreCodes(t.improvement_groups[i].groupEffect)
      BY <3>1 DEF WellRead
    <3> QED BY <3>2, EffectsOfGroupAreKeyed
  <2>2. g = [i \in DOMAIN t.improvement_groups |-> g[i]]
    OBVIOUS
  <2> HIDE DEF g
  <2> QED BY <1>2, <2>1, <2>2, KeyedOfTable
<1>7. Keyed(H, N)
  <2>1. ASSUME NEW i \in DOMAIN t.job_groups
        PROVE  Keyed(h[i], Keys({t.job_groups[i].id}, {"group.effect"}, {"job group"}))
    <3>1. WellRead("job_groups", t.job_groups[i])
      BY <1>1 DEF IsTable, ToSet
    <3>2. AreCodes(t.job_groups[i].groupEffect)
      BY <3>1 DEF WellRead
    <3> QED BY <3>2, EffectsOfGroupAreKeyed
  <2>2. h = [i \in DOMAIN t.job_groups |-> h[i]]
    OBVIOUS
  <2> HIDE DEF h
  <2> QED BY <1>2, <2>1, <2>2, KeyedOfTable
<1>8. /\ I \cap J = {} /\ I \cap M = {} /\ I \cap N = {}
      /\ J \cap M = {} /\ J \cap N = {} /\ M \cap N = {}
  BY DEF Keys, ImprovementTypes
<1>9. E \cap I = {} /\ E \cap J = {} /\ E \cap M = {} /\ E \cap N = {}
  <2>1. \A x, y, z : <<x>> # <<y, z>>
    OBVIOUS
  <2>2. ASSUME NEW ids, NEW names, NEW types PROVE E \cap Keys(ids, names, types) = {}
    BY <2>1 DEF Keys
  <2> HIDE DEF E
  <2> QED BY <2>2
<1>10. /\ \A key \in E : key[1][1] \in IdsOf(t.effects)
       /\ \A key \in I : key[1][1] \in IdsOf(t.improvements)
       /\ \A key \in J : key[1][1] \in IdsOf(t.jobs)
       /\ \A key \in M : key[1][1] \in IdsOf(t.improvement_groups)
       /\ \A key \in N : key[1][1] \in IdsOf(t.job_groups)
  <2>1. \A key \in E : key[1][1] \in IdsOf(t.effects)
    OBVIOUS
  <2>2. ASSUME NEW ids, NEW names, NEW types, NEW key \in Keys(ids, names, types)
        PROVE  key[1][1] \in ids
    BY DEF Keys
  <2> HIDE DEF E
  <2> QED BY <2>1, <2>2
<1>11. EffectsOf(t) = <<>> \o given \o P \o Q \o G \o H
  BY DEF EffectsOf
<1> HIDE DEF given, P, Q, G, H, E, I, J, M, N
<1>12. Keyed(<<>> \o given, {} \cup E)
  BY <1>3, NothingIsKeyed, KeyedTogether
<1>13. Keyed(<<>> \o given \o P, {} \cup E \cup I)
  BY <1>4, <1>9, <1>12, KeyedTogether
<1>14. Keyed(<<>> \o given \o P \o Q, {} \cup E \cup I \cup J)
  BY <1>5, <1>8, <1>9, <1>13, KeyedTogether
<1>15. Keyed(<<>> \o given \o P \o Q \o G, {} \cup E \cup I \cup J \cup M)
  BY <1>6, <1>8, <1>9, <1>14, KeyedTogether
<1>16. Keyed(EffectsOf(t), {} \cup E \cup I \cup J \cup M \cup N)
  <2>1. ({} \cup E \cup I \cup J \cup M) \cap N = {}
    BY <1>8, <1>9
  <2> QED BY <1>7, <1>11, <1>15, <2>1, KeyedTogether
<1>17. \A key \in {} \cup E \cup I \cup J \cup M \cup N :
          \E table \in Origins : key[1][1] \in IdsOf(t[table])
  BY <1>10 DEF Origins
<1>18. \A effect \in ToSet(EffectsOf(t)) :
          \E table \in Origins : effect.id[1] \in IdsOf(t[table])
  BY <1>16, <1>17 DEF Keyed
<1> QED BY <1>16, <1>18 DEF Keyed

\* Whatever was loaded or restored before, a ruleset derives all it has from the tables it
\* has now (DerivedFromTables): Clear leaves nothing, of any ruleset.
THEOREM AlwaysDerivedFromTables == RuleSetSpec => []DerivedFromTables
<1>1. ASSUME NEW r, IsMade(r) PROVE EffectsAreOf(r)
  <2>1. /\ r.success => r.effectDefinitions = EffectsOf(r.tables)
        /\ ~r.success => r.effectDefinitions = <<>>
    <3>1. PICK c : /\ r = Finished(c) /\ IsRuleSet(c) /\ c.tables = r.tables
                   /\ c.definitions = EmptyTables /\ c.effectDefinitions = <<>>
                   /\ Len(c.tables.variables) \in Nat
      BY <1>1, MadeOfClasses
    <3> QED BY <3>1, FinishedIs
  <2>2. /\ Differ(EffectsOf(r.tables))
        /\ \A effect \in ToSet(EffectsOf(r.tables)) :
              \E table \in Origins : effect.id[1] \in IdsOf(r.tables[table])
    BY <1>1, EffectsAreKeyed DEF IsMade
  <2>3. Differ(<<>>)
    BY DEF Differ
  <2> QED BY <2>1, <2>2, <2>3, NothingInEmpty DEF EffectsAreOf
<1>2. RuleSetInv => DerivedFromTables
  <2>1. CASE RuleSetInv /\ roots # <<>>
    <3>1. IsMade(ruleset)
      BY <2>1 DEF RuleSetInv
    <3> QED BY <1>1, <3>1, MadeIsDerived DEF DerivedFromTables
  <2>2. CASE RuleSetInv /\ roots = <<>>
    <3>1. ruleset = EmptyRuleSet
      BY <2>2 DEF RuleSetInv
    <3> QED BY <3>1, NothingIsDerived DEF DerivedFromTables
  <2> QED BY <2>1, <2>2
<1> QED BY <1>2, RuleSetInvAlways, PTL

-----------------------------------------------------------------------------
(* The scanner of the code of effects.                                     *)

Texts == Signs \cup {LuaName(i) : i \in Nat}

\* The arguments a source may ask for.
Asked(source) ==
    {Unquoted(TrimAsciiWhitespace(SubSeq(source, i, j))) : i \in Int, j \in Int}

States(source) ==
    [pos : 1 .. Len(source) + 1, valid : BOOLEAN, code : Seq(Texts), names : Seq(Texts),
     dependencies : Seq(Asked(source)), next : Nat]

\* The first place of a sign is the first one.
LEMMA FirstFromIs ==
  ASSUME NEW S, NEW source \in Seq(S), NEW pos \in Nat, NEW sign
  PROVE  LET first == FirstFrom(source, pos, sign)
         IN  /\ first \in Nat /\ first <= Len(source) + 1
             /\ first # Len(source) + 1 => first \in pos .. Len(source) /\ source[first] = sign
             /\ \A i \in pos .. Len(source) : i < first => source[i] # sign
<1> DEFINE N == Len(source)
           at == {i \in pos .. N : source[i] = sign}
           first == FirstFrom(source, pos, sign)
<1>1. N \in Nat
  OBVIOUS
<1>2. first = IF at = {} THEN N + 1 ELSE Min(at)
  BY DEF FirstFrom
<1> HIDE DEF N, first
<1>3. CASE at = {}
  BY <1>1, <1>2, <1>3 DEF N, first
<1>4. CASE at # {}
  <2>1. at \subseteq 0 .. N
    BY <1>1
  <2>2. at \subseteq pos .. N /\ \A i \in pos .. N : source[i] = sign <=> i \in at
    OBVIOUS
  <2>3. \A i \in at : source[i] = sign
    OBVIOUS
  <2> HIDE DEF at
  <2>4. Min(at) \in at /\ \A i \in at : Min(at) <= i
    BY <1>1, <1>4, <2>1, MaxIsGreatest
  <2> DEFINE m == Min(at)
  <2>5. m \in at /\ (\A i \in at : m <= i) /\ first = m
    BY <1>2, <1>4, <2>4
  <2> HIDE DEF m
  <2>6. m \in pos .. N /\ m \in Nat /\ source[m] = sign
    BY <1>1, <2>2, <2>3, <2>5
  <2>7. \A i \in pos .. N : i < m => source[i] # sign
    <3> SUFFICES ASSUME NEW i \in pos .. N, i < m, source[i] = sign PROVE FALSE
      OBVIOUS
    <3>1. m <= i
      BY <2>2, <2>5
    <3> QED BY <1>1, <2>6, <3>1
  <2> QED BY <1>1, <2>5, <2>6, <2>7 DEF N, first
<1> QED BY <1>3, <1>4

\* A step over text copies it.
LEMMA CopyIs ==
  ASSUME NEW source \in Seq(Signs), NEW s \in States(source), NEW end \in s.pos .. Len(source) + 1
  PROVE  /\ CopyTo(source, s, end) =
                [pos |-> end, valid |-> s.valid,
                 code |-> s.code \o SubSeq(source, s.pos, end - 1),
                 names |-> s.names, dependencies |-> s.dependencies, next |-> s.next]
         /\ CopyTo(source, s, end) \in States(source)
<1> DEFINE piece == SubSeq(source, s.pos, end - 1)
           t == CopyTo(source, s, end)
<1>1. /\ Len(source) \in Nat /\ s.pos \in 1 .. Len(source) + 1 /\ end \in 1 .. Len(source) + 1
      /\ s.valid \in BOOLEAN /\ s.code \in Seq(Texts) /\ s.names \in Seq(Texts)
      /\ s.dependencies \in Seq(Asked(source)) /\ s.next \in Nat
  BY DEF States
<1>2. piece \in Seq(Texts)
  <2>1. \A i \in s.pos .. end - 1 : source[i] \in Texts
    BY <1>1 DEF Texts
  <2> QED BY <1>1, <2>1, SubSeqProperties
<1>3. t = [s EXCEPT !.code = s.code \o piece, !.pos = end]
  BY DEF CopyTo
<1> HIDE DEF piece, t
<1>4. s.code \o piece \in Seq(Texts)
  BY <1>1, <1>2
<1>5. t = [pos |-> end, valid |-> s.valid, code |-> s.code \o piece,
           names |-> s.names, dependencies |-> s.dependencies, next |-> s.next]
  BY <1>3 DEF States
<1>6. t \in States(source)
  BY <1>1, <1>4, <1>5 DEF States
<1> QED BY <1>5, <1>6 DEF piece, t

\* What a step over a reference makes.
LEMMA ReferenceIs ==
  ASSUME NEW source \in Seq(Signs), NEW s \in States(source), s.pos <= Len(source)
  PROVE  LET t == ReplaceReference(source, s)
             close == FirstFrom(source, s.pos + 1, ")")
         IN  /\ t \in States(source)
             /\ \/ ~t.valid /\ t.names = s.names /\ t.next = s.next
                \/ /\ close \in s.pos + 1 .. Len(source)
                   /\ t.pos = close + 1 /\ t.valid = s.valid
                   /\ t.code = Append(s.code, LuaName(s.next))
                   /\ t.names = Append(s.names, LuaName(s.next))
                   /\ t.next = s.next + 1
<1> DEFINE close == FirstFrom(source, s.pos + 1, ")")
           argument == Unquoted(TrimAsciiWhitespace(SubSeq(source, s.pos + 1, close - 1)))
           t == ReplaceReference(source, s)
<1>1. /\ Len(source) \in Nat /\ s.pos \in 1 .. Len(source)
      /\ s.valid \in BOOLEAN /\ s.code \in Seq(Texts) /\ s.names \in Seq(Texts)
      /\ s.dependencies \in Seq(Asked(source)) /\ s.next \in Nat
  BY DEF States
<1>2. /\ close \in Nat /\ close <= Len(source) + 1
      /\ close # Len(source) + 1 => close \in s.pos + 1 .. Len(source)
  BY <1>1, FirstFromIs
<1> HIDE DEF close
<1>3. argument \in Asked(source)
  <2> DEFINE i == s.pos + 1
             j == close - 1
  <2>1. i \in Int /\ j \in Int
    BY <1>1, <1>2
  <2>2. argument = Unquoted(TrimAsciiWhitespace(SubSeq(source, i, j)))
    OBVIOUS
  <2> HIDE DEF i, j, argument
  <2> QED BY <2>1, <2>2 DEF Asked
<1>4. \/ t = [s EXCEPT !.valid = FALSE]
      \/ /\ ~(close > Len(source))
         /\ t = [s EXCEPT !.code = Append(s.code, LuaName(s.next)),
                          !.names = Append(s.names, LuaName(s.next)),
                          !.dependencies = Append(s.dependencies, argument),
                          !.next = s.next + 1, !.pos = close + 1]
  BY DEF ReplaceReference, close
<1> HIDE DEF argument, t
<1>5. CASE t = [s EXCEPT !.valid = FALSE]
  <2>1. t \in States(source) /\ ~t.valid /\ t.names = s.names /\ t.next = s.next
    BY <1>1, <1>5 DEF States
  <2> QED BY <2>1 DEF t
<1>6. CASE /\ ~(close > Len(source))
           /\ t = [s EXCEPT !.code = Append(s.code, LuaName(s.next)),
                            !.names = Append(s.names, LuaName(s.next)),
                            !.dependencies = Append(s.dependencies, argument),
                            !.next = s.next + 1, !.pos = close + 1]
  <2>1. close \in s.pos + 1 .. Len(source)
    BY <1>1, <1>2, <1>6
  <2>2. LuaName(s.next) \in Texts
    BY <1>1 DEF Texts
  <2>3. /\ Append(s.code, LuaName(s.next)) \in Seq(Texts)
        /\ Append(s.names, LuaName(s.next)) \in Seq(Texts)
        /\ Append(s.dependencies, argument) \in Seq(Asked(source))
    BY <1>1, <1>3, <2>2
  <2> DEFINE code == Append(s.code, LuaName(s.next))
             names == Append(s.names, LuaName(s.next))
             dependencies == Append(s.dependencies, argument)
  <2> HIDE DEF code, names, dependencies
  <2>4. t = [s EXCEPT !.code = code, !.names = names, !.dependencies = dependencies,
                      !.next = s.next + 1, !.pos = close + 1]
    BY <1>6 DEF code, names, dependencies
  <2>5. t = [pos |-> close + 1, valid |-> s.valid, code |-> code, names |-> names,
             dependencies |-> dependencies, next |-> s.next + 1]
    BY <2>4 DEF States
  <2>6. /\ t.pos = close + 1 /\ t.valid = s.valid /\ t.code = code /\ t.names = names
        /\ t.next = s.next + 1
    BY <2>5
  <2>7. /\ close + 1 \in 1 .. Len(source) + 1 /\ s.next + 1 \in Nat
        /\ code \in Seq(Texts) /\ names \in Seq(Texts) /\ dependencies \in Seq(Asked(source))
    BY <1>1, <2>1, <2>3 DEF code, names, dependencies
  <2>8. t \in States(source)
    BY <1>1, <2>5, <2>7 DEF States
  <2> QED BY <2>1, <2>6, <2>8 DEF t, close, code, names
<1> QED BY <1>4, <1>5, <1>6

\* Where the scanner goes from a sign that begins no reference.
TextEnd(source, pos) ==
    IF source[pos] = Comment
    THEN IF pos < Len(source) /\ source[pos + 1] = "[[" THEN FindBlockCommentEnd(source, pos)
         ELSE FindLineCommentEnd(source, pos)
    ELSE IF source[pos] \in Quotes THEN FindStringEnd(source, pos + 1, source[pos])
    ELSE pos + 1

\* A block comment ends behind its mark, or with the source.
LEMMA BlockEndIs ==
  ASSUME NEW source \in Seq(Signs), NEW pos \in 1 .. Len(source), pos < Len(source)
  PROVE  LET first == FirstFrom(source, pos + 2, "]]")
             end == FindBlockCommentEnd(source, pos)
         IN  /\ \/ first = Len(source) + 1 /\ end = Len(source) + 1
                \/ first \in pos + 2 .. Len(source) /\ end = first + 1
             /\ end \in pos + 1 .. Len(source) + 1
<1> DEFINE N == Len(source)
           first == FirstFrom(source, pos + 2, "]]")
           W == {first, N}
           end == FindBlockCommentEnd(source, pos)
<1>1. N \in Nat /\ pos \in Nat /\ pos + 2 \in Nat
  OBVIOUS
<1>2. /\ first \in Nat /\ first <= N + 1
      /\ first # N + 1 => first \in pos + 2 .. N
  BY <1>1, FirstFromIs
<1>3. end = Min(W) + 1
  BY DEF FindBlockCommentEnd
<1> HIDE DEF first, end
<1>4. Min(W) \in W /\ \A i \in W : Min(W) <= i
  <2>1. W \subseteq 0 .. N + 1 /\ W # {} /\ N + 1 \in Nat
    BY <1>1, <1>2
  <2> HIDE DEF W
  <2> QED BY <2>1, MaxIsGreatest
<1>5. Min(W) = IF first = N + 1 THEN N ELSE first
  <2> DEFINE m == Min(W)
  <2>1. (m = first \/ m = N) /\ m <= first /\ m <= N
    BY <1>4
  <2> HIDE DEF m
  <2>2. m = IF first = N + 1 THEN N ELSE first
    BY <1>1, <1>2, <2>1
  <2> QED BY <2>2 DEF m
<1> QED BY <1>1, <1>2, <1>3, <1>5 DEF first, end

\* The scanner takes a sign at least.
LEMMA TextEndIs ==
  ASSUME NEW source \in Seq(Signs), NEW pos \in 1 .. Len(source)
  PROVE  TextEnd(source, pos) \in pos + 1 .. Len(source) + 1
<1> DEFINE N == Len(source)
<1>1. N \in Nat /\ pos \in Nat /\ pos <= N
  OBVIOUS
<1>2. CASE source[pos] = Comment /\ pos < N /\ source[pos + 1] = "[["
  BY <1>2, BlockEndIs DEF TextEnd
<1>3. CASE source[pos] = Comment /\ ~(pos < N /\ source[pos + 1] = "[[")
  <2> DEFINE first == FirstFrom(source, pos, "\n")
  <2>1. /\ first \in Nat /\ first <= N + 1
        /\ first # N + 1 => first \in pos .. N /\ source[first] = "\n"
    BY <1>1, FirstFromIs
  <2>2. TextEnd(source, pos) = first
    BY <1>3 DEF TextEnd, FindLineCommentEnd
  <2> HIDE DEF first
  <2>3. first # pos
    BY <1>1, <1>3, <2>1 DEF Comment
  <2> QED BY <1>1, <2>1, <2>2, <2>3
<1>4. CASE source[pos] # Comment /\ source[pos] \in Quotes
  <2> DEFINE escaped == Escaped(source, pos + 1)
             quote == source[pos]
             ends == {n \in pos + 1 .. N : source[n] = quote /\ ~escaped[n]}
  <2>1. TextEnd(source, pos) = IF ends = {} THEN N + 1 ELSE Min(ends) + 1
    BY <1>4 DEF TextEnd, FindStringEnd
  <2>2. ends \subseteq pos + 1 .. N
    OBVIOUS
  <2> HIDE DEF ends
  <2>3. CASE ends = {}
    BY <1>1, <2>1, <2>3
  <2>4. CASE ends # {}
    <3>1. ends \subseteq 0 .. N
      BY <1>1, <2>2
    <3>2. Min(ends) \in ends
      BY <1>1, <2>4, <3>1, MaxIsGreatest
    <3> DEFINE m == Min(ends)
    <3>3. m \in pos + 1 .. N /\ TextEnd(source, pos) = m + 1
      BY <2>1, <2>2, <2>4, <3>2
    <3> HIDE DEF m
    <3> QED BY <1>1, <3>3
  <2> QED BY <2>3, <2>4
<1>5. CASE source[pos] # Comment /\ source[pos] \notin Quotes
  BY <1>1, <1>5 DEF TextEnd
<1> QED BY <1>2, <1>3, <1>4, <1>5

\* A turn of the loop.
LEMMA ScanIs ==
  ASSUME NEW source \in Seq(Signs), NEW s \in States(source)
  PROVE  LET t == Scan(source, s)
             copied == CopyTo(source, s, TextEnd(source, s.pos))
         IN  /\ t \in States(source)
             /\ s.pos = Len(source) + 1 \/ ~s.valid => t = s
             /\ s.pos \in 1 .. Len(source) /\ s.valid =>
                   IF source[s.pos] = "VAR(" THEN t = ReplaceReference(source, s) ELSE t = copied
             /\ s.pos = Len(source) + 1 \/ s.pos \in 1 .. Len(source)
<1> DEFINE N == Len(source)
           t == Scan(source, s)
           end == TextEnd(source, s.pos)
           copied == CopyTo(source, s, end)
<1>1. N \in Nat /\ s.pos \in 1 .. N + 1 /\ (s.pos > N <=> s.pos = N + 1)
  BY DEF States
<1>2. CASE s.pos = N + 1 \/ ~s.valid
  <2>1. t = s
    BY <1>1, <1>2 DEF Scan
  <2> QED BY <1>1, <1>2, <2>1
<1>3. CASE s.pos \in 1 .. N /\ s.valid
  <2>1. ~(s.pos > N \/ ~s.valid) /\ s.pos # N + 1
    BY <1>1, <1>3
  <2>2. CASE source[s.pos] = "VAR("
    <3>1. t = ReplaceReference(source, s)
      BY <2>1, <2>2 DEF Scan, Comment, Quotes
    <3>2. ReplaceReference(source, s) \in States(source)
      BY <1>3, ReferenceIs
    <3> QED BY <1>1, <2>1, <2>2, <3>1, <3>2
  <2>3. CASE source[s.pos] # "VAR("
    <3>1. t = copied
      <4>1. CASE source[s.pos] = Comment
        BY <2>1, <4>1 DEF Scan, TextEnd
      <4>2. CASE source[s.pos] # Comment /\ source[s.pos] \in Quotes
        BY <2>1, <4>2 DEF Scan, TextEnd
      <4>3. CASE source[s.pos] # Comment /\ source[s.pos] \notin Quotes
        BY <2>1, <2>3, <4>3 DEF Scan, TextEnd
      <4> QED BY <4>1, <4>2, <4>3
    <3>2. end \in s.pos .. N + 1
      <4>1. end \in s.pos + 1 .. N + 1
        BY <1>3, TextEndIs
      <4> QED BY <1>1, <4>1
    <3>3. copied \in States(source)
      BY <3>2, CopyIs
    <3> QED BY <1>1, <2>1, <2>3, <3>1, <3>3
  <2> QED BY <2>2, <2>3
<1> QED BY <1>1, <1>2, <1>3

\* The turns of the loop one after the other.
LEMMA ScannedIs ==
  ASSUME NEW source \in Seq(Signs), NEW next \in Nat
  PROVE  \E f \in [0 .. Len(source) -> States(source)] :
            /\ f[0] = Begun(next)
            /\ \A n \in 1 .. Len(source) : f[n] = Scan(source, f[n - 1])
            /\ Scanned(source, next) = f[Len(source)]
<1> DEFINE L == Len(source)
           D == States(source)
           Solves(g) == g = [n \in 0 .. L |->
               IF n = 0 THEN Begun(next) ELSE Scan(source, g[n - 1])]
           scanned == CHOOSE g : Solves(g)
           step == [x \in (1 .. L) \X D |-> Scan(source, x[2])]
<1>1. L \in Nat /\ \A n \in 1 .. L : n \in 0 .. L /\ n - 1 \in 0 .. L /\ n # 0
  OBVIOUS
<1>2. Scanned(source, next) = scanned[L]
  BY DEF Scanned
<1>3. \A n \in 1 .. L, s \in D : step[<<n, s>>] = Scan(source, s)
  OBVIOUS
<1>4. \A s \in D : Scan(source, s) \in D
  BY ScanIs
<1>5. Begun(next) \in D
  <2>1. 1 \in 1 .. L + 1
    BY <1>1
  <2> QED BY <2>1 DEF Begun, States
<1> HIDE DEF L, D, step
<1>6. Stays(D, Begun(next), L, step)
  BY <1>1, <1>3, <1>4, <1>5 DEF Stays
<1>7. PICK f : Computes(f, D, Begun(next), L, step)
  BY <1>6, RecursionExists
<1>8. /\ f \in [0 .. L -> D] /\ f[0] = Begun(next)
      /\ \A n \in 1 .. L : f[n] = Scan(source, f[n - 1])
  BY <1>1, <1>3, <1>7 DEF Computes
<1>9. Solves(f)
  <2>1. \A n \in 0 .. L : n = 0 \/ n \in 1 .. L
    BY <1>1
  <2>2. \A n \in 0 .. L : f[n] = IF n = 0 THEN Begun(next) ELSE Scan(source, f[n - 1])
    BY <1>1, <1>8, <2>1
  <2> QED BY <1>8, <2>2
<1>10. Solves(scanned)
  <2> HIDE DEF Solves
  <2> QED BY <1>9
<1> HIDE DEF scanned
<1>11. /\ scanned[0] = Begun(next)
       /\ \A n \in 1 .. L : scanned[n] = Scan(source, scanned[n - 1])
  <2>1. 0 \in 0 .. L
    BY <1>1
  <2> QED BY <1>1, <1>10, <2>1
<1> HIDE DEF Solves
<1> DEFINE H == {n \in 0 .. L : scanned[n] = f[n]}
<1>12. 0 .. L \subseteq H
  <2>1. 0 \in H
    BY <1>1, <1>8, <1>11
  <2>2. ASSUME NEW n \in 1 .. L, n - 1 \in H PROVE n \in H
    BY <1>1, <1>8, <1>11, <2>2
  <2> HIDE DEF H
  <2> QED BY <1>1, <2>1, <2>2, BoundedInduction
<1>13. scanned[L] = f[L]
  BY <1>1, <1>12
<1> QED BY <1>2, <1>8, <1>13 DEF L, D

\* The names of a piece of code are those of the indices it takes.
Named(next, s) ==
    /\ next <= s.next
    /\ Len(s.names) = s.next - next
    /\ \A k \in 1 .. Len(s.names) : s.names[k] = LuaName(next + k - 1)

\* A turn of the loop gives the next name to a reference, if it meets one.
LEMMA ScanNames ==
  ASSUME NEW source \in Seq(Signs), NEW s \in States(source), NEW next \in Nat, Named(next, s)
  PROVE  Named(next, Scan(source, s))
<1> DEFINE t == Scan(source, s)
           L == Len(s.names)
<1>1. /\ s.names \in Seq(Texts) /\ s.next \in Nat /\ L \in Nat
      /\ s.pos \in 1 .. Len(source) + 1 /\ s.valid \in BOOLEAN
  BY DEF States
<1>2. /\ next <= s.next /\ L = s.next - next
      /\ \A k \in 1 .. L : s.names[k] = LuaName(next + k - 1)
  BY DEF Named
<1>3. CASE t.names = s.names /\ t.next = s.next
  BY <1>2, <1>3 DEF Named
<1>4. CASE t.names = Append(s.names, LuaName(s.next)) /\ t.next = s.next + 1
  <2>1. /\ Len(t.names) = L + 1 /\ t.names[L + 1] = LuaName(s.next)
        /\ \A k \in 1 .. L : t.names[k] = s.names[k]
    <3>1. LuaName(s.next) \in Texts
      BY <1>1 DEF Texts
    <3> QED BY <1>1, <1>4, <3>1
  <2> HIDE DEF t, L
  <2>2. \A k \in 1 .. L + 1 : k \in 1 .. L \/ (k = L + 1 /\ next + k - 1 = s.next)
    <3>1. next + (L + 1) - 1 = s.next
      BY <1>1, <1>2
    <3> QED BY <1>1, <3>1
  <2>3. \A k \in 1 .. L + 1 : t.names[k] = LuaName(next + k - 1)
    BY <1>2, <2>1, <2>2
  <2>4. next <= t.next /\ L + 1 = t.next - next
    BY <1>1, <1>2, <1>4
  <2> QED BY <2>1, <2>3, <2>4 DEF Named, t
<1>5. \/ t.names = s.names /\ t.next = s.next
      \/ t.names = Append(s.names, LuaName(s.next)) /\ t.next = s.next + 1
  <2>1. CASE s.pos = Len(source) + 1 \/ ~s.valid
    BY <2>1, ScanIs
  <2>2. CASE s.pos \in 1 .. Len(source) /\ s.valid /\ source[s.pos] = "VAR("
    <3>1. t = ReplaceReference(source, s) /\ s.pos <= Len(source)
      BY <2>2, ScanIs
    <3> HIDE DEF t
    <3> QED BY <3>1, ReferenceIs
  <2>3. CASE s.pos \in 1 .. Len(source) /\ s.valid /\ source[s.pos] # "VAR("
    <3>1. t = CopyTo(source, s, TextEnd(source, s.pos))
      BY <2>3, ScanIs
    <3>2. TextEnd(source, s.pos) \in s.pos .. Len(source) + 1
      BY <2>3, TextEndIs
    <3> HIDE DEF t
    <3> QED BY <3>1, <3>2, CopyIs
  <2> QED BY <1>1, <2>1, <2>2, <2>3, ScanIs
<1> QED BY <1>3, <1>4, <1>5

\* After so many turns the scanner is so far, is through or has refused; where nothing is
\* to replace it refuses nothing.
Far(source, n, s) ==
    /\ ~s.valid \/ s.pos = Len(source) + 1 \/ s.pos >= n + 1
    /\ (\A i \in 1 .. Len(source) : source[i] # "VAR(") => s.valid

\* A turn takes a sign at least, and refuses nothing but references.
LEMMA ScanGoesOn ==
  ASSUME NEW source \in Seq(Signs), NEW s \in States(source), NEW n \in Nat \ {0},
         Far(source, n - 1, s)
  PROVE  Far(source, n, Scan(source, s))
<1> DEFINE t == Scan(source, s)
           N == Len(source)
<1>1. /\ s.pos \in 1 .. N + 1 /\ s.valid \in BOOLEAN /\ N \in Nat
      /\ t.pos \in 1 .. N + 1 /\ t.valid \in BOOLEAN
  <2>1. t \in States(source)
    BY ScanIs
  <2> HIDE DEF t
  <2> QED BY <2>1 DEF States
<1>2. CASE s.pos = N + 1 \/ ~s.valid
  <2>1. t = s
    BY <1>2, ScanIs
  <2> HIDE DEF t
  <2> QED BY <1>2, <2>1 DEF Far, t
<1>3. CASE s.pos \in 1 .. N /\ s.valid /\ source[s.pos] = "VAR("
  <2>1. t = ReplaceReference(source, s) /\ s.pos <= N
    BY <1>3, ScanIs
  <2>2. ~t.valid \/ t.pos >= s.pos + 1
    <3>1. \/ ~t.valid
          \/ /\ FirstFrom(source, s.pos + 1, ")") \in s.pos + 1 .. N
             /\ t.pos = FirstFrom(source, s.pos + 1, ")") + 1
      BY <2>1, ReferenceIs
    <3> QED BY <1>1, <3>1
  <2> HIDE DEF t
  <2>3. ~t.valid \/ t.pos >= n + 1
    BY <1>1, <1>3, <2>2 DEF Far
  <2> QED BY <1>3, <2>3 DEF Far, t
<1>4. CASE s.pos \in 1 .. N /\ s.valid /\ source[s.pos] # "VAR("
  <2>1. t = CopyTo(source, s, TextEnd(source, s.pos))
    BY <1>4, ScanIs
  <2>2. TextEnd(source, s.pos) \in s.pos + 1 .. N + 1
    BY <1>4, TextEndIs
  <2>3. TextEnd(source, s.pos) \in s.pos .. N + 1
    BY <1>1, <2>2
  <2>4. t.valid = s.valid /\ t.pos = TextEnd(source, s.pos)
    <3> HIDE DEF t
    <3> QED BY <2>1, <2>3, CopyIs
  <2> HIDE DEF t
  <2>5. t.pos >= n + 1
    BY <1>1, <1>4, <2>2, <2>4 DEF Far
  <2> QED BY <1>4, <2>4, <2>5 DEF Far, t
<1> QED BY <1>1, <1>2, <1>3, <1>4, ScanIs

\* What the loop ends with.
LEMMA ScannedFacts ==
  ASSUME NEW source \in Seq(Signs), NEW next \in Nat
  PROVE  LET s == Scanned(source, next)
         IN  /\ s \in States(source) /\ Named(next, s)
             /\ s.valid => s.pos = Len(source) + 1
             /\ (\A i \in 1 .. Len(source) : source[i] # "VAR(") => s.valid
<1> DEFINE N == Len(source)
<1>1. N \in Nat
  OBVIOUS
<1>2. PICK f \in [0 .. N -> States(source)] :
          /\ f[0] = Begun(next) /\ Scanned(source, next) = f[N]
          /\ \A n \in 1 .. N : f[n] = Scan(source, f[n - 1])
  BY ScannedIs
<1> HIDE DEF N
<1> DEFINE G == {n \in 0 .. N : Named(next, f[n]) /\ Far(source, n, f[n])}
<1>3. 0 \in G
  <2>1. Named(next, Begun(next))
    BY DEF Named, Begun
  <2>2. Far(source, 0, Begun(next))
    BY DEF Far, Begun
  <2> QED BY <1>1, <1>2, <2>1, <2>2
<1>4. ASSUME NEW n \in 1 .. N, n - 1 \in G PROVE n \in G
  <2>1. n \in 0 .. N /\ n - 1 \in 0 .. N /\ n \in Nat \ {0}
    BY <1>1
  <2>2. f[n - 1] \in States(source) /\ f[n] = Scan(source, f[n - 1])
    BY <1>2, <2>1
  <2>3. Named(next, f[n]) /\ Far(source, n, f[n])
    BY <1>4, <2>1, <2>2, ScanNames, ScanGoesOn
  <2> QED BY <2>1, <2>3
<1> HIDE DEF G
<1>5. N \in 0 .. N /\ N \in G
  <2>1. 0 .. N \subseteq G
    BY <1>1, <1>3, <1>4, BoundedInduction
  <2> QED BY <1>1, <2>1
<1> DEFINE s == f[N]
<1>6. s \in States(source) /\ Named(next, s) /\ Far(source, N, s)
  BY <1>2, <1>5 DEF G
<1> HIDE DEF s
<1>7. s.pos \in 1 .. N + 1
  BY <1>6 DEF States, N
<1>8. /\ ~s.valid \/ s.pos = N + 1
      /\ (\A i \in 1 .. N : source[i] # "VAR(") => s.valid
  BY <1>1, <1>6, <1>7 DEF Far, N
<1> QED BY <1>2, <1>6, <1>8 DEF N, s

\* A piece of code that is prepared.
LEMMA PreparedIs ==
  ASSUME NEW code, IsCode(code), NEW next \in Nat
  PROVE  LET p == PreprocessCode(code, next)
             s == Scanned(code.lua, next)
         IN  /\ p.names = s.names /\ p.next = s.next /\ p.code = s.code
             /\ p.valid <=> /\ s.valid
                            /\ \A dependency \in ToSet(code.dependencies) : IsQuery(dependency)
             /\ p.valid \in BOOLEAN
             /\ p.dependencies = s.dependencies \o code.dependencies
             /\ p.names \in Seq(Texts) /\ p.next \in Nat /\ Named(next, p)
<1> DEFINE s == Scanned(code.lua, next)
           well == s.valid /\ \A dependency \in ToSet(code.dependencies) : IsQuery(dependency)
           all == s.dependencies \o code.dependencies
           p == PreprocessCode(code, next)
<1>1. p = [s EXCEPT !.valid = well, !.dependencies = all]
  BY DEF PreprocessCode
<1>2. s \in States(code.lua) /\ Named(next, s)
  BY ScannedFacts DEF IsCode
<1>3. well \in BOOLEAN
  BY <1>2 DEF States
<1> HIDE DEF p, s, well, all
<1>4. /\ p.names = s.names /\ p.next = s.next /\ p.code = s.code /\ p.valid = well
      /\ p.dependencies = all
      /\ s.names \in Seq(Texts) /\ s.next \in Nat
  BY <1>1, <1>2 DEF States
<1>5. Named(next, p)
  BY <1>2, <1>4 DEF Named
<1> QED BY <1>3, <1>4, <1>5 DEF p, s, well, all

\* The names have their indices.
NamesDiffer == \A i, j \in Nat : LuaName(i) = LuaName(j) => i = j

\* Two pieces of code that share their indices share no name.
LEMMA NamesOfPieces ==
  ASSUME NamesDiffer, NEW p, NEW q, NEW next \in Nat,
         p.names \in Seq(Texts), q.names \in Seq(Texts), p.next \in Nat, q.next \in Nat,
         Named(0, p), Named(p.next, q)
  PROVE  /\ IsInjective(p.names \o q.names)
         /\ IsInjective(p.names) /\ IsInjective(q.names) /\ IsInjective(<<>> \o <<>>)
         /\ p.names \o <<>> = p.names /\ <<>> \o q.names = q.names
<1> DEFINE P == Len(p.names)
           Q == Len(q.names)
<1>1. /\ P \in Nat /\ Q \in Nat /\ DOMAIN p.names = 1 .. P /\ DOMAIN q.names = 1 .. Q
      /\ p.names \o <<>> = p.names /\ <<>> \o q.names = q.names
  OBVIOUS
<1>2. /\ P = p.next
      /\ \A k \in 1 .. P : p.names[k] = LuaName(k - 1)
      /\ \A k \in 1 .. Q : q.names[k] = LuaName(p.next + k - 1)
  BY DEF Named
<1> HIDE DEF P, Q
<1>3. /\ \A k \in 1 .. P : k - 1 \in Nat
      /\ \A k \in 1 .. Q : p.next + k - 1 \in Nat
  BY <1>1
<1>4. IsInjective(p.names)
  <2> SUFFICES ASSUME NEW i \in 1 .. P, NEW j \in 1 .. P, p.names[i] = p.names[j] PROVE i = j
    BY <1>1 DEF IsInjective
  <2>1. LuaName(i - 1) = LuaName(j - 1)
    BY <1>2
  <2>2. i - 1 = j - 1
    BY <1>3, <2>1 DEF NamesDiffer
  <2> QED BY <1>1, <2>2
<1>5. IsInjective(q.names)
  <2> SUFFICES ASSUME NEW i \in 1 .. Q, NEW j \in 1 .. Q, q.names[i] = q.names[j] PROVE i = j
    BY <1>1 DEF IsInjective
  <2>1. LuaName(p.next + i - 1) = LuaName(p.next + j - 1)
    BY <1>2
  <2>2. p.next + i - 1 = p.next + j - 1
    BY <1>3, <2>1 DEF NamesDiffer
  <2> QED BY <1>1, <2>2
<1>6. Range(p.names) \cap Range(q.names) = {}
  <2> SUFFICES ASSUME NEW i \in 1 .. P, NEW j \in 1 .. Q, p.names[i] = q.names[j] PROVE FALSE
    BY <1>1 DEF Range
  <2>1. LuaName(i - 1) = LuaName(p.next + j - 1)
    BY <1>2
  <2>2. i - 1 = p.next + j - 1
    BY <1>3, <2>1 DEF NamesDiffer
  <2> QED BY <1>1, <1>2, <2>2
<1>7. IsInjective(p.names \o q.names)
  BY <1>4, <1>5, <1>6, InjectiveConcatenation
<1>8. IsInjective(<<>> \o <<>>)
  BY DEF IsInjective
<1> QED BY <1>1, <1>4, <1>5, <1>7, <1>8

\* No name occurs twice in an effect, whichever pieces of it are used.
LEMMA NamesOfEffect ==
  ASSUME NamesDiffer, NEW possible, AreCodes(possible), NEW code, IsCode(code)
  PROVE  IsInjective(EffectDefinition(possible, code).names)
<1> DEFINE p == IF possible = <<>> THEN NothingPrepared(0) ELSE PreprocessCode(Head(possible), 0)
           q == PreprocessCode(code, p.next)
           names == EffectDefinition(possible, code).names
<1>1. names = (IF p.valid THEN p.names ELSE <<>>) \o (IF q.valid THEN q.names ELSE <<>>)
  BY DEF EffectDefinition, Joined, Prepared
<1>2. p.names \in Seq(Texts) /\ p.next \in Nat /\ Named(0, p)
  <2>1. CASE possible = <<>>
    <3>1. p = Begun(0)
      BY <2>1 DEF NothingPrepared
    <3>2. Begun(0).names \in Seq(Texts) /\ Begun(0).next \in Nat /\ Named(0, Begun(0))
      BY DEF Begun, Named
    <3> HIDE DEF p
    <3> QED BY <3>1, <3>2
  <2>2. CASE possible # <<>>
    <3>1. Head(possible) \in ToSet(possible)
      BY <2>2 DEF AreCodes, IsList
    <3>2. IsCode(Head(possible)) /\ p = PreprocessCode(Head(possible), 0)
      BY <2>2, <3>1 DEF AreCodes
    <3> HIDE DEF p
    <3> QED BY <3>2, PreparedIs
  <2> QED BY <2>1, <2>2
<1> HIDE DEF p
<1>3. q.names \in Seq(Texts) /\ q.next \in Nat /\ Named(p.next, q)
  BY <1>2, PreparedIs
<1> HIDE DEF q, names
<1>4. /\ IsInjective(p.names \o q.names)
      /\ IsInjective(p.names) /\ IsInjective(q.names) /\ IsInjective(<<>> \o <<>>)
      /\ p.names \o <<>> = p.names /\ <<>> \o q.names = q.names
  BY <1>2, <1>3, NamesOfPieces
<1>5. CASE p.valid
  <2>1. CASE q.valid
    BY <1>1, <1>4, <1>5, <2>1 DEF names
  <2>2. CASE ~q.valid
    BY <1>1, <1>4, <1>5, <2>2 DEF names
  <2> QED BY <2>1, <2>2
<1>6. CASE ~p.valid
  <2>1. CASE q.valid
    BY <1>1, <1>4, <1>6, <2>1 DEF names
  <2>2. CASE ~q.valid
    BY <1>1, <1>4, <1>6, <2>2 DEF names
  <2> QED BY <2>1, <2>2
<1> QED BY <1>5, <1>6

\* The script that sets variables is code, with nothing to replace.
LEMMA SettingIs ==
  ASSUME NEW variables, IsFiniteSet(variables)
  PROVE  /\ IsCode(Setting(variables)) /\ Setting(variables).dependencies = <<>>
         /\ \A i \in 1 .. Len(Setting(variables).lua) : Setting(variables).lua[i] # "VAR("
<1> DEFINE n == Cardinality(variables)
           piece == <<"x", "'", "x", "'">>
           q == [i \in 1 .. n |-> piece]
           lua == FlattenSeq(q)
           S == {"x", "'"}
<1>1. n \in Nat
  BY FS_CardinalityType
<1>2. piece \in Seq(S)
  OBVIOUS
<1> HIDE DEF n, piece
<1>3. q \in Seq(Seq(S))
  <2>1. q \in [1 .. n -> Seq(S)]
    BY <1>2
  <2> QED BY <1>1, <2>1
<1> HIDE DEF q
<1>4. lua \in Seq(S)
  BY <1>3, FlattenElements
<1> HIDE DEF lua
<1>5. S \subseteq Signs /\ "VAR(" \notin S
  BY DEF Signs
<1>6. lua \in Seq(Signs) /\ \A i \in 1 .. Len(lua) : lua[i] # "VAR("
  <2> HIDE DEF S
  <2>1. \A i \in 1 .. Len(lua) : lua[i] \in S
    BY <1>4
  <2> QED BY <1>4, <1>5, <2>1, ListsGrow
<1>7. /\ Setting(variables).lua = lua /\ Setting(variables).dependencies = <<>>
      /\ Setting(variables) = Code(lua, <<>>)
  BY DEF Setting, Code, lua, q, n, piece
<1>8. IsList(<<>>)
  BY DEF IsList
<1> QED BY <1>6, <1>7, <1>8 DEF IsCode

\* With core.class among its dependencies code is code.
LEMMA WithCoreClassIs ==
  ASSUME NEW code, IsCode(code)
  PROVE  IsCode(WithCoreClass(code))
<1>1. CASE CoreClass \in ToSet(code.dependencies)
  BY <1>1 DEF WithCoreClass
<1>2. CASE CoreClass \notin ToSet(code.dependencies)
  <2> DEFINE more == WithCoreClass(code)
             S == ToSet(code.dependencies) \cup {CoreClass}
  <2>1. more = [code EXCEPT !.dependencies = Append(code.dependencies, CoreClass)]
    BY <1>2 DEF WithCoreClass
  <2>2. Append(code.dependencies, CoreClass) \in Seq(S)
    BY DEF IsCode, IsList
  <2>3. IsList(Append(code.dependencies, CoreClass))
    BY <2>2, SequencesAreLists
  <2>4. more = Code(code.lua, Append(code.dependencies, CoreClass))
    <3>1. code = [lua |-> code.lua, dependencies |-> code.dependencies]
      BY DEF IsCode, Code
    <3> HIDE DEF more
    <3> QED BY <2>1, <3>1 DEF Code
  <2> HIDE DEF more
  <2>5. more.lua = code.lua /\ more.dependencies = Append(code.dependencies, CoreClass)
    BY <2>4 DEF Code
  <2>6. code.lua \in Seq(Signs)
    BY DEF IsCode
  <2> QED BY <2>3, <2>4, <2>5, <2>6 DEF IsCode, more
<1> QED BY <1>1, <1>2

\* The second segment of an id is its first argument, if no other one follows.
LEMMA ArgumentBehindText ==
  ASSUME NEW S, NEW id \in Seq(S), Len(id) \in {2, 3},
         id[1].kind = "text", id[2].kind = "argument", Len(id) = 3 => id[3].kind = "text"
  PROVE  Arguments(id)[1] = id[2].of
<1> DEFINE T == Taken(id, "argument")
           L == Len(id)
<1>1. /\ T[0] = <<>>
      /\ \A n \in 1 .. L :
            T[n] = IF id[n].kind = "argument" THEN Append(T[n - 1], id[n]) ELSE T[n - 1]
  BY TakenFrom
<1>2. /\ 1 \in 1 .. L /\ 2 \in 1 .. L /\ (L = 3 => 3 \in 1 .. L)
      /\ 1 - 1 = 0 /\ 2 - 1 = 1 /\ 3 - 1 = 2
  OBVIOUS
<1> HIDE DEF T
<1>3. T[1] = <<>>
  BY <1>1, <1>2
<1>4. T[2] = <<id[2]>>
  <2>1. T[2] = Append(T[1], id[2])
    BY <1>1, <1>2
  <2> QED BY <1>3, <2>1
<1>5. T[L] = <<id[2]>>
  <2>1. CASE L = 2
    BY <1>4, <2>1
  <2>2. CASE L = 3
    <3>1. T[3] = T[2]
      BY <1>1, <1>2, <2>2
    <3> QED BY <1>4, <2>2, <3>1
  <2> QED BY <2>1, <2>2
<1>6. OfKind(id, "argument") = <<id[2]>>
  BY <1>5 DEF OfKind, T
<1> QED BY <1>6 DEF Arguments, Names

\* What the variables of generated effects are about.
LEMMA JobCountIs ==
  ASSUME NEW job
  PROVE  JobCount(job)[1] = Text("job") /\ Arguments(JobCount(job))[1] = job
<1> DEFINE a == Text("job")
           b == Argument(job)
           c == Text("count")
           id == <<a, b, c>>
<1>1. a.kind = "text" /\ b.kind = "argument" /\ b.of = job /\ c.kind = "text"
  BY DEF Text, Argument
<1> HIDE DEF a, b, c
<1>2. /\ id \in Seq({a, b, c}) /\ Len(id) = 3
      /\ id[1] = a /\ id[2] = b /\ id[3] = c
  OBVIOUS
<1> HIDE DEF id
<1>3. Arguments(id)[1] = job
  BY <1>1, <1>2, ArgumentBehindText
<1>4. JobCount(job) = id
  BY DEF JobCount, id, a, b, c
<1> QED BY <1>2, <1>3, <1>4 DEF a

\* The variables of amounts are about resources, and none of them is about jobs.
LEMMA AmountsAre ==
  ASSUME NEW resource, NEW id \in {Consumes(resource), Produces(resource)}
  PROVE  id[1] # Text("job") /\ Arguments(id)[1] = resource
<1>1. PICK text \in {"consumes", "produces"} : id = <<Text(text), Argument(resource)>>
  BY DEF Consumes, Produces
<1> DEFINE a == Text(text)
           b == Argument(resource)
<1>2. /\ a.kind = "text" /\ b.kind = "argument" /\ b.of = resource
      /\ a # Text("job")
  BY DEF Text, Argument
<1>3. id = <<a, b>>
  BY <1>1
<1> HIDE DEF a, b
<1>4. id \in Seq({a, b}) /\ Len(id) = 2 /\ id[1] = a /\ id[2] = b
  BY <1>3
<1>5. Arguments(id)[1] = resource
  BY <1>2, <1>4, ArgumentBehindText
<1> QED BY <1>2, <1>4, <1>5

-----------------------------------------------------------------------------
(* The effects that are made of the objects of tables.                     *)

\* What is to hold of an effect: no name twice, and if it is a generated one, it waits for
\* core.class and sets variables of some jobs and resources.
IsSound(effect, jobs, resources) ==
    /\ NamesDiffer => IsInjective(effect.names)
    /\ effect.sets # {} => CoreClass \in ToSet(effect.dependencies)
    /\ \A variable \in effect.sets :
          \/ \E job \in jobs : variable = JobCount(job)
          \/ \E resource \in resources : variable \in {Consumes(resource), Produces(resource)}
AreSound(effects, jobs, resources) ==
    IsList(effects) /\ \A effect \in ToSet(effects) : IsSound(effect, jobs, resources)

\* An effect of code in the files sets nothing by itself.
LEMMA GivenIsSound ==
  ASSUME NEW id, NEW scopeType, NEW class, NEW possible, AreCodes(possible),
         NEW code, IsCode(code), NEW jobs, NEW resources
  PROVE  IsSound(Effect(id, scopeType, class, possible, code, {}), jobs, resources)
<1> DEFINE effect == Effect(id, scopeType, class, possible, code, {})
<1>1. effect.sets = {} /\ effect.names = EffectDefinition(possible, code).names
  BY DEF Effect, EffectOf
<1> HIDE DEF effect
<1>2. NamesDiffer => IsInjective(effect.names)
  BY <1>1, NamesOfEffect
<1> QED BY <1>1, <1>2 DEF IsSound, effect

\* Code that is left out is code.
LEMMA NoCodes == AreCodes(<<>>)
BY DEF AreCodes, IsList, ToSet

\* Nor does one of a class or of a group.
LEMMA ClassEffectIsSound ==
  ASSUME NEW object, NEW name, NEW scopeType, NEW code, IsCode(code), NEW jobs, NEW resources
  PROVE  IsSound(ClassEffect(object, name, scopeType, code, {}), jobs, resources)
<1>1. IsCode(WithCoreClass(code)) /\ AreCodes(<<>>)
  BY WithCoreClassIs, NoCodes
<1> HIDE DEF WithCoreClass
<1> QED BY <1>1, GivenIsSound DEF ClassEffect

\* A generated effect keeps its dependency on core.class: its script is one that is
\* prepared without an error.
LEMMA GeneratedIsSound ==
  ASSUME NEW object, NEW name, NEW scopeType, NEW sets, IsFiniteSet(sets),
         NEW jobs, NEW resources,
         \A variable \in sets :
            \/ \E job \in jobs : variable = JobCount(job)
            \/ \E resource \in resources : variable \in {Consumes(resource), Produces(resource)}
  PROVE  IsSound(ClassEffect(object, name, scopeType, Setting(sets), sets), jobs, resources)
<1> DEFINE script == Setting(sets)
           code == WithCoreClass(script)
           effect == ClassEffect(object, name, scopeType, script, sets)
           p == NothingPrepared(0)
           q == PreprocessCode(code, p.next)
<1>1. /\ IsCode(script) /\ script.dependencies = <<>>
      /\ \A i \in 1 .. Len(script.lua) : script.lua[i] # "VAR("
  BY SettingIs
<1> HIDE DEF script
<1>2. IsCode(code) /\ code.lua = script.lua /\ code.dependencies = <<CoreClass>>
  <2>1. CoreClass \notin ToSet(script.dependencies)
    BY <1>1, NothingInEmpty
  <2>2. code = [script EXCEPT !.dependencies = Append(script.dependencies, CoreClass)]
    BY <2>1 DEF WithCoreClass
  <2>3. script = [lua |-> script.lua, dependencies |-> script.dependencies]
    BY <1>1 DEF IsCode, Code
  <2>4. code.lua = script.lua /\ code.dependencies = Append(<<>>, CoreClass)
    <3> HIDE DEF code
    <3> QED BY <1>1, <2>2, <2>3
  <2> QED BY <1>1, <2>4, WithCoreClassIs
<1> HIDE DEF code
<1>3. p.valid /\ p.dependencies = <<>> /\ p.next = 0
  BY DEF NothingPrepared, Begun
<1> HIDE DEF p
<1>4. q.valid /\ CoreClass \in ToSet(q.dependencies)
  <2> DEFINE s == Scanned(code.lua, p.next)
  <2>1. code.lua \in Seq(Signs) /\ p.next \in Nat
    BY <1>2, <1>3 DEF IsCode
  <2>2. \A i \in 1 .. Len(code.lua) : code.lua[i] # "VAR("
    BY <1>1, <1>2
  <2>3. s \in States(code.lua) /\ s.valid
    BY <2>1, <2>2, ScannedFacts
  <2>4. \A dependency \in ToSet(code.dependencies) : IsQuery(dependency)
    BY <1>2 DEF ToSet, IsQuery, CoreClass
  <2>5. /\ q.valid <=> /\ s.valid
                       /\ \A dependency \in ToSet(code.dependencies) : IsQuery(dependency)
        /\ q.dependencies = s.dependencies \o code.dependencies
    BY <1>2, <2>1, PreparedIs
  <2> HIDE DEF s, q
  <2>6. CoreClass \in ToSet(s.dependencies \o <<CoreClass>>)
    <3>1. IsList(s.dependencies)
      BY <2>3, SequencesAreLists DEF States
    <3>2. s.dependencies \in Seq(ToSet(s.dependencies) \cup {CoreClass})
      BY <3>1, ListsGrow DEF IsList
    <3>3. (s.dependencies \o <<CoreClass>>)[Len(s.dependencies) + 1] = CoreClass
      BY <3>2
    <3>4. Len(s.dependencies) + 1 \in DOMAIN (s.dependencies \o <<CoreClass>>)
      BY <3>2
    <3> QED BY <3>3, <3>4 DEF ToSet
  <2> QED BY <1>2, <2>3, <2>4, <2>5, <2>6
<1> HIDE DEF q
<1>5. /\ effect.sets = sets /\ effect.names = EffectDefinition(<<>>, code).names
      /\ effect.dependencies = EffectDefinition(<<>>, code).dependencies
  BY DEF ClassEffect, Effect, EffectOf, code, script
<1> HIDE DEF effect
<1>6. NamesDiffer => IsInjective(effect.names)
  BY <1>2, <1>5, NoCodes, NamesOfEffect
<1>7. CoreClass \in ToSet(effect.dependencies)
  <2>1. EffectDefinition(<<>>, code).dependencies
            = (IF p.valid THEN p.dependencies ELSE <<>>)
                  \o (IF q.valid THEN q.dependencies ELSE <<>>)
    BY DEF EffectDefinition, Joined, Prepared, p, q
  <2>2. effect.dependencies = <<>> \o q.dependencies
    BY <1>3, <1>4, <1>5, <2>1
  <2>3. <<>> \o q.dependencies = q.dependencies
    <3>1. IsCode(code) /\ code.lua \in Seq(Signs) /\ p.next \in Nat
      BY <1>2, <1>3 DEF IsCode
    <3> DEFINE s == Scanned(code.lua, p.next)
    <3>2. s \in States(code.lua)
      BY <3>1, ScannedFacts
    <3>3. q.dependencies = s.dependencies \o code.dependencies
      BY <3>1, PreparedIs DEF q
    <3> HIDE DEF s
    <3>4. IsList(s.dependencies)
      BY <3>2, SequencesAreLists DEF States
    <3>5. s.dependencies \o <<CoreClass>> \in Seq(ToSet(s.dependencies) \cup {CoreClass})
      BY <3>4, ListsGrow DEF IsList
    <3> QED BY <1>2, <3>3, <3>5
  <2> QED BY <1>4, <2>2, <2>3
<1> QED BY <1>5, <1>6, <1>7 DEF IsSound, effect, script

\* Sound effects one after the other are sound.
LEMMA SoundTogether ==
  ASSUME NEW jobs, NEW resources,
         NEW a, AreSound(a, jobs, resources), NEW b, AreSound(b, jobs, resources)
  PROVE  AreSound(a \o b, jobs, resources)
<1> DEFINE S == ToSet(a) \cup ToSet(b)
<1>1. a \in Seq(S) /\ b \in Seq(S)
  BY ListsGrow DEF AreSound, IsList
<1>2. \A x \in S : IsSound(x, jobs, resources)
  BY DEF AreSound
<1> HIDE DEF S
<1>3. a \o b \in Seq(S)
  BY <1>1
<1>4. IsList(a \o b) /\ ToSet(a \o b) \subseteq S
  BY <1>3, SequencesAreLists
<1> QED BY <1>2, <1>4 DEF AreSound

\* No effects are sound ones.
LEMMA NoEffects ==
  ASSUME NEW jobs, NEW resources
  PROVE  AreSound(<<>>, jobs, resources)
BY NothingInEmpty DEF AreSound, IsList

\* One that is made on a condition need be sound on it only.
LEMMA SoundWhen ==
  ASSUME NEW jobs, NEW resources, NEW condition, NEW effect,
         condition => IsSound(effect, jobs, resources)
  PROVE  AreSound(When(condition, effect), jobs, resources)
<1>1. CASE condition
  <2>1. <<effect>> \in Seq({effect}) /\ When(condition, effect) = <<effect>>
    BY <1>1 DEF When
  <2>2. IsList(<<effect>>) /\ ToSet(<<effect>>) \subseteq {effect}
    BY <2>1, SequencesAreLists
  <2> QED BY <1>1, <2>1, <2>2 DEF AreSound
<1>2. CASE ~condition
  BY <1>2, NoEffects DEF When
<1> QED BY <1>1, <1>2

\* One effect for each element of a list.
LEMMA SoundEach ==
  ASSUME NEW jobs, NEW resources, NEW list, IsList(list), NEW effects,
         DOMAIN effects = DOMAIN list, effects = [i \in DOMAIN effects |-> effects[i]],
         \A i \in DOMAIN list : IsSound(effects[i], jobs, resources)
  PROVE  AreSound(effects, jobs, resources)
<1> DEFINE S == {effects[i] : i \in DOMAIN list}
           L == Len(list)
<1>1. L \in Nat /\ DOMAIN list = 1 .. L
  BY DEF IsList
<1>2. effects \in [1 .. L -> S]
  BY <1>1
<1>3. \A x \in S : IsSound(x, jobs, resources)
  OBVIOUS
<1> HIDE DEF S, L
<1>4. effects \in Seq(S)
  BY <1>1, <1>2
<1>5. IsList(effects) /\ ToSet(effects) \subseteq S
  BY <1>4, SequencesAreLists
<1> QED BY <1>3, <1>5 DEF AreSound

\* The effects of each object of a table, one after the other.
LEMMA SoundOfTable ==
  ASSUME NEW jobs, NEW resources, NEW objects, IsList(objects), NEW each,
         DOMAIN each = DOMAIN objects, each = [i \in DOMAIN each |-> each[i]],
         \A i \in DOMAIN objects : AreSound(each[i], jobs, resources)
  PROVE  AreSound(FlattenSeq(each), jobs, resources)
<1> DEFINE L == Len(objects)
           S == UNION {ToSet(each[i]) : i \in 1 .. L}
           all == FlattenSeq(each)
<1>1. L \in Nat /\ DOMAIN objects = 1 .. L
  BY DEF IsList
<1>2. \A i \in 1 .. L : each[i] \in Seq(S)
  <2> SUFFICES ASSUME NEW i \in 1 .. L PROVE each[i] \in Seq(S)
    OBVIOUS
  <2>1. each[i] \in Seq(ToSet(each[i]))
    BY <1>1 DEF AreSound, IsList
  <2>2. ToSet(each[i]) \subseteq S
    OBVIOUS
  <2> HIDE DEF S
  <2> QED BY <2>1, <2>2, ListsGrow
<1>3. \A x \in S : IsSound(x, jobs, resources)
  BY <1>1 DEF AreSound
<1> HIDE DEF S, L
<1>4. each \in Seq(Seq(S))
  <2>1. each \in [1 .. L -> Seq(S)]
    BY <1>1, <1>2
  <2> QED BY <1>1, <2>1
<1>5. all \in Seq(S)
  BY <1>4, FlattenElements
<1> HIDE DEF all
<1>6. IsList(all) /\ ToSet(all) \subseteq S
  BY <1>5, SequencesAreLists
<1>7. AreSound(all, jobs, resources)
  BY <1>3, <1>6 DEF AreSound
<1> QED BY <1>7 DEF all

\* Each element of a list of codes is code.
LEMMA ElementsOfCodes ==
  ASSUME NEW codes, AreCodes(codes)
  PROVE  IsList(codes) /\ \A i \in DOMAIN codes : IsCode(codes[i])
BY DEF AreCodes, ToSet

\* The effects of an improvement set how many jobs there are of those it gives.
LEMMA EffectsOfImprovementAreSound ==
  ASSUME NEW jobs, NEW resources, NEW improvement, WellRead("improvements", improvement),
         improvement.jobs \subseteq jobs
  PROVE  AreSound(EffectsOfImprovement(improvement), jobs, resources)
<1> DEFINE counts == {JobCount(job) : job \in improvement.jobs}
           a == [i \in DOMAIN improvement.classEffect |->
                    ClassEffect(improvement, "class.effect", "improvement class",
                                improvement.classEffect[i], {})]
           generated == ClassEffect(improvement, "jobs.effect", "improvement class",
                                    Setting(counts), counts)
           b == When(counts # {}, generated)
           c == [i \in DOMAIN improvement.instanceEffect |->
                    Effect(<<improvement.id, "instance.effect">>, "improvement", improvement.id,
                           <<Code(<<"x">>, <<>>)>>, improvement.instanceEffect[i], {})]
<1>1. /\ IsFiniteSet(improvement.jobs)
      /\ AreCodes(improvement.classEffect) /\ AreCodes(improvement.instanceEffect)
  BY DEF WellRead
<1>2. IsFiniteSet(counts)
  <2> DEFINE f == [job \in improvement.jobs |-> JobCount(job)]
  <2>1. f \in Surjection(improvement.jobs, counts)
    BY DEF Surjection
  <2> QED BY <1>1, <2>1, FS_Surjection
<1>3. \A variable \in counts : \E job \in jobs : variable = JobCount(job)
  OBVIOUS
<1>4. AreSound(a, jobs, resources)
  <2>1. IsList(improvement.classEffect)
        /\ \A i \in DOMAIN improvement.classEffect : IsCode(improvement.classEffect[i])
    BY <1>1, ElementsOfCodes
  <2>2. \A i \in DOMAIN improvement.classEffect : IsSound(a[i], jobs, resources)
    BY <2>1, ClassEffectIsSound
  <2>3. DOMAIN a = DOMAIN improvement.classEffect /\ a = [i \in DOMAIN a |-> a[i]]
    OBVIOUS
  <2> HIDE DEF a
  <2> QED BY <2>1, <2>2, <2>3, SoundEach
<1>5. AreSound(b, jobs, resources)
  <2> HIDE DEF counts
  <2>1. IsSound(generated, jobs, resources)
    BY <1>2, <1>3, GeneratedIsSound
  <2> HIDE DEF generated
  <2> QED BY <2>1, SoundWhen
<1>6. AreSound(c, jobs, resources)
  <2>1. IsList(improvement.instanceEffect)
        /\ \A i \in DOMAIN improvement.instanceEffect : IsCode(improvement.instanceEffect[i])
    BY <1>1, ElementsOfCodes
  <2>2. AreCodes(<<Code(<<"x">>, <<>>)>>)
    <3> DEFINE possible == Code(<<"x">>, <<>>)
    <3>1. IsCode(possible)
      <4>1. <<"x">> \in Seq(Signs) /\ IsList(<<>>)
        BY DEF Signs, IsList
      <4> QED BY <4>1 DEF IsCode, Code
    <3> HIDE DEF possible
    <3>2. <<possible>> \in Seq({possible})
      OBVIOUS
    <3>3. IsList(<<possible>>) /\ ToSet(<<possible>>) \subseteq {possible}
      BY <3>2, SequencesAreLists
    <3>4. AreCodes(<<possible>>)
      BY <3>1, <3>3 DEF AreCodes
    <3> QED BY <3>4 DEF possible
  <2>3. \A i \in DOMAIN improvement.instanceEffect : IsSound(c[i], jobs, resources)
    BY <2>1, <2>2, GivenIsSound
  <2>4. DOMAIN c = DOMAIN improvement.instanceEffect /\ c = [i \in DOMAIN c |-> c[i]]
    OBVIOUS
  <2> HIDE DEF c
  <2> QED BY <2>1, <2>3, <2>4, SoundEach
<1>7. EffectsOfImprovement(improvement) = a \o b \o c
  BY DEF EffectsOfImprovement
<1> HIDE DEF a, b, c
<1>8. AreSound(a \o b, jobs, resources)
  BY <1>4, <1>5, SoundTogether
<1>9. AreSound(a \o b \o c, jobs, resources)
  BY <1>6, <1>8, SoundTogether
<1> QED BY <1>7, <1>9

\* Those of a job how much of each resource it takes and gives.
LEMMA EffectsOfJobAreSound ==
  ASSUME NEW jobs, NEW resources, NEW job, WellRead("jobs", job),
         job.input \cup job.output \subseteq resources
  PROVE  AreSound(EffectsOfJob(job), jobs, resources)
<1> DEFINE taken == {Consumes(resource) : resource \in job.input}
           given == {Produces(resource) : resource \in job.output}
           amounts == taken \cup given
           a == [i \in DOMAIN job.classEffect |->
                    ClassEffect(job, "class.effect", "job class", job.classEffect[i], {})]
           generated == ClassEffect(job, "resources.effect", "job class",
                                    Setting(amounts), amounts)
           b == When(amounts # {}, generated)
<1>1. IsFiniteSet(job.input \cup job.output) /\ AreCodes(job.classEffect)
  BY DEF WellRead
<1>2. IsFiniteSet(amounts)
  <2>1. IsFiniteSet(job.input) /\ IsFiniteSet(job.output)
    BY <1>1, FS_Subset
  <2>2. IsFiniteSet(taken)
    <3> DEFINE f == [resource \in job.input |-> Consumes(resource)]
    <3>1. f \in Surjection(job.input, taken)
      BY DEF Surjection
    <3> QED BY <2>1, <3>1, FS_Surjection
  <2>3. IsFiniteSet(given)
    <3> DEFINE f == [resource \in job.output |-> Produces(resource)]
    <3>1. f \in Surjection(job.output, given)
      BY DEF Surjection
    <3> QED BY <2>1, <3>1, FS_Surjection
  <2> HIDE DEF taken, given
  <2> QED BY <2>2, <2>3, FS_Union
<1>3. \A variable \in amounts :
          \E resource \in resources : variable \in {Consumes(resource), Produces(resource)}
  OBVIOUS
<1>4. AreSound(a, jobs, resources)
  <2>1. IsList(job.classEffect) /\ \A i \in DOMAIN job.classEffect : IsCode(job.classEffect[i])
    BY <1>1, ElementsOfCodes
  <2>2. \A i \in DOMAIN job.classEffect : IsSound(a[i], jobs, resources)
    BY <2>1, ClassEffectIsSound
  <2>3. DOMAIN a = DOMAIN job.classEffect /\ a = [i \in DOMAIN a |-> a[i]]
    OBVIOUS
  <2> HIDE DEF a
  <2> QED BY <2>1, <2>2, <2>3, SoundEach
<1>5. AreSound(b, jobs, resources)
  <2> HIDE DEF amounts
  <2>1. IsSound(generated, jobs, resources)
    BY <1>2, <1>3, GeneratedIsSound
  <2> HIDE DEF generated
  <2> QED BY <2>1, SoundWhen
<1>6. EffectsOfJob(job) = a \o b
  BY DEF EffectsOfJob
<1> HIDE DEF a, b
<1> QED BY <1>4, <1>5, <1>6, SoundTogether

\* Those of a group are those in its file.
LEMMA EffectsOfGroupAreSound ==
  ASSUME NEW jobs, NEW resources, NEW group, AreCodes(group.groupEffect), NEW scopeType
  PROVE  AreSound(EffectsOfGroup(group, scopeType), jobs, resources)
<1> DEFINE a == EffectsOfGroup(group, scopeType)
<1>1. IsList(group.groupEffect)
      /\ \A i \in DOMAIN group.groupEffect : IsCode(group.groupEffect[i])
  BY ElementsOfCodes
<1>2. /\ DOMAIN a = DOMAIN group.groupEffect /\ a = [i \in DOMAIN a |-> a[i]]
      /\ \A i \in DOMAIN group.groupEffect :
            a[i] = ClassEffect(group, "group.effect", scopeType, group.groupEffect[i], {})
  BY DEF EffectsOfGroup
<1>3. \A i \in DOMAIN group.groupEffect : IsSound(a[i], jobs, resources)
  BY <1>1, <1>2, ClassEffectIsSound
<1> HIDE DEF a
<1> QED BY <1>1, <1>2, <1>3, SoundEach DEF a

\* All effects that are made of tables whose references were checked.
LEMMA EffectsAreSound ==
  ASSUME NEW tables, AreTables(tables), NEW jobs, NEW resources,
         \A improvement \in ToSet(tables.improvements) : improvement.jobs \subseteq jobs,
         \A job \in ToSet(tables.jobs) : job.input \cup job.output \subseteq resources
  PROVE  AreSound(EffectsOf(tables), jobs, resources)
<1> DEFINE given == [i \in DOMAIN tables.effects |-> Given(tables.effects[i])]
           p == [i \in DOMAIN tables.improvements |->
                    EffectsOfImprovement(tables.improvements[i])]
           q == [i \in DOMAIN tables.jobs |-> EffectsOfJob(tables.jobs[i])]
           g == [i \in DOMAIN tables.improvement_groups |->
                    EffectsOfGroup(tables.improvement_groups[i], "improvement group")]
           h == [i \in DOMAIN tables.job_groups |->
                    EffectsOfGroup(tables.job_groups[i], "job group")]
<1>1. /\ IsTable("improvements", tables.improvements) /\ IsTable("jobs", tables.jobs)
      /\ IsTable("improvement_groups", tables.improvement_groups)
      /\ IsTable("job_groups", tables.job_groups) /\ IsTable("effects", tables.effects)
      /\ IsList(tables.improvements) /\ IsList(tables.jobs) /\ IsList(tables.effects)
      /\ IsList(tables.improvement_groups) /\ IsList(tables.job_groups)
  BY TablesAreLists
<1>2. AreSound(given, jobs, resources)
  <2>1. \A i \in DOMAIN tables.effects : IsSound(given[i], jobs, resources)
    <3> SUFFICES ASSUME NEW i \in DOMAIN tables.effects
                 PROVE  IsSound(Given(tables.effects[i]), jobs, resources)
      OBVIOUS
    <3> DEFINE e == tables.effects[i]
    <3>1. e \in ToSet(tables.effects)
      BY DEF ToSet
    <3>2. WellRead("effects", e)
      BY <1>1, <3>1 DEF IsTable
    <3>3. AreCodes(e.possible) /\ IsCode(e.effect)
      BY <3>2 DEF WellRead
    <3> HIDE DEF e
    <3>4. IsSound(Given(e), jobs, resources)
      BY <3>3, GivenIsSound DEF Given
    <3> QED BY <3>4 DEF e
  <2>2. DOMAIN given = DOMAIN tables.effects /\ given = [i \in DOMAIN given |-> given[i]]
    OBVIOUS
  <2> HIDE DEF given
  <2> QED BY <1>1, <2>1, <2>2, SoundEach
<1>3. AreSound(FlattenSeq(p), jobs, resources)
  <2>1. \A i \in DOMAIN tables.improvements : AreSound(p[i], jobs, resources)
    <3> SUFFICES ASSUME NEW i \in DOMAIN tables.improvements
                 PROVE  AreSound(EffectsOfImprovement(tables.improvements[i]), jobs, resources)
      OBVIOUS
    <3>1. tables.improvements[i] \in ToSet(tables.improvements)
      BY DEF ToSet
    <3>2. WellRead("improvements", tables.improvements[i])
      BY <1>1, <3>1 DEF IsTable
    <3> QED BY <3>1, <3>2, EffectsOfImprovementAreSound
  <2>2. DOMAIN p = DOMAIN tables.improvements /\ p = [i \in DOMAIN p |-> p[i]]
    OBVIOUS
  <2> HIDE DEF p
  <2> QED BY <1>1, <2>1, <2>2, SoundOfTable
<1>4. AreSound(FlattenSeq(q), jobs, resources)
  <2>1. \A i \in DOMAIN tables.jobs : AreSound(q[i], jobs, resources)
    <3> SUFFICES ASSUME NEW i \in DOMAIN tables.jobs
                 PROVE  AreSound(EffectsOfJob(tables.jobs[i]), jobs, resources)
      OBVIOUS
    <3>1. tables.jobs[i] \in ToSet(tables.jobs)
      BY DEF ToSet
    <3>2. WellRead("jobs", tables.jobs[i])
      BY <1>1, <3>1 DEF IsTable
    <3> QED BY <3>1, <3>2, EffectsOfJobAreSound
  <2>2. DOMAIN q = DOMAIN tables.jobs /\ q = [i \in DOMAIN q |-> q[i]]
    OBVIOUS
  <2> HIDE DEF q
  <2> QED BY <1>1, <2>1, <2>2, SoundOfTable
<1>5. AreSound(FlattenSeq(g), jobs, resources)
  <2>1. \A i \in DOMAIN tables.improvement_groups : AreSound(g[i], jobs, resources)
    <3> SUFFICES ASSUME NEW i \in DOMAIN tables.improvement_groups
                 PROVE  AreSound(EffectsOfGroup(tables.improvement_groups[i],
                                                "improvement group"), jobs, resources)
      OBVIOUS
    <3>1. tables.improvement_groups[i] \in ToSet(tables.improvement_groups)
      BY DEF ToSet
    <3>2. WellRead("improvement_groups", tables.improvement_groups[i])
      BY <1>1, <3>1 DEF IsTable
    <3>3. AreCodes(tables.improvement_groups[i].groupEffect)
      BY <3>2 DEF WellRead
    <3> QED BY <3>3, EffectsOfGroupAreSound
  <2>2. DOMAIN g = DOMAIN tables.improvement_groups /\ g = [i \in DOMAIN g |-> g[i]]
    OBVIOUS
  <2> HIDE DEF g
  <2> QED BY <1>1, <2>1, <2>2, SoundOfTable
<1>6. AreSound(FlattenSeq(h), jobs, resources)
  <2>1. \A i \in DOMAIN tables.job_groups : AreSound(h[i], jobs, resources)
    <3> SUFFICES ASSUME NEW i \in DOMAIN tables.job_groups
                 PROVE  AreSound(EffectsOfGroup(tables.job_groups[i], "job group"),
                                 jobs, resources)
      OBVIOUS
    <3>1. tables.job_groups[i] \in ToSet(tables.job_groups)
      BY DEF ToSet
    <3>2. WellRead("job_groups", tables.job_groups[i])
      BY <1>1, <3>1 DEF IsTable
    <3>3. AreCodes(tables.job_groups[i].groupEffect)
      BY <3>2 DEF WellRead
    <3> QED BY <3>3, EffectsOfGroupAreSound
  <2>2. DOMAIN h = DOMAIN tables.job_groups /\ h = [i \in DOMAIN h |-> h[i]]
    OBVIOUS
  <2> HIDE DEF h
  <2> QED BY <1>1, <2>1, <2>2, SoundOfTable
<1>7. EffectsOf(tables)
        = <<>> \o given \o FlattenSeq(p) \o FlattenSeq(q) \o FlattenSeq(g) \o FlattenSeq(h)
  BY DEF EffectsOf
<1> DEFINE P == FlattenSeq(p)
           Q == FlattenSeq(q)
           G == FlattenSeq(g)
           H == FlattenSeq(h)
<1>8. /\ AreSound(P, jobs, resources) /\ AreSound(Q, jobs, resources)
      /\ AreSound(G, jobs, resources) /\ AreSound(H, jobs, resources)
      /\ EffectsOf(tables) = <<>> \o given \o P \o Q \o G \o H
  BY <1>3, <1>4, <1>5, <1>6, <1>7
<1> HIDE DEF given, P, Q, G, H
<1>9. AreSound(<<>> \o given, jobs, resources)
  BY <1>2, NoEffects, SoundTogether
<1>10. AreSound(<<>> \o given \o P, jobs, resources)
  BY <1>8, <1>9, SoundTogether
<1>11. AreSound(<<>> \o given \o P \o Q, jobs, resources)
  BY <1>8, <1>10, SoundTogether
<1>12. AreSound(<<>> \o given \o P \o Q \o G, jobs, resources)
  BY <1>8, <1>11, SoundTogether
<1>13. AreSound(<<>> \o given \o P \o Q \o G \o H, jobs, resources)
  BY <1>8, <1>12, SoundTogether
<1> QED BY <1>8, <1>13

\* Whatever a ruleset has for effects, they are sound for the jobs and resources that are
\* registered.
LEMMA EffectsStaySound ==
  ASSUME RuleSetInv
  PROVE  LET domains == ruleset.definitions.domains
         IN  AreSound(ruleset.effectDefinitions, ToSet(domains["job"]), ToSet(domains["resource"]))
<1> DEFINE domains == ruleset.definitions.domains
           jobs == ToSet(domains["job"])
           resources == ToSet(domains["resource"])
           tables == ruleset.tables
<1>1. CASE roots = <<>>
  <2>1. ruleset.effectDefinitions = <<>>
    BY <1>1 DEF RuleSetInv, EmptyRuleSet
  <2> QED BY <2>1, NoEffects
<1>2. CASE roots # <<>> /\ ~ruleset.success
  <2>1. ruleset.effectDefinitions = <<>>
    BY <1>2, SuccessIs DEF RuleSetInv
  <2> QED BY <2>1, NoEffects
<1>3. CASE roots # <<>> /\ ruleset.success
  <2>1. AreTables(tables) /\ SuccessSays(ruleset)
    BY <1>3, SuccessIs DEF RuleSetInv, IsMade
  <2>2. /\ jobs = ValidIdsOf(tables.jobs) /\ resources = ValidIdsOf(tables.resources)
        /\ \A improvement \in ToSet(tables.improvements) :
              improvement.jobs \subseteq ValidIdsOf(tables.jobs)
        /\ \A job \in ToSet(tables.jobs) :
              job.input \cup job.output \subseteq ValidIdsOf(tables.resources)
        /\ ruleset.effectDefinitions = EffectsOf(tables)
    BY <2>1 DEF SuccessSays, ClassesAreWell
  <2> HIDE DEF jobs, resources, tables
  <2>3. AreSound(EffectsOf(tables), jobs, resources)
    BY <2>1, <2>2, EffectsAreSound
  <2> QED BY <2>2, <2>3 DEF jobs, resources
<1> QED BY <1>1, <1>2, <1>3

\* Generated effects set variables of registered jobs and resources, after core.class.
THEOREM GeneratedEffectsAlwaysResolve == RuleSetSpec => []GeneratedEffectsResolve
<1>1. RuleSetInv => GeneratedEffectsResolve
  <2> SUFFICES ASSUME RuleSetInv,
                      NEW effect \in ToSet(ruleset.effectDefinitions), effect.sets # {}
               PROVE  /\ CoreClass \in ToSet(effect.dependencies)
                      /\ \A variable \in effect.sets :
                            LET domain == IF variable[1] = Text("job") THEN "job" ELSE "resource"
                            IN  Arguments(variable)[1]
                                    \in ToSet(ruleset.definitions.domains[domain])
    BY DEF GeneratedEffectsResolve
  <2> DEFINE jobs == ToSet(ruleset.definitions.domains["job"])
             resources == ToSet(ruleset.definitions.domains["resource"])
  <2>1. /\ CoreClass \in ToSet(effect.dependencies)
        /\ \A variable \in effect.sets :
              \/ \E job \in jobs : variable = JobCount(job)
              \/ \E resource \in resources : variable \in {Consumes(resource), Produces(resource)}
    BY EffectsStaySound DEF AreSound, IsSound
  <2>2. ASSUME NEW variable \in effect.sets
        PROVE  LET domain == IF variable[1] = Text("job") THEN "job" ELSE "resource"
               IN  Arguments(variable)[1] \in ToSet(ruleset.definitions.domains[domain])
    <3>1. CASE \E job \in jobs : variable = JobCount(job)
      <4>1. PICK job \in jobs : variable = JobCount(job)
        BY <3>1
      <4>2. variable[1] = Text("job") /\ Arguments(variable)[1] = job
        BY <4>1, JobCountIs
      <4> QED BY <4>2
    <3>2. CASE \E resource \in resources : variable \in {Consumes(resource), Produces(resource)}
      <4>1. PICK resource \in resources : variable \in {Consumes(resource), Produces(resource)}
        BY <3>2
      <4>2. variable[1] # Text("job") /\ Arguments(variable)[1] = resource
        BY <4>1, AmountsAre
      <4> QED BY <4>2
    <3> QED BY <2>1, <3>1, <3>2
  <2> QED BY <2>1, <2>2
<1> QED BY <1>1, RuleSetInvAlways, PTL

-----------------------------------------------------------------------------
(* What a Lua reader takes for code.                                       *)

ModeNames == {"code", "dashes", "line", "block", "argument", "single", "double",
              "single escaped", "double escaped"}
InString(quote) == IF quote = "'" THEN "single" ELSE "double"
BehindEscape(quote) == IF quote = "'" THEN "single escaped" ELSE "double escaped"

\* Where signs lead from code, comments and arguments.
LEMMA ModesOutsideStrings ==
  ASSUME NEW sign
  PROVE  /\ ModeAfter("code", sign) =
                IF sign = Comment THEN "dashes" ELSE IF sign = "VAR(" THEN "argument"
                ELSE IF sign \in Quotes THEN InString(sign) ELSE "code"
         /\ ModeAfter("dashes", sign) =
                IF sign = "[[" THEN "block" ELSE IF sign = "\n" THEN "code" ELSE "line"
         /\ ModeAfter("line", sign) = IF sign = "\n" THEN "code" ELSE "line"
         /\ ModeAfter("block", sign) = IF sign = "]]" THEN "code" ELSE "block"
         /\ ModeAfter("argument", sign) = IF sign = ")" THEN "code" ELSE "argument"
<1>1. ModeAfter("code", sign) =
                IF sign = Comment THEN "dashes" ELSE IF sign = "VAR(" THEN "argument"
                ELSE IF sign \in Quotes THEN InString(sign) ELSE "code"
  BY DEF ModeAfter, InString, Quotes, Comment
<1>2. ModeAfter("dashes", sign) =
                IF sign = "[[" THEN "block" ELSE IF sign = "\n" THEN "code" ELSE "line"
  BY DEF ModeAfter
<1>3. ModeAfter("line", sign) = IF sign = "\n" THEN "code" ELSE "line"
  BY DEF ModeAfter
<1>4. ModeAfter("block", sign) = IF sign = "]]" THEN "code" ELSE "block"
  BY DEF ModeAfter
<1>5. ModeAfter("argument", sign) = IF sign = ")" THEN "code" ELSE "argument"
  BY DEF ModeAfter
<1> QED BY <1>1, <1>2, <1>3, <1>4, <1>5

\* And in strings.
LEMMA ModesInStrings ==
  ASSUME NEW quote \in Quotes, NEW sign
  PROVE  /\ ModeAfter(InString(quote), sign) =
                IF sign = quote THEN "code" ELSE IF sign = Escape THEN BehindEscape(quote)
                ELSE InString(quote)
         /\ ModeAfter(BehindEscape(quote), sign) = InString(quote)
<1>1. CASE quote = "'"
  BY <1>1 DEF ModeAfter, InString, BehindEscape, Escape
<1>2. CASE quote = "\""
  BY <1>2 DEF ModeAfter, InString, BehindEscape, Escape
<1> QED BY <1>1, <1>2 DEF Quotes

\* A sign leads to one of the states.
LEMMA ModesStay ==
  ASSUME NEW mode \in ModeNames, NEW sign
  PROVE  ModeAfter(mode, sign) \in ModeNames
<1>1. sign \in Quotes => InString(sign) \in {"single", "double"}
  BY DEF InString
<1>2. CASE mode = "code"
  <2>1. ModeAfter("code", sign) \in {"dashes", "argument", "single", "double", "code"}
    BY <1>1, ModesOutsideStrings
  <2> QED BY <1>2, <2>1 DEF ModeNames
<1>3. CASE mode = "dashes" \/ mode = "line" \/ mode = "block" \/ mode = "argument"
  <2>1. /\ ModeAfter("dashes", sign) \in {"block", "code", "line"}
        /\ ModeAfter("line", sign) \in {"code", "line"}
        /\ ModeAfter("block", sign) \in {"code", "block"}
        /\ ModeAfter("argument", sign) \in {"code", "argument"}
    BY ModesOutsideStrings
  <2> QED BY <1>3, <2>1 DEF ModeNames
<1>4. CASE mode = "single" \/ mode = "single escaped"
  <2>1. "'" \in Quotes /\ InString("'") = "single" /\ BehindEscape("'") = "single escaped"
    BY DEF Quotes, InString, BehindEscape
  <2>2. /\ ModeAfter("single", sign) \in {"code", "single escaped", "single"}
        /\ ModeAfter("single escaped", sign) = "single"
    <3>1. /\ ModeAfter(InString("'"), sign) =
                IF sign = "'" THEN "code" ELSE IF sign = Escape THEN BehindEscape("'")
                ELSE InString("'")
          /\ ModeAfter(BehindEscape("'"), sign) = InString("'")
      BY <2>1, ModesInStrings
    <3> QED BY <2>1, <3>1
  <2> QED BY <1>4, <2>2 DEF ModeNames
<1>5. CASE mode = "double" \/ mode = "double escaped"
  <2>1. "\"" \in Quotes /\ InString("\"") = "double" /\ BehindEscape("\"") = "double escaped"
    BY DEF Quotes, InString, BehindEscape
  <2>2. /\ ModeAfter("double", sign) \in {"code", "double escaped", "double"}
        /\ ModeAfter("double escaped", sign) = "double"
    <3>1. /\ ModeAfter(InString("\""), sign) =
                IF sign = "\"" THEN "code" ELSE IF sign = Escape THEN BehindEscape("\"")
                ELSE InString("\"")
          /\ ModeAfter(BehindEscape("\""), sign) = InString("\"")
      BY <2>1, ModesInStrings
    <3> QED BY <2>1, <3>1
  <2> QED BY <1>5, <2>2 DEF ModeNames
<1> QED BY <1>2, <1>3, <1>4, <1>5 DEF ModeNames

\* The modes follow each other.
LEMMA ModesAre ==
  ASSUME NEW source \in Seq(Signs)
  PROVE  LET m == Modes(source)
         IN  /\ m[0] = "code"
             /\ \A n \in 1 .. Len(source) : m[n] = ModeAfter(m[n - 1], source[n])
<1> DEFINE L == Len(source)
           Solves(g) == g = [n \in 0 .. L |->
               IF n = 0 THEN "code" ELSE ModeAfter(g[n - 1], source[n])]
           modes == CHOOSE g : Solves(g)
           step == [x \in (1 .. L) \X ModeNames |-> ModeAfter(x[2], source[x[1]])]
<1>1. L \in Nat /\ \A n \in 1 .. L : n \in 0 .. L /\ n - 1 \in 0 .. L /\ n # 0
  OBVIOUS
<1>2. Modes(source) = modes
  BY DEF Modes
<1>3. \A n \in 1 .. L, mode \in ModeNames : step[<<n, mode>>] = ModeAfter(mode, source[n])
  OBVIOUS
<1>4. "code" \in ModeNames
  BY DEF ModeNames
<1> HIDE DEF L, step
<1>5. Stays(ModeNames, "code", L, step)
  BY <1>1, <1>3, <1>4, ModesStay DEF Stays
<1>6. PICK f : Computes(f, ModeNames, "code", L, step)
  BY <1>5, RecursionExists
<1>7. /\ f \in [0 .. L -> ModeNames] /\ f[0] = "code"
      /\ \A n \in 1 .. L : f[n] = ModeAfter(f[n - 1], source[n])
  BY <1>1, <1>3, <1>6 DEF Computes
<1>8. Solves(f)
  <2>1. \A n \in 0 .. L : n = 0 \/ n \in 1 .. L
    BY <1>1
  <2>2. \A n \in 0 .. L : f[n] = IF n = 0 THEN "code" ELSE ModeAfter(f[n - 1], source[n])
    BY <1>1, <1>7, <2>1
  <2> QED BY <1>7, <2>2
<1>9. Solves(modes)
  <2> HIDE DEF Solves
  <2> QED BY <1>8
<1> HIDE DEF modes
<1>10. /\ modes[0] = "code"
       /\ \A n \in 1 .. L : modes[n] = ModeAfter(modes[n - 1], source[n])
  <2>1. 0 \in 0 .. L
    BY <1>1
  <2> QED BY <1>1, <1>9, <2>1
<1> QED BY <1>2, <1>10 DEF L

\* Whether signs of a string stand behind a backslash.
LEMMA EscapedIs ==
  ASSUME NEW source \in Seq(Signs), NEW pos \in Nat
  PROVE  LET e == Escaped(source, pos)
         IN  \A n \in 1 .. Len(source) :
                e[n] = (n > pos /\ source[n - 1] = Escape /\ ~e[n - 1])
<1> DEFINE L == Len(source)
           Solves(g) == g = [n \in 0 .. L |-> n > pos /\ source[n - 1] = Escape /\ ~g[n - 1]]
           escaped == CHOOSE g : Solves(g)
           step == [x \in (1 .. L) \X BOOLEAN |->
                       x[1] > pos /\ source[x[1] - 1] = Escape /\ ~x[2]]
<1>1. L \in Nat /\ \A n \in 1 .. L : n \in 0 .. L /\ n - 1 \in 0 .. L /\ n # 0
  OBVIOUS
<1>2. Escaped(source, pos) = escaped
  BY DEF Escaped
<1>3. \A n \in 1 .. L, b \in BOOLEAN :
          /\ step[<<n, b>>] = (n > pos /\ source[n - 1] = Escape /\ ~b)
          /\ step[<<n, b>>] \in BOOLEAN
  OBVIOUS
<1> HIDE DEF L, step
<1>4. Stays(BOOLEAN, FALSE, L, step)
  BY <1>1, <1>3 DEF Stays
<1>5. PICK f : Computes(f, BOOLEAN, FALSE, L, step)
  BY <1>4, RecursionExists
<1>6. /\ f \in [0 .. L -> BOOLEAN] /\ f[0] = FALSE
      /\ \A n \in 1 .. L : f[n] = (n > pos /\ source[n - 1] = Escape /\ ~f[n - 1])
  BY <1>1, <1>3, <1>5 DEF Computes
<1>7. Solves(f)
  <2>1. \A n \in 0 .. L : n = 0 \/ n \in 1 .. L
    BY <1>1
  <2>2. ~(0 > pos)
    OBVIOUS
  <2>3. \A n \in 0 .. L : f[n] = (n > pos /\ source[n - 1] = Escape /\ ~f[n - 1])
    <3> SUFFICES ASSUME NEW n \in 0 .. L
                 PROVE  f[n] = (n > pos /\ source[n - 1] = Escape /\ ~f[n - 1])
      OBVIOUS
    <3>1. CASE n = 0
      BY <1>6, <2>2, <3>1
    <3>2. CASE n \in 1 .. L
      BY <1>6, <3>2
    <3> QED BY <2>1, <3>1, <3>2
  <2> QED BY <1>6, <2>3
<1>8. Solves(escaped)
  <2> HIDE DEF Solves
  <2> QED BY <1>7
<1> HIDE DEF escaped
<1>9. \A n \in 1 .. L : escaped[n] = (n > pos /\ source[n - 1] = Escape /\ ~escaped[n - 1])
  BY <1>1, <1>8
<1> QED BY <1>2, <1>9 DEF L

\* A mode is kept as long as no sign leads elsewhere.
LEMMA ModeKept ==
  ASSUME NEW source \in Seq(Signs), NEW a \in 0 .. Len(source), NEW b \in a .. Len(source),
         NEW mode, Modes(source)[a] = mode,
         \A i \in a + 1 .. b : ModeAfter(mode, source[i]) = mode
  PROVE  \A i \in a .. b : Modes(source)[i] = mode
<1> DEFINE N == b - a
           m == Modes(source)
           G == {n \in 0 .. N : m[a + n] = mode}
<1>1. N \in Nat /\ Len(source) \in Nat /\ a \in Nat /\ b \in Nat /\ a + 0 = a
  OBVIOUS
<1>2. \A n \in 1 .. Len(source) : m[n] = ModeAfter(m[n - 1], source[n])
  BY ModesAre
<1> HIDE DEF N, m
<1>3. 0 \in G
  BY <1>1 DEF m
<1>4. ASSUME NEW n \in 1 .. N, n - 1 \in G PROVE n \in G
  <2>1. /\ n \in 0 .. N /\ a + n \in 1 .. Len(source) /\ a + n \in a + 1 .. b
        /\ a + n - 1 = a + (n - 1)
    BY <1>1 DEF N
  <2>2. m[a + n] = ModeAfter(m[a + (n - 1)], source[a + n])
    BY <1>2, <2>1
  <2> QED BY <1>4, <2>1, <2>2
<1> HIDE DEF G
<1>5. 0 .. N \subseteq G
  BY <1>1, <1>3, <1>4, BoundedInduction
<1>6. ASSUME NEW i \in a .. b PROVE m[i] = mode
  <2>1. i - a \in 0 .. N /\ a + (i - a) = i
    BY <1>1 DEF N
  <2>2. m[a + (i - a)] = mode
    BY <1>5, <2>1 DEF G
  <2> QED BY <2>1, <2>2
<1> QED BY <1>6 DEF m

\* The references among the first signs of a source, and what is wanted of a sign.
References(source, n) ==
    {j \in 1 .. n : Modes(source)[j - 1] = "code" /\ source[j] = "VAR("}
WantedAt(source, i) ==
    IF Modes(source)[i - 1] = "argument" THEN <<>>
    ELSE IF Modes(source)[i] = "argument"
    THEN <<LuaName(Cardinality(References(source, i - 1)))>>
    ELSE <<source[i]>>

\* F has what is wanted of the first signs.
Wants(source, F) ==
    /\ F \in [0 .. Len(source) -> Seq(Texts)]
    /\ F[0] = <<>>
    /\ \A n \in 1 .. Len(source) : F[n] = F[n - 1] \o WantedAt(source, n)

\* References can be counted.
LEMMA ReferencesAre ==
  ASSUME NEW source, NEW n \in Nat
  PROVE  /\ IsFiniteSet(References(source, n)) /\ Cardinality(References(source, n)) \in Nat
         /\ References(source, n) \subseteq 1 .. n
<1>1. References(source, n) \subseteq 1 .. n
  BY DEF References
<1>2. IsFiniteSet(1 .. n)
  BY FS_Interval
<1> QED BY <1>1, <1>2, FS_Subset, FS_CardinalityType

\* What is wanted of a source is wanted sign by sign.
LEMMA WantedIs ==
  ASSUME NEW source \in Seq(Signs)
  PROVE  \E F : Wants(source, F) /\ Wanted(source) = F[Len(source)]
<1> DEFINE L == Len(source)
           q == [i \in DOMAIN source |-> WantedAt(source, i)]
<1>1. L \in Nat /\ DOMAIN source = 1 .. L /\ \A i \in 1 .. L : source[i] \in Signs
  OBVIOUS
<1>2. Wanted(source) = FlattenSeq(q)
  BY DEF Wanted, WantedAt, References
<1>3. \A i \in 1 .. L : WantedAt(source, i) \in Seq(Texts)
  <2> SUFFICES ASSUME NEW i \in 1 .. L PROVE WantedAt(source, i) \in Seq(Texts)
    OBVIOUS
  <2> DEFINE c == Cardinality(References(source, i - 1))
  <2>1. c \in Nat
    BY <1>1, ReferencesAre
  <2> HIDE DEF c
  <2>2. LuaName(c) \in Texts /\ source[i] \in Texts
    BY <1>1, <2>1 DEF Texts
  <2> QED BY <2>2 DEF WantedAt, c
<1>4. q \in Seq(Seq(Texts)) /\ Len(q) = L /\ \A i \in 1 .. L : q[i] = WantedAt(source, i)
  <2>1. q \in [1 .. L -> Seq(Texts)]
    BY <1>1, <1>3
  <2> QED BY <1>1, <2>1
<1> HIDE DEF q, L
<1>5. PICK F \in [0 .. L -> Seq(Texts)] :
          /\ F[0] = <<>> /\ FlattenSeq(q) = F[L]
          /\ \A n \in 1 .. L : F[n] = F[n - 1] \o q[n]
  BY <1>4, FlattenSteps
<1>6. Wants(source, F)
  BY <1>4, <1>5 DEF Wants, L
<1> QED BY <1>2, <1>5, <1>6 DEF L

\* One more sign is one more reference or none.
LEMMA NextReference ==
  ASSUME NEW source, NEW n \in Nat \ {0}
  PROVE  References(source, n) =
             References(source, n - 1)
                 \cup (IF Modes(source)[n - 1] = "code" /\ source[n] = "VAR(" THEN {n} ELSE {})
<1>1. \A j : j \in 1 .. n <=> j \in 1 .. n - 1 \/ j = n
  OBVIOUS
<1> QED BY <1>1 DEF References

\* It does not matter in which order texts are put together.
LEMMA TextsAreJoined ==
  \A u, v, w \in Seq(Texts) : (u \o v) \o w = u \o (v \o w)
<1> SUFFICES ASSUME NEW u \in Seq(Texts), NEW v \in Seq(Texts), NEW w \in Seq(Texts)
             PROVE  (u \o v) \o w = u \o (v \o w)
  OBVIOUS
<1> QED BY SMTT(30), ConcatAssociative

\* Text outside arguments is wanted as it is.
LEMMA TextIsWanted ==
  ASSUME NEW source \in Seq(Signs), NEW F, Wants(source, F),
         NEW p \in 1 .. Len(source), NEW end \in p + 1 .. Len(source) + 1,
         \A i \in p - 1 .. end - 1 : Modes(source)[i] # "argument"
  PROVE  /\ F[end - 1] = F[p - 1] \o SubSeq(source, p, end - 1)
         /\ References(source, end - 1) = References(source, p - 1)
<1> DEFINE L == Len(source)
           m == Modes(source)
           N == end - p
           Copied(n) == /\ F[p - 1 + n] = F[p - 1] \o SubSeq(source, p, p - 1 + n)
                        /\ References(source, p - 1 + n) = References(source, p - 1)
           G == {n \in 0 .. N : Copied(n)}
<1>1. /\ L \in Nat /\ N \in Nat /\ p \in Nat /\ end \in Nat /\ p - 1 \in 0 .. L
      /\ p - 1 + 0 = p - 1 /\ p - 1 + N = end - 1
  OBVIOUS
<1>2. /\ F \in [0 .. L -> Seq(Texts)]
      /\ \A n \in 1 .. L : F[n] = F[n - 1] \o WantedAt(source, n)
  BY DEF Wants
<1>3. \A n \in 1 .. L : m[n] = ModeAfter(m[n - 1], source[n])
  BY ModesAre
<1>4. Signs \subseteq Texts /\ source \in Seq(Texts)
  <2>1. Signs \subseteq Texts
    BY DEF Texts
  <2> QED BY <2>1, ListsGrow
<1> HIDE DEF m
<1>5. 0 \in G
  <2>1. SubSeq(source, p, p - 1) = <<>>
    BY <1>1, SubSeqEmpty
  <2>2. F[p - 1] \in Seq(Texts)
    BY <1>1, <1>2
  <2>3. F[p - 1] \o <<>> = F[p - 1]
    BY <2>2
  <2>4. Copied(0)
    BY <1>1, <2>1, <2>3
  <2> HIDE DEF Copied
  <2> QED BY <1>1, <2>4
<1>6. ASSUME NEW n \in 1 .. N, n - 1 \in G PROVE n \in G
  <2> DEFINE k == p - 1 + n
             before == F[p - 1]
             part == SubSeq(source, p, k - 1)
  <2>1. /\ k \in 1 .. L /\ k \in p .. L /\ k - 1 \in p - 1 .. end - 1 /\ k \in p - 1 .. end - 1
        /\ k - 1 = p - 1 + (n - 1) /\ k \in Nat \ {0} /\ n \in 0 .. N /\ n - 1 \in 0 .. N
    BY <1>1
  <2>2. Copied(n - 1)
    BY <1>6
  <2>3. F[k - 1] = before \o part /\ References(source, k - 1) = References(source, p - 1)
    BY <2>1, <2>2
  <2>4. m[k - 1] # "argument" /\ m[k] # "argument" /\ m[k] = ModeAfter(m[k - 1], source[k])
    BY <1>3, <2>1 DEF m
  <2>5. ~(m[k - 1] = "code" /\ source[k] = "VAR(")
    BY <2>4, ModesOutsideStrings DEF Comment
  <2>6. WantedAt(source, k) = <<source[k]>>
    BY <2>4 DEF WantedAt, m
  <2>7. SubSeq(source, p, k) = part \o <<source[k]>>
    BY <2>1, SubSeqRecursiveSecond
  <2>8. F[k] = (before \o part) \o <<source[k]>>
    BY <1>2, <2>1, <2>3, <2>6
  <2>9. before \in Seq(Texts) /\ part \in Seq(Texts) /\ source[k] \in Texts
    <3>1. \A i \in p .. k - 1 : source[i] \in Texts
      BY <1>1, <1>4, <2>1
    <3>2. p \in Int /\ k - 1 \in Int
      BY <1>1, <2>1
    <3> HIDE DEF k
    <3>3. part \in Seq(Texts)
      BY <3>1, <3>2, SubSeqProperties
    <3>4. before \in Seq(Texts)
      BY <1>1, <1>2
    <3>5. source[k] \in Texts
      BY <1>4, <2>1
    <3> QED BY <3>3, <3>4, <3>5
  <2>10. (before \o part) \o <<source[k]>> = before \o (part \o <<source[k]>>)
    <3> HIDE DEF before, part, k
    <3> DEFINE tail == <<source[k]>>
    <3>1. tail \in Seq(Texts)
      BY <2>9
    <3> HIDE DEF tail
    <3>2. (before \o part) \o tail = before \o (part \o tail)
      BY Zenon, <2>9, <3>1, TextsAreJoined
    <3> QED BY <3>2 DEF tail
  <2>11. References(source, k) = References(source, p - 1)
    <3> HIDE DEF k
    <3>1. References(source, k) = References(source, k - 1)
              \cup (IF m[k - 1] = "code" /\ source[k] = "VAR(" THEN {k} ELSE {})
      BY <2>1, NextReference DEF m
    <3> QED BY <2>3, <2>5, <3>1
  <2>12. Copied(n)
    BY <2>7, <2>8, <2>10, <2>11
  <2> HIDE DEF Copied
  <2> QED BY <2>1, <2>12
<1> HIDE DEF G
<1>7. 0 .. N \subseteq G
  BY <1>1, <1>5, <1>6, BoundedInduction
<1>8. Copied(N)
  <2> HIDE DEF Copied, N
  <2>1. N \in 0 .. N
    BY <1>1
  <2> QED BY <1>7, <2>1 DEF G
<1> QED BY <1>1, <1>8

\* Where the scanner stands between two turns a Lua reader takes what follows for code, or
\* is about to: a comment of a line ends with the line.
AtCode(source, pos) ==
    \/ pos = Len(source) + 1
    \/ Modes(source)[pos - 1] = "code"
    \/ source[pos] = "\n" /\ Modes(source)[pos - 1] \in {"dashes", "line"}

\* What the scanner copies in one turn.
IsText(source, pos, end) ==
    /\ \A i \in pos - 1 .. end - 1 : Modes(source)[i] # "argument"
    /\ AtCode(source, end)

\* A block comment is copied to its mark or to the end (FindBlockCommentEnd).
LEMMA BlockCommentIsText ==
  ASSUME NEW source \in Seq(Signs), NEW pos \in 1 .. Len(source), pos < Len(source),
         Modes(source)[pos - 1] = "code", source[pos] = Comment, source[pos + 1] = "[["
  PROVE  IsText(source, pos, FindBlockCommentEnd(source, pos))
<1> DEFINE N == Len(source)
           m == Modes(source)
           first == FirstFrom(source, pos + 2, "]]")
           end == FindBlockCommentEnd(source, pos)
<1>1. N \in Nat /\ pos \in Nat /\ pos + 1 \in 1 .. N /\ (pos + 1) - 1 = pos /\ pos + 2 \in Nat
  OBVIOUS
<1>2. \A n \in 1 .. N : m[n] = ModeAfter(m[n - 1], source[n])
  BY ModesAre
<1>3. /\ \/ first = N + 1 /\ end = N + 1
         \/ first \in pos + 2 .. N /\ end = first + 1
      /\ end \in pos + 1 .. N + 1
  BY BlockEndIs
<1>4. /\ first # N + 1 => first \in pos + 2 .. N /\ source[first] = "]]"
      /\ \A i \in pos + 2 .. N : i < first => source[i] # "]]"
  BY <1>1, FirstFromIs
<1> HIDE DEF first, end
<1>5. m[pos - 1] = "code" /\ m[pos] = "dashes" /\ m[pos + 1] = "block"
  <2>1. m[pos] = "dashes"
    BY <1>1, <1>2, ModesOutsideStrings
  <2>2. m[pos + 1] = ModeAfter("dashes", "[[")
    BY <1>1, <1>2, <2>1
  <2> QED BY <2>1, <2>2, ModesOutsideStrings
<1>6. \A i \in pos + 1 .. first - 1 : m[i] = "block"
  <2>1. first - 1 \in pos + 1 .. N /\ pos + 1 \in 0 .. N
    BY <1>1, <1>3
  <2>2. \A i \in (pos + 1) + 1 .. first - 1 : ModeAfter("block", source[i]) = "block"
    <3> SUFFICES ASSUME NEW i \in (pos + 1) + 1 .. first - 1
                 PROVE  ModeAfter("block", source[i]) = "block"
      OBVIOUS
    <3>1. source[i] # "]]"
      BY <1>1, <1>3, <1>4
    <3> QED BY <3>1, ModesOutsideStrings
  <2> QED BY <1>5, <2>1, <2>2, ModeKept
<1>7. CASE first = N + 1
  <2>1. end = N + 1
    BY <1>1, <1>3, <1>7
  <2>2. \A i \in pos - 1 .. end - 1 : i = pos - 1 \/ i = pos \/ i \in pos + 1 .. first - 1
    BY <1>1, <1>7, <2>1
  <2>3. \A i \in pos - 1 .. end - 1 : m[i] # "argument"
    BY <1>5, <1>6, <2>2
  <2> QED BY <2>1, <2>3 DEF IsText, AtCode, end
<1>8. CASE first # N + 1
  <2>1. first \in pos + 2 .. N /\ end = first + 1 /\ first \in 1 .. N /\ source[first] = "]]"
    BY <1>1, <1>3, <1>4, <1>8
  <2>2. m[first] = "code"
    <3>1. m[first - 1] = "block"
      BY <1>1, <1>6, <2>1
    <3>2. m[first] = ModeAfter("block", "]]")
      BY <1>2, <2>1, <3>1
    <3> QED BY <3>2, ModesOutsideStrings
  <2>3. \A i \in pos - 1 .. end - 1 :
            i = pos - 1 \/ i = pos \/ i \in pos + 1 .. first - 1 \/ i = first
    BY <1>1, <2>1
  <2>4. \A i \in pos - 1 .. end - 1 : m[i] # "argument"
    BY <1>5, <1>6, <2>2, <2>3
  <2>5. m[end - 1] = "code"
    BY <2>1, <2>2
  <2> QED BY <2>4, <2>5 DEF IsText, AtCode, end
<1> QED BY <1>7, <1>8

\* A comment is copied to the end of its line (FindLineCommentEnd).
LEMMA LineCommentIsText ==
  ASSUME NEW source \in Seq(Signs), NEW pos \in 1 .. Len(source),
         Modes(source)[pos - 1] = "code", source[pos] = Comment,
         ~(pos < Len(source) /\ source[pos + 1] = "[[")
  PROVE  IsText(source, pos, FindLineCommentEnd(source, pos))
<1> DEFINE N == Len(source)
           m == Modes(source)
           end == FindLineCommentEnd(source, pos)
<1>1. N \in Nat /\ pos \in Nat /\ pos <= N
  OBVIOUS
<1>2. \A n \in 1 .. N : m[n] = ModeAfter(m[n - 1], source[n])
  BY ModesAre
<1>3. /\ end \in Nat /\ end <= N + 1
      /\ end # N + 1 => end \in pos .. N /\ source[end] = "\n"
      /\ \A i \in pos .. N : i < end => source[i] # "\n"
  BY <1>1, FirstFromIs DEF FindLineCommentEnd
<1> HIDE DEF end
<1>4. end # pos
  BY <1>1, <1>3 DEF Comment
<1>5. end \in pos + 1 .. N + 1
  BY <1>1, <1>3, <1>4
<1>6. m[pos - 1] = "code" /\ m[pos] = "dashes"
  BY <1>1, <1>2, ModesOutsideStrings
<1>7. CASE end = pos + 1
  <2>1. \A i \in pos - 1 .. end - 1 : i = pos - 1 \/ i = pos
    BY <1>1, <1>7
  <2>2. \A i \in pos - 1 .. end - 1 : m[i] # "argument"
    BY <1>6, <2>1
  <2>3. end - 1 = pos
    BY <1>1, <1>7
  <2>4. AtCode(source, end)
    BY <1>3, <1>6, <2>3 DEF AtCode
  <2> QED BY <2>2, <2>4 DEF IsText, end
<1>8. CASE end # pos + 1
  <2>1. pos + 1 \in 1 .. N /\ (pos + 1) - 1 = pos /\ pos + 1 < end
        /\ end - 1 \in pos + 1 .. N /\ pos + 1 \in 0 .. N /\ pos < N
    BY <1>1, <1>5, <1>8
  <2>2. m[pos + 1] = "line"
    <3>1. source[pos + 1] # "\n" /\ source[pos + 1] # "[["
      BY <1>1, <1>3, <2>1
    <3>2. m[pos + 1] = ModeAfter("dashes", source[pos + 1])
      BY <1>2, <1>6, <2>1
    <3> QED BY <3>1, <3>2, ModesOutsideStrings
  <2>3. \A i \in pos + 1 .. end - 1 : m[i] = "line"
    <3>1. \A i \in (pos + 1) + 1 .. end - 1 : ModeAfter("line", source[i]) = "line"
      <4> SUFFICES ASSUME NEW i \in (pos + 1) + 1 .. end - 1
                   PROVE  ModeAfter("line", source[i]) = "line"
        OBVIOUS
      <4>1. source[i] # "\n"
        BY <1>1, <1>3, <1>5
      <4> QED BY <4>1, ModesOutsideStrings
    <3> QED BY <2>1, <2>2, <3>1, ModeKept
  <2>4. \A i \in pos - 1 .. end - 1 : i = pos - 1 \/ i = pos \/ i \in pos + 1 .. end - 1
    BY <1>1, <1>5
  <2>5. \A i \in pos - 1 .. end - 1 : m[i] # "argument"
    BY <1>6, <2>3, <2>4
  <2>6. m[end - 1] = "line"
    BY <2>1, <2>3
  <2>7. AtCode(source, end)
    BY <1>3, <2>6 DEF AtCode
  <2> QED BY <2>5, <2>7 DEF IsText, end
<1> QED BY <1>7, <1>8

\* A string that does not end yet: its signs behind a backslash are those that the scanner
\* takes for escaped.
LEMMA StringIsText ==
  ASSUME NEW source \in Seq(Signs), NEW pos \in 1 .. Len(source),
         Modes(source)[pos - 1] = "code", source[pos] \in Quotes
  PROVE  IsText(source, pos, FindStringEnd(source, pos + 1, source[pos]))
<1> DEFINE N == Len(source)
           m == Modes(source)
           quote == source[pos]
           escaped == Escaped(source, pos + 1)
           ends == {n \in pos + 1 .. N : source[n] = quote /\ ~escaped[n]}
           end == FindStringEnd(source, pos + 1, quote)
           last == IF ends = {} THEN N ELSE Min(ends) - 1
           InIt(n) == m[n - 1] = IF escaped[n] THEN BehindEscape(quote) ELSE InString(quote)
           G == {k \in 0 .. last - pos : pos + k + 1 > N \/ InIt(pos + k + 1)}
<1>1. N \in Nat /\ pos \in Nat /\ pos <= N /\ pos + 1 \in Nat
  OBVIOUS
<1>2. \A n \in 1 .. N : m[n] = ModeAfter(m[n - 1], source[n])
  BY ModesAre
<1>3. \A n \in 1 .. N :
          escaped[n] = (n > pos + 1 /\ source[n - 1] = Escape /\ ~escaped[n - 1])
  BY <1>1, EscapedIs
<1>4. end = IF ends = {} THEN N + 1 ELSE Min(ends) + 1
  BY DEF FindStringEnd
<1>5. /\ ends # {} => Min(ends) \in ends /\ \A i \in ends : Min(ends) <= i
      /\ ends \subseteq pos + 1 .. N
  <2>1. ends \subseteq pos + 1 .. N /\ ends \subseteq 0 .. N
    BY <1>1
  <2> HIDE DEF ends
  <2> QED BY <1>1, <2>1, MaxIsGreatest
<1>6. /\ last \in pos .. N
      /\ \A n \in pos + 1 .. last : source[n] # quote \/ escaped[n]
      /\ ends = {} => last = N /\ end = N + 1
      /\ ends # {} => /\ last + 1 \in pos + 1 .. N /\ end = last + 2
                      /\ source[last + 1] = quote /\ ~escaped[last + 1]
  <2> DEFINE first == Min(ends)
  <2>1. CASE ends = {}
    <3>1. last = N /\ end = N + 1
      BY <1>4, <2>1
    <3>2. \A n \in pos + 1 .. N : source[n] # quote \/ escaped[n]
      BY <2>1
    <3> HIDE DEF ends, last, end
    <3> QED BY <1>1, <2>1, <3>1, <3>2
  <2>2. CASE ends # {}
    <3>1. first \in ends /\ \A i \in ends : first <= i
      BY <1>5, <2>2
    <3>2. last = first - 1 /\ end = first + 1
      BY <1>4, <2>2
    <3>3. first \in pos + 1 .. N /\ source[first] = quote /\ ~escaped[first]
      BY <3>1
    <3>4. \A n \in pos + 1 .. N : n < first => source[n] # quote \/ escaped[n]
      <4> SUFFICES ASSUME NEW n \in pos + 1 .. N, n < first, source[n] = quote, ~escaped[n]
                   PROVE  FALSE
        OBVIOUS
      <4>1. n \in ends
        OBVIOUS
      <4> HIDE DEF first, ends
      <4>2. first <= n
        BY <3>1, <4>1
      <4> QED BY <1>1, <3>3, <4>2
    <3> HIDE DEF first, ends, last, end
    <3>5. last + 1 = first /\ last + 2 = first + 1 /\ last \in pos .. N
      BY <1>1, <3>2, <3>3
    <3>6. \A n \in pos + 1 .. last : n \in pos + 1 .. N /\ n < first
      BY <1>1, <3>3, <3>5
    <3> QED BY <2>2, <3>2, <3>3, <3>4, <3>5, <3>6
  <2> QED BY <2>1, <2>2
<1> HIDE DEF ends, last, end, escaped, quote
<1>7. m[pos - 1] = "code" /\ m[pos] = InString(quote)
  <2>1. m[pos] = ModeAfter("code", quote)
    BY <1>1, <1>2 DEF quote
  <2>2. quote \in Quotes /\ quote # Comment /\ quote # "VAR("
    BY DEF quote, Quotes, Comment
  <2> QED BY <2>1, <2>2, ModesOutsideStrings
<1>8. quote \in Quotes /\ quote # Escape
  BY DEF quote, Quotes, Escape
<1>9. ASSUME NEW n \in pos + 1 .. last, InIt(n), n < N PROVE InIt(n + 1)
  <2>1. /\ n \in 1 .. N /\ n + 1 \in 1 .. N /\ (n + 1) - 1 = n /\ n + 1 > pos + 1
    BY <1>1, <1>6, <1>9
  <2>2. escaped[n + 1] = (source[n] = Escape /\ ~escaped[n])
    BY <1>3, <2>1
  <2>3. m[n] = ModeAfter(m[n - 1], source[n])
    BY <1>2, <2>1
  <2>4. CASE escaped[n]
    <3>1. m[n] = InString(quote)
      BY <1>8, <1>9, <2>3, <2>4, ModesInStrings
    <3> QED BY <2>1, <2>2, <2>4, <3>1
  <2>5. CASE ~escaped[n]
    <3>1. source[n] # quote
      BY <1>6, <2>5
    <3>2. m[n - 1] = InString(quote)
      BY <1>9, <2>5
    <3>3. m[n] = IF source[n] = Escape THEN BehindEscape(quote) ELSE InString(quote)
      BY <1>8, <2>3, <3>1, <3>2, ModesInStrings
    <3> QED BY <2>1, <2>2, <2>5, <3>3
  <2> QED BY <2>4, <2>5
<1> HIDE DEF m
<1>10. 0 \in G
  <2>1. 0 \in 0 .. last - pos /\ pos + 0 + 1 = pos + 1
    BY <1>1, <1>6
  <2>2. pos + 1 \in 1 .. N => InIt(pos + 1)
    <3> SUFFICES ASSUME pos + 1 \in 1 .. N PROVE InIt(pos + 1)
      OBVIOUS
    <3>1. ~escaped[pos + 1]
      <4>1. ~(pos + 1 > pos + 1)
        BY <1>1
      <4>2. escaped[pos + 1] = (/\ pos + 1 > pos + 1 /\ source[(pos + 1) - 1] = Escape
                                /\ ~escaped[(pos + 1) - 1])
        BY <1>3
      <4> QED BY <4>1, <4>2
    <3>2. (pos + 1) - 1 = pos
      BY <1>1
    <3> QED BY <1>7, <3>1, <3>2
  <2>3. pos + 1 > N \/ InIt(pos + 1)
    BY <1>1, <2>2
  <2> HIDE DEF InIt
  <2> QED BY <2>1, <2>3
<1>11. ASSUME NEW k \in 1 .. last - pos, k - 1 \in G PROVE k \in G
  <2>1. /\ k \in 0 .. last - pos /\ pos + (k - 1) + 1 = pos + k /\ pos + k \in pos + 1 .. last
        /\ pos + k <= N
    BY <1>1, <1>6
  <2> HIDE DEF InIt
  <2>2. InIt(pos + k)
    <3>1. ~(pos + k > N)
      BY <1>1, <2>1
    <3> QED BY <1>11, <2>1, <3>1
  <2>3. pos + k + 1 > N \/ InIt(pos + k + 1)
    BY <1>1, <1>6, <1>9, <2>1, <2>2
  <2> QED BY <2>1, <2>3
<1> HIDE DEF G
<1>12. 0 .. last - pos \subseteq G
  <2>1. last - pos \in Nat
    BY <1>1, <1>6
  <2> QED BY <1>10, <1>11, <2>1, BoundedInduction
<1>13. ASSUME NEW n \in pos .. last, n < N PROVE InIt(n + 1)
  <2>1. n - pos \in 0 .. last - pos /\ pos + (n - pos) = n /\ ~(n + 1 > N)
    BY <1>1, <1>6, <1>13
  <2> HIDE DEF InIt
  <2> QED BY <1>12, <2>1 DEF G
<1>14. \A n \in pos .. last : n < N => m[n] \in {InString(quote), BehindEscape(quote)}
  <2> SUFFICES ASSUME NEW n \in pos .. last, n < N
               PROVE  m[n] \in {InString(quote), BehindEscape(quote)}
    OBVIOUS
  <2>1. InIt(n + 1) /\ (n + 1) - 1 = n
    BY <1>1, <1>6, <1>13
  <2> QED BY <2>1
<1>15. /\ InString(quote) # "argument" /\ BehindEscape(quote) # "argument"
  BY DEF InString, BehindEscape
<1>16. CASE ends = {}
  <2>1. end = N + 1 /\ last = N
    BY <1>6, <1>16
  <2>2. m[N] # "argument"
    <3>1. CASE N = pos
      BY <1>7, <1>15, <3>1
    <3>2. CASE N # pos
      <4>1. /\ N \in 1 .. N /\ N - 1 \in pos .. last /\ N - 1 < N /\ (N - 1) + 1 = N
            /\ N \in pos + 1 .. last
        BY <1>1, <2>1, <3>2
      <4>2. InIt(N) /\ m[N] = ModeAfter(m[N - 1], source[N])
        BY <1>2, <1>13, <4>1 DEF m
      <4>3. m[N] \in {"code", InString(quote), BehindEscape(quote)}
        <5>1. CASE escaped[N]
          BY <1>8, <4>2, <5>1, ModesInStrings
        <5>2. CASE ~escaped[N]
          BY <1>8, <4>2, <5>2, ModesInStrings
        <5> QED BY <5>1, <5>2
      <4> QED BY <1>15, <4>3
    <3> QED BY <3>1, <3>2
  <2>3. \A i \in pos - 1 .. N : i = pos - 1 \/ i = N \/ (i \in pos .. last /\ i < N)
    BY <1>1, <2>1
  <2>4. \A i \in pos - 1 .. N : m[i] # "argument"
    BY <1>7, <1>14, <1>15, <2>2, <2>3
  <2>5. end - 1 = N
    BY <1>1, <2>1
  <2> QED BY <2>1, <2>4, <2>5 DEF IsText, AtCode, m, end, quote
<1>17. CASE ends # {}
  <2>1. /\ last + 1 \in pos + 1 .. N /\ end = last + 2 /\ end - 1 = last + 1
        /\ source[last + 1] = quote /\ ~escaped[last + 1] /\ last \in pos .. last /\ last < N
        /\ last + 1 \in 1 .. N /\ (last + 1) - 1 = last
    BY <1>1, <1>6, <1>17
  <2>2. m[last] = InString(quote)
    BY <1>13, <2>1
  <2>3. m[last + 1] = "code"
    <3>1. m[last + 1] = ModeAfter(InString(quote), quote)
      BY <1>2, <2>1, <2>2 DEF m
    <3> QED BY <1>8, <3>1, ModesInStrings
  <2>4. \A i \in pos - 1 .. end - 1 :
            i = pos - 1 \/ i = last + 1 \/ (i \in pos .. last /\ i < N)
    BY <1>1, <1>6, <2>1
  <2>5. \A i \in pos - 1 .. end - 1 : m[i] # "argument"
    BY <1>7, <1>14, <1>15, <2>3, <2>4
  <2>6. m[end - 1] = "code"
    BY <2>1, <2>3
  <2> QED BY <2>5, <2>6 DEF IsText, AtCode, m, end, quote
<1> QED BY <1>16, <1>17

\* Whatever begins no reference is copied as text outside references.
LEMMA SignsAreText ==
  ASSUME NEW source \in Seq(Signs), NEW pos \in 1 .. Len(source), AtCode(source, pos),
         source[pos] # "VAR("
  PROVE  IsText(source, pos, TextEnd(source, pos))
<1> DEFINE N == Len(source)
           m == Modes(source)
<1>1. N \in Nat /\ pos \in Nat /\ pos # N + 1
  OBVIOUS
<1>2. m[pos] = ModeAfter(m[pos - 1], source[pos])
  BY ModesAre
<1>3. \/ m[pos - 1] = "code"
      \/ source[pos] = "\n" /\ m[pos - 1] \in {"dashes", "line"}
  BY <1>1 DEF AtCode
<1>4. CASE source[pos] = Comment
  <2>1. m[pos - 1] = "code"
    BY <1>3, <1>4 DEF Comment
  <2>2. CASE pos < N /\ source[pos + 1] = "[["
    <3>1. TextEnd(source, pos) = FindBlockCommentEnd(source, pos)
      BY <1>4, <2>2 DEF TextEnd
    <3> QED BY <1>4, <2>1, <2>2, <3>1, BlockCommentIsText
  <2>3. CASE ~(pos < N /\ source[pos + 1] = "[[")
    <3>1. TextEnd(source, pos) = FindLineCommentEnd(source, pos)
      BY <1>4, <2>3 DEF TextEnd
    <3> QED BY <1>4, <2>1, <2>3, <3>1, LineCommentIsText
  <2> QED BY <2>2, <2>3
<1>5. CASE source[pos] # Comment /\ source[pos] \in Quotes
  <2>1. m[pos - 1] = "code"
    BY <1>3, <1>5 DEF Quotes
  <2>2. TextEnd(source, pos) = FindStringEnd(source, pos + 1, source[pos])
    BY <1>5 DEF TextEnd
  <2> QED BY <1>5, <2>1, <2>2, StringIsText
<1>6. CASE source[pos] # Comment /\ source[pos] \notin Quotes
  <2>1. TextEnd(source, pos) = pos + 1
    BY <1>6 DEF TextEnd
  <2>2. m[pos] = "code"
    <3>1. CASE m[pos - 1] = "code"
      BY <1>2, <1>6, <3>1, ModesOutsideStrings
    <3>2. CASE source[pos] = "\n" /\ m[pos - 1] = "dashes"
      BY <1>2, <3>2, ModesOutsideStrings
    <3>3. CASE source[pos] = "\n" /\ m[pos - 1] = "line"
      BY <1>2, <3>3, ModesOutsideStrings
    <3> QED BY <1>3, <3>1, <3>2, <3>3
  <2>3. m[pos - 1] # "argument"
    BY <1>3
  <2>4. \A i \in pos - 1 .. pos : i = pos - 1 \/ i = pos
    BY <1>1
  <2>5. (pos + 1) - 1 = pos
    BY <1>1
  <2>6. AtCode(source, pos + 1)
    BY <2>2, <2>5 DEF AtCode
  <2>7. \A i \in pos - 1 .. (pos + 1) - 1 : m[i] # "argument"
    BY <2>2, <2>3, <2>4, <2>5
  <2> QED BY <2>1, <2>6, <2>7 DEF IsText
<1> QED BY <1>4, <1>5, <1>6

\* A reference that is closed is wanted as the next name.
LEMMA ReferenceIsWanted ==
  ASSUME NEW source \in Seq(Signs), NEW F, Wants(source, F),
         NEW pos \in 1 .. Len(source), AtCode(source, pos), source[pos] = "VAR(",
         FirstFrom(source, pos + 1, ")") \in pos + 1 .. Len(source)
  PROVE  LET close == FirstFrom(source, pos + 1, ")")
             before == Cardinality(References(source, pos - 1))
         IN  /\ Modes(source)[close] = "code"
             /\ F[close] = Append(F[pos - 1], LuaName(before))
             /\ Cardinality(References(source, close)) = before + 1
<1> DEFINE N == Len(source)
           m == Modes(source)
           close == FirstFrom(source, pos + 1, ")")
           name == LuaName(Cardinality(References(source, pos - 1)))
<1>1. /\ N \in Nat /\ pos \in Nat /\ pos # N + 1 /\ pos + 1 \in Nat
      /\ pos - 1 \in Nat /\ pos - 1 \in 0 .. N /\ pos \in Nat \ {0}
  OBVIOUS
<1>2. \A n \in 1 .. N : m[n] = ModeAfter(m[n - 1], source[n])
  BY ModesAre
<1>3. /\ F \in [0 .. N -> Seq(Texts)]
      /\ \A n \in 1 .. N : F[n] = F[n - 1] \o WantedAt(source, n)
  BY DEF Wants
<1>4. m[pos - 1] = "code" /\ m[pos] = "argument"
  <2>1. m[pos - 1] = "code"
    BY <1>1 DEF AtCode
  <2>2. m[pos] = ModeAfter("code", "VAR(")
    BY <1>1, <1>2, <2>1
  <2> QED BY <2>1, <2>2, ModesOutsideStrings DEF Comment
<1>5. /\ close \in pos + 1 .. N /\ source[close] = ")"
      /\ \A i \in pos + 1 .. N : i < close => source[i] # ")"
  <2>1. /\ close # N + 1 => close \in pos + 1 .. N /\ source[close] = ")"
        /\ \A i \in pos + 1 .. N : i < close => source[i] # ")"
    BY <1>1, FirstFromIs
  <2> QED BY <1>1, <2>1
<1> HIDE DEF close
<1>6. \A i \in pos .. close - 1 : m[i] = "argument"
  <2>1. close - 1 \in pos .. N /\ pos \in 0 .. N
    BY <1>1, <1>5
  <2>2. \A i \in pos + 1 .. close - 1 : ModeAfter("argument", source[i]) = "argument"
    <3> SUFFICES ASSUME NEW i \in pos + 1 .. close - 1
                 PROVE  ModeAfter("argument", source[i]) = "argument"
      OBVIOUS
    <3>1. source[i] # ")"
      BY <1>1, <1>5
    <3> QED BY <3>1, ModesOutsideStrings
  <2> QED BY <1>4, <2>1, <2>2, ModeKept
<1>7. m[close] = "code"
  <2>1. close \in 1 .. N /\ close - 1 \in pos .. close - 1
    BY <1>1, <1>5
  <2>2. m[close] = ModeAfter("argument", ")")
    BY <1>2, <1>5, <1>6, <2>1
  <2> QED BY <2>2, ModesOutsideStrings
<1>8. name \in Texts
  <2>1. Cardinality(References(source, pos - 1)) \in Nat
    BY <1>1, ReferencesAre
  <2> QED BY <2>1 DEF Texts
<1>9. F[pos] = Append(F[pos - 1], name) /\ F[pos] \in Seq(Texts)
  <2>1. WantedAt(source, pos) = <<name>>
    BY <1>4 DEF WantedAt
  <2>2. F[pos] = F[pos - 1] \o <<name>> /\ F[pos - 1] \in Seq(Texts) /\ F[pos] \in Seq(Texts)
    <3>1. pos \in 0 .. N /\ pos - 1 \in 0 .. N
      BY <1>1
    <3>2. F[pos] = F[pos - 1] \o WantedAt(source, pos)
      BY <1>3
    <3> HIDE DEF name, N
    <3> QED BY <1>3, <2>1, <3>1, <3>2
  <2> HIDE DEF name
  <2>3. F[pos - 1] \o <<name>> = Append(F[pos - 1], name)
    BY <1>8, <2>2
  <2> QED BY <2>2, <2>3
<1>10. References(source, pos) = References(source, pos - 1) \cup {pos}
  BY <1>1, <1>4, NextReference
<1> HIDE DEF m, name
<1> DEFINE M == close - pos
           G == {n \in 0 .. M : /\ F[pos + n] = F[pos]
                                /\ References(source, pos + n) = References(source, pos)}
<1>11. M \in Nat /\ pos + 0 = pos /\ pos + M = close /\ M \in 0 .. M
  BY <1>1, <1>5
<1> HIDE DEF M
<1>12. 0 \in G
  BY <1>11
<1>13. ASSUME NEW n \in 1 .. M, n - 1 \in G PROVE n \in G
  <2> DEFINE k == pos + n
  <2>1. /\ k \in 1 .. N /\ k - 1 \in pos .. close - 1 /\ k - 1 = pos + (n - 1)
        /\ k \in Nat \ {0} /\ n \in 0 .. M
    BY <1>1, <1>5 DEF M
  <2>2. /\ F[k - 1] = F[pos] /\ References(source, k - 1) = References(source, pos)
    BY <1>13, <2>1
  <2> HIDE DEF k, G
  <2>3. m[k - 1] = "argument"
    BY <1>6, <2>1
  <2>4. WantedAt(source, k) = <<>>
    BY <2>3 DEF WantedAt, m
  <2>5. F[k] = F[pos] \o <<>>
    BY <1>3, <2>1, <2>2, <2>4
  <2>6. F[k] = F[pos]
    BY <1>9, <2>5
  <2>7. References(source, k) = References(source, k - 1)
            \cup (IF m[k - 1] = "code" /\ source[k] = "VAR(" THEN {k} ELSE {})
    BY <2>1, NextReference DEF m
  <2>8. References(source, k) = References(source, pos)
    BY <2>2, <2>3, <2>7
  <2> QED BY <2>1, <2>6, <2>8 DEF G, k
<1> HIDE DEF G
<1>14. 0 .. M \subseteq G
  BY <1>11, <1>12, <1>13, BoundedInduction
<1>15. F[close] = F[pos] /\ References(source, close) = References(source, pos)
  BY <1>11, <1>14 DEF G
<1>16. Cardinality(References(source, close)) = Cardinality(References(source, pos - 1)) + 1
  <2>1. pos \notin References(source, pos - 1) /\ IsFiniteSet(References(source, pos - 1))
    <3>1. References(source, pos - 1) \subseteq 1 .. pos - 1
          /\ IsFiniteSet(References(source, pos - 1))
      BY <1>1, ReferencesAre
    <3>2. pos \notin 1 .. pos - 1
      BY <1>1
    <3> QED BY <3>1, <3>2
  <2> DEFINE R == References(source, pos - 1)
  <2>2. Cardinality(R \cup {pos}) = Cardinality(R) + 1
    BY <2>1, FS_AddElement
  <2> QED BY <1>10, <1>15, <2>2
<1> QED BY <1>7, <1>9, <1>15, <1>16 DEF m, name, close

\* As long as nothing is refused the scanner has made what is wanted of what it has read.
Follows(source, F, s) ==
    s.valid => /\ s.code = F[s.pos - 1]
               /\ s.next = Cardinality(References(source, s.pos - 1))
               /\ AtCode(source, s.pos)

\* A turn of the loop makes what is wanted of what it reads.
LEMMA ScanFollows ==
  ASSUME NEW source \in Seq(Signs), NEW F, Wants(source, F),
         NEW s \in States(source), Follows(source, F, s)
  PROVE  Follows(source, F, Scan(source, s))
<1> DEFINE t == Scan(source, s)
           N == Len(source)
<1>1. N \in Nat /\ s.pos \in 1 .. N + 1 /\ s.valid \in BOOLEAN
  BY DEF States
<1>2. CASE s.pos = N + 1 \/ ~s.valid
  <2>1. t = s
    BY <1>2, ScanIs
  <2> QED BY <2>1
<1>3. CASE s.pos \in 1 .. N /\ s.valid /\ source[s.pos] = "VAR("
  <2> DEFINE close == FirstFrom(source, s.pos + 1, ")")
  <2>1. t = ReplaceReference(source, s) /\ s.pos <= N
    BY <1>3, ScanIs
  <2>2. /\ s.code = F[s.pos - 1] /\ s.next = Cardinality(References(source, s.pos - 1))
        /\ AtCode(source, s.pos)
    BY <1>3 DEF Follows
  <2>3. \/ ~t.valid
        \/ /\ close \in s.pos + 1 .. N /\ t.pos = close + 1
           /\ t.code = Append(s.code, LuaName(s.next)) /\ t.next = s.next + 1
    <3> HIDE DEF t
    <3> QED BY <2>1, ReferenceIs
  <2> HIDE DEF t
  <2>4. CASE ~t.valid
    BY <2>4 DEF Follows, t
  <2>5. CASE /\ close \in s.pos + 1 .. N /\ t.pos = close + 1
             /\ t.code = Append(s.code, LuaName(s.next)) /\ t.next = s.next + 1
    <3>1. /\ Modes(source)[close] = "code"
          /\ F[close] = Append(F[s.pos - 1], LuaName(Cardinality(References(source, s.pos - 1))))
          /\ Cardinality(References(source, close)) =
                Cardinality(References(source, s.pos - 1)) + 1
      BY <1>3, <2>2, <2>5, ReferenceIsWanted
    <3> HIDE DEF close
    <3>2. t.pos - 1 = close
      BY <1>1, <2>5
    <3>3. AtCode(source, t.pos)
      BY <3>1, <3>2 DEF AtCode
    <3>4. t.code = F[t.pos - 1] /\ t.next = Cardinality(References(source, t.pos - 1))
      BY <2>2, <2>5, <3>1, <3>2
    <3> QED BY <3>3, <3>4 DEF Follows, t
  <2> QED BY <2>3, <2>4, <2>5
<1>4. CASE s.pos \in 1 .. N /\ s.valid /\ source[s.pos] # "VAR("
  <2> DEFINE end == TextEnd(source, s.pos)
  <2>1. t = CopyTo(source, s, end)
    BY <1>4, ScanIs
  <2>2. end \in s.pos + 1 .. N + 1
    BY <1>4, TextEndIs
  <2>3. end \in s.pos .. N + 1
    BY <1>1, <2>2
  <2>4. /\ s.code = F[s.pos - 1] /\ s.next = Cardinality(References(source, s.pos - 1))
        /\ AtCode(source, s.pos)
    BY <1>4 DEF Follows
  <2>5. IsText(source, s.pos, end)
    BY <1>4, <2>4, SignsAreText
  <2> HIDE DEF end, t
  <2>6. /\ t.pos = end /\ t.next = s.next
        /\ t.code = s.code \o SubSeq(source, s.pos, end - 1)
    <3>1. t = [pos |-> end, valid |-> s.valid,
               code |-> s.code \o SubSeq(source, s.pos, end - 1),
               names |-> s.names, dependencies |-> s.dependencies, next |-> s.next]
      BY <2>1, <2>3, CopyIs
    <3> QED BY <3>1
  <2>7. /\ F[end - 1] = F[s.pos - 1] \o SubSeq(source, s.pos, end - 1)
        /\ References(source, end - 1) = References(source, s.pos - 1)
    BY <1>4, <2>2, <2>5, TextIsWanted DEF IsText
  <2>8. AtCode(source, t.pos)
    BY <2>5, <2>6 DEF IsText
  <2>9. t.code = F[t.pos - 1] /\ t.next = Cardinality(References(source, t.pos - 1))
    BY <2>4, <2>6, <2>7
  <2> QED BY <2>8, <2>9 DEF Follows, t
<1> QED BY <1>1, <1>2, <1>3, <1>4, ScanIs

\* A source that is prepared from the first index on becomes what is wanted.
LEMMA ScannedIsWanted ==
  ASSUME NEW source \in Seq(Signs), Scanned(source, 0).valid
  PROVE  Scanned(source, 0).code = Wanted(source)
<1> DEFINE N == Len(source)
<1>1. N \in Nat /\ 0 \in Nat
  OBVIOUS
<1>2. PICK F : Wants(source, F) /\ Wanted(source) = F[N]
  BY WantedIs
<1>3. PICK f \in [0 .. N -> States(source)] :
          /\ f[0] = Begun(0) /\ Scanned(source, 0) = f[N]
          /\ \A n \in 1 .. N : f[n] = Scan(source, f[n - 1])
  BY <1>1, ScannedIs
<1> HIDE DEF N
<1> DEFINE G == {n \in 0 .. N : Follows(source, F, f[n])}
<1>4. 0 \in G
  <2> DEFINE s == Begun(0)
  <2>1. s.pos = 1 /\ s.code = <<>> /\ s.next = 0
    BY DEF Begun
  <2>2. Modes(source)[0] = "code"
    BY ModesAre
  <2>3. Cardinality(References(source, 0)) = 0
    <3>1. References(source, 0) = {}
      <4>1. 1 .. 0 = {}
        OBVIOUS
      <4> QED BY <4>1 DEF References
    <3> QED BY <3>1, FS_EmptySet
  <2>4. F[0] = <<>>
    BY <1>2 DEF Wants
  <2> HIDE DEF s
  <2>5. s.pos - 1 = 0
    BY <2>1
  <2>6. AtCode(source, s.pos)
    BY <2>2, <2>5 DEF AtCode
  <2>7. Follows(source, F, s)
    BY <2>1, <2>3, <2>4, <2>5, <2>6 DEF Follows
  <2>8. 0 \in 0 .. N
    BY <1>1
  <2> QED BY <1>3, <2>7, <2>8 DEF s
<1>5. ASSUME NEW n \in 1 .. N, n - 1 \in G PROVE n \in G
  <2>1. n \in 0 .. N /\ n - 1 \in 0 .. N
    BY <1>1
  <2>2. f[n - 1] \in States(source) /\ f[n] = Scan(source, f[n - 1])
    BY <1>3, <2>1
  <2>3. Follows(source, F, f[n])
    BY <1>2, <1>5, <2>2, ScanFollows
  <2> QED BY <2>1, <2>3
<1> HIDE DEF G
<1>6. N \in G
  <2>1. 0 .. N \subseteq G
    BY <1>1, <1>4, <1>5, BoundedInduction
  <2> QED BY <1>1, <2>1
<1> DEFINE s == Scanned(source, 0)
<1>7. Follows(source, F, s)
  BY <1>3, <1>6 DEF G
<1>8. s.pos = N + 1
  BY <1>1, ScannedFacts DEF N
<1> HIDE DEF s
<1>9. s.valid /\ s.pos - 1 = N
  BY <1>1, <1>8 DEF s
<1>10. s.code = F[N]
  BY <1>7, <1>9 DEF Follows
<1> QED BY <1>2, <1>10 DEF s

\* In place of the references that a Lua reader takes for code stand names, in place of
\* nothing else, and none stands twice in an effect.
THEOREM NamesAlwaysReplaceReferences ==
  ASSUME NamesDiffer
  PROVE  RuleSetSpec => []NamesReplaceReferences
<1>1. ASSUME NEW source \in Sources, PreprocessCode(Code(source, <<>>), 0).valid
      PROVE  PreprocessCode(Code(source, <<>>), 0).code = Wanted(source)
  <2> DEFINE code == Code(source, <<>>)
             s == Scanned(code.lua, 0)
             p == PreprocessCode(code, 0)
  <2>1. source \in Seq(Signs)
    BY SourcesAssumption
  <2>2. code.lua = source /\ IsCode(code)
    <3>1. IsList(<<>>)
      BY DEF IsList
    <3> QED BY <2>1, <3>1 DEF Code, IsCode
  <2> HIDE DEF code
  <2>3. /\ p.code = s.code
        /\ p.valid <=> /\ s.valid
                       /\ \A dependency \in ToSet(code.dependencies) : IsQuery(dependency)
    BY <2>2, PreparedIs
  <2>4. s.valid
    BY <1>1, <2>3 DEF code
  <2>5. s.code = Wanted(source)
    BY <2>1, <2>2, <2>4, ScannedIsWanted
  <2> QED BY <2>3, <2>5 DEF code
<1>2. RuleSetInv => \A effect \in ToSet(ruleset.effectDefinitions) : IsInjective(effect.names)
  BY EffectsStaySound DEF AreSound, IsSound
<1>3. RuleSetInv => NamesReplaceReferences
  BY <1>1, <1>2 DEF NamesReplaceReferences
<1> QED BY <1>3, RuleSetInvAlways, PTL
=============================================================================
