------------------------------ MODULE EffectCode ------------------------------
(***************************************************************************)
(* The code of an effect as it is prepared for Lua (core/ruleset/effect):  *)
(* every VAR(id) outside comments and strings gives way to a name of its   *)
(* own, to which the value of the variable is bound before each run, and   *)
(* the variables named become dependencies of the effect.                  *)
(*                                                                         *)
(* A source is a sequence of the signs the scanner tells apart.  Other     *)
(* text is "x" where it may stand in an id, "?" where it may not; "@" is   *)
(* such a text, too, and no id by itself.                                  *)
(***************************************************************************)
EXTENDS Naturals, Sequences, SequencesExt, FiniteSets, FiniteSetsExt, TLC

CONSTANTS
    LuaName(_)          \* the name with an index: __var_0, __var_1, ...

Comment == "--"
Escape == "\\"
Quotes == {"'", "\""}
Signs == {Comment, "[[", "]]", "\n", "'", "\"", Escape, "VAR(", ")", "x", "@", "?"}

\* An optional piece of code is a sequence of at most one.
Code(lua, dependencies) == [lua |-> lua, dependencies |-> dependencies]

-----------------------------------------------------------------------------
(* Arguments.                                                              *)

IsValidEffectReference(token) ==
    token # <<>> /\ ToSet(token) \subseteq {"x", "@"}

TrimAsciiWhitespace(token) ==
    LET text == {i \in DOMAIN token : token[i] # "\n"}
    IN  IF text = {} THEN <<>> ELSE SubSeq(token, Min(text), Max(text))

\* Quotes around an argument are optional; one alone is refused with the rest.
Unquoted(token) ==
    IF Len(token) >= 2 /\ Head(token) = "\"" /\ Last(token) = "\""
    THEN SubSeq(token, 2, Len(token) - 1) ELSE token

\* ParseVariableQuery, with wildcards allowed.
IsQuery(token) == token # <<"@">>

ParseVarArgument(token) ==
    LET reference == Unquoted(TrimAsciiWhitespace(token))
    IN  IsValidEffectReference(reference) /\ IsQuery(reference)

-----------------------------------------------------------------------------
(* The scanner.                                                            *)

\* The first place from pos on where the source has the sign, or the end.
FirstFrom(source, pos, sign) ==
    LET at == {i \in pos..Len(source) : source[i] = sign}
    IN  IF at = {} THEN Len(source) + 1 ELSE Min(at)

\* Whether the sign at a place of a string that begins at pos stands behind a backslash
\* which does not stand behind one itself.
Escaped(source, pos) ==
    LET escaped[n \in 0 .. Len(source)] ==
            n > pos /\ source[n - 1] = Escape /\ ~escaped[n - 1]
    IN  escaped

\* Behind the string that begins at pos: what follows a backslash does not end it.
FindStringEnd(source, pos, quote) ==
    LET escaped == Escaped(source, pos)
        ends == {n \in pos .. Len(source) : source[n] = quote /\ ~escaped[n]}
    IN  IF ends = {} THEN Len(source) + 1 ELSE Min(ends) + 1

FindLineCommentEnd(source, pos) == FirstFrom(source, pos, "\n")
FindBlockCommentEnd(source, pos) == Min({FirstFrom(source, pos + 2, "]]"), Len(source)}) + 1

\* Where the scanner stands, whether all was well, the code so far, the names and the
\* arguments they stand for, the next index.
Begun(next) ==
    [pos |-> 1, valid |-> TRUE, code |-> <<>>, names |-> <<>>, dependencies |-> <<>>,
     next |-> next]

\* The source up to there is copied.
CopyTo(source, s, end) ==
    [s EXCEPT !.code = @ \o SubSeq(source, s.pos, end - 1), !.pos = end]

ReplaceReference(source, s) ==
    LET close == FirstFrom(source, s.pos + 1, ")")
        argument == SubSeq(source, s.pos + 1, close - 1)
    IN  IF close > Len(source) \/ ~ParseVarArgument(argument)
        THEN [s EXCEPT !.valid = FALSE]
        ELSE [s EXCEPT !.code = Append(@, LuaName(s.next)),
                       !.names = Append(@, LuaName(s.next)),
                       !.dependencies = Append(@, Unquoted(TrimAsciiWhitespace(argument))),
                       !.next = @ + 1,
                       !.pos = close + 1]

\* One turn of the loop of PreprocessCode.
Scan(source, s) ==
    LET sign == source[s.pos]
    IN  IF s.pos > Len(source) \/ ~s.valid THEN s
        ELSE IF sign = Comment
        THEN IF s.pos < Len(source) /\ source[s.pos + 1] = "[["
             THEN CopyTo(source, s, FindBlockCommentEnd(source, s.pos))
             ELSE CopyTo(source, s, FindLineCommentEnd(source, s.pos))
        ELSE IF sign \in Quotes
        THEN CopyTo(source, s, FindStringEnd(source, s.pos + 1, sign))
        ELSE IF sign = "VAR(" THEN ReplaceReference(source, s)
        ELSE CopyTo(source, s, s.pos + 1)

\* What the loop ends with: a turn takes a sign at least.
Scanned(source, next) ==
    LET scanned[n \in 0 .. Len(source)] ==
            IF n = 0 THEN Begun(next) ELSE Scan(source, scanned[n - 1])
    IN  scanned[Len(source)]

\* The code, the names in it and the dependencies; next is the next free index.
PreprocessCode(code, next) ==
    LET scanned == Scanned(code.lua, next)
    IN  [scanned EXCEPT
            !.valid = @ /\ \A dependency \in ToSet(code.dependencies) : IsQuery(dependency),
            !.dependencies = @ \o code.dependencies]

-----------------------------------------------------------------------------
(* What Lua takes for code.  Its long strings, [[ to ]] outside a comment, *)
(* are left out: the scanner does not know them.                           *)

\* What state a sign takes a Lua reader to.
ModeAfter(mode, sign) ==
    CASE mode = "code" /\ sign = Comment            -> "dashes"
      [] mode = "code" /\ sign = "VAR("             -> "argument"
      [] mode = "code" /\ sign = "'"                -> "single"
      [] mode = "code" /\ sign = "\""               -> "double"
      [] mode = "dashes" /\ sign = "[["             -> "block"
      [] mode \in {"dashes", "line"} /\ sign = "\n" -> "code"
      [] mode = "dashes" /\ sign \notin {"[[", "\n"} -> "line"
      [] mode = "block" /\ sign = "]]"              -> "code"
      [] mode = "argument" /\ sign = ")"            -> "code"
      [] mode = "single" /\ sign = "'"              -> "code"
      [] mode = "double" /\ sign = "\""             -> "code"
      [] mode = "single" /\ sign = Escape           -> "single escaped"
      [] mode = "double" /\ sign = Escape           -> "double escaped"
      [] mode = "single escaped"                    -> "single"
      [] mode = "double escaped"                    -> "double"
      [] OTHER                                      -> mode

\* Its state before the n-th sign of a source is that at n - 1.
Modes(source) ==
    LET modes[n \in 0 .. Len(source)] ==
            IF n = 0 THEN "code" ELSE ModeAfter(modes[n - 1], source[n])
    IN  modes

\* What is wanted of a source: names for the references in its code, all else as it is.
Wanted(source) ==
    LET modes == Modes(source)
        At(i) ==
            IF modes[i - 1] = "argument" THEN <<>>
            ELSE IF modes[i] = "argument"
            THEN <<LuaName(Cardinality({j \in 1 .. i - 1 :
                        modes[j - 1] = "code" /\ source[j] = "VAR("}))>>
            ELSE <<source[i]>>
    IN  FlattenSeq([i \in DOMAIN source |-> At(i)])
-----------------------------------------------------------------------------
(* A definition.                                                           *)

NothingPrepared(next) == Begun(next)

\* Fault: the names of the second piece of code begin at the first again.
EachFromZero(possible, effect) ==
    <<IF possible = <<>> THEN NothingPrepared(0) ELSE PreprocessCode(Head(possible), 0),
      PreprocessCode(effect, 0)>>

\* The two pieces of code share the index.  (A piece that is refused has used some.)
Prepared(possible, effect) ==
    LET first == IF possible = <<>> THEN NothingPrepared(0) ELSE PreprocessCode(Head(possible), 0)
    IN  <<first, PreprocessCode(effect, first.next)>>

\* Whether Lua reads the code: "?" stands for text it does not read.
ValidateLuaCode(prepared) ==
    \A i \in DOMAIN prepared.code :
        prepared.code[i] = "?" => Modes(prepared.code)[i - 1] # "code"

\* What both pieces come to; nothing of one that is refused.
Joined(prepared) ==
    LET Used(i, part) == IF prepared[i].valid THEN part ELSE <<>>
    IN  [names |-> Used(1, prepared[1].names) \o Used(2, prepared[2].names),
         dependencies |->
             Used(1, prepared[1].dependencies) \o Used(2, prepared[2].dependencies),
         broken |-> \E i \in 1 .. 2 : ~prepared[i].valid \/ ~ValidateLuaCode(prepared[i])]

EffectDefinition(possible, effect) == Joined(Prepared(possible, effect))

=============================================================================
