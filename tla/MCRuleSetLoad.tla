---------------------------- MODULE MCRuleSetLoad ----------------------------
(* Directories of rules, and what is checked of rulesets loaded from them.  *)
EXTENDS RuleSetLoad

MCLuaName(index) == "__var_" \o ToString(index)

File(path, extension, message) ==
    [path |-> path, extension |-> extension, malformed |-> FALSE, tree |-> {}, message |-> message]

Yaml(path, node, message) == [File(path, "yaml", message) EXCEPT !.tree = {node}]
Node(marks, kind, keys) == [marks |-> marks, kind |-> kind, keys |-> keys]

NoFiles == [d \in {Directory[t] : t \in TableNames} |-> {}]
Root(files) == [directory |-> TRUE, files |-> files @@ NoFiles]

Mill(jobs, groups, instance) ==
    [id |-> "mill", groups |-> groups, jobs |-> jobs, classEffect |-> <<>>,
     instanceEffect |-> instance]
Miller(output, groups) ==
    [id |-> "miller", groups |-> groups, input |-> {"grain"}, output |-> output,
     classEffect |-> <<>>]
Group(id, groups, effect) == [id |-> id, groups |-> groups, groupEffect |-> effect]
Named(ids) == [i \in DOMAIN ids |-> [id |-> ids[i]]]
Variable(id, type) == [id |-> id, type |-> type]

Reading == Code(<<"VAR(", "x", ")", "\n", "VAR(", "\"", "x", "\"", ")">>, <<>>)

\* Everything in order: a job, its resources, groups, definitions, an effect.
Base == Root([
    improvements |-> {File(1, "txt", [
        improvements |-> <<Mill({"miller"}, <<"works">>, <<Reading>>)>>,
        improvement_groups |-> <<Group("works", <<>>, <<Reading>>)>>])},
    resources |-> {Yaml(1, Node({}, "map", <<"resources">>),
                        [resources |-> Named(<<"grain", "flour">>)])},
    jobs |-> {File(2, "yml", [jobs |-> <<Miller({"flour"}, <<"hands">>)>>]),
              File(1, "txt", [job_groups |-> <<Group("people", <<>>, <<Reading>>),
                                               Group("hands", <<"people">>, <<>>)>>])},
    projects |-> {File(1, "txt", [projects |-> Named(<<"Build">>)])},
    variables |-> {File(1, "txt", [variables |-> <<
        Variable(<<Text("job"), Placeholder("job"), Text("count")>>, "numeric"),
        Variable(<<Text("produces"), Placeholder("resource")>>, "numeric"),
        Variable(<<Text("skill"), Placeholder("job")>>, "string"),
        Variable(<<Text("core.class")>>, "string")>>])},
    effects |-> {File(1, "txt", [effects |-> <<
        [id |-> "e", scopeType |-> "city", class |-> "", possible |-> <<Reading>>,
         effect |-> Reading]>>])}])

\* The mill gives no jobs any more and is a group's; the job gives what is not there.
NoJobs == Root([
    improvements |-> {File(1, "txt", [improvements |-> <<Mill({}, <<"works">>, <<>>)>>])}])
Bread == Root([jobs |-> {File(1, "txt", [jobs |-> <<Miller({"bread"}, <<>>)>>])}])
Baker == Root([resources |-> {File(1, "txt", [resources |-> Named(<<"bread">>)])}])

\* One id for groups of both types; a circle; a group that is not there.
Retyped == Root([improvements |-> {File(1, "txt", [
    improvement_groups |-> <<Group("hands", <<>>, <<>>)>>])}])
Circle == Root([jobs |-> {File(1, "txt", [
    job_groups |-> <<Group("people", <<"hands">>, <<>>)>>])}])
Missing == Root([jobs |-> {File(1, "txt", [
    job_groups |-> <<Group("people", <<"nobody">>, <<>>)>>])}])

\* A definition that contradicts another one; an id that is none; files that are not read.
Contradiction == Root([variables |-> {File(1, "txt", [variables |-> <<
    Variable(<<Text("core.class")>>, "numeric")>>])}])
Ignored == Root([
    resources |-> {
        File(1, "txt", [resources |-> Named(<<"Gold">>)]),
        File(1, "yaml", [resources |-> Named(<<"Gold">>)]),
        File(2, "md", [resources |-> Named(<<"Gold">>)]),
        Yaml(3, Node({"anchor"}, "map", <<"resources">>), [resources |-> Named(<<"Gold">>)]),
        Yaml(4, Node({}, "map", <<"a", "a">>), [resources |-> Named(<<"Gold">>)]),
        [File(5, "txt", [resources |-> Named(<<"Gold">>)]) EXCEPT !.malformed = TRUE]}])
Invalid == Root([resources |-> {File(1, "txt", [resources |-> Named(<<"Gold">>)])}])
NoDirectory == [directory |-> FALSE, files |-> Invalid.files]

MCRoots == {NoJobs, Bread, Baker, Retyped, Circle, Missing, Contradiction, Ignored, Invalid,
            NoDirectory}
MCRootSequences ==
    {<<>>, <<Base>>} \cup {<<Base, r>> : r \in MCRoots}
        \cup {<<r, Base>> : r \in MCRoots}
        \cup {<<Base, r, s>> : r \in {Bread, NoJobs, Circle}, s \in MCRoots}

\* All short sources, and those that begin with a string that has a quote in it.
MCSources ==
    UNION {[1..n -> {Comment, "[[", "]]", "\n", "'", Escape, "VAR(", ")", "x"}] : n \in 0..4}
        \cup {<<"'", Escape, "'">> \o s : s \in UNION {[1..n -> {"'", "VAR(", "x", ")"}] : n \in 0..5}}
=============================================================================
