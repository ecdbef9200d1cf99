----------------------------- MODULE MCVariables -----------------------------
(* Definitions of variables over two domains: what is checked of them.      *)
EXTENDS Variables

Job == Text("job")

\* Plain ids, instances and queries over one and over two parameters, among them ids
\* with a placeholder or without a value.
MCIds == {
    <<Job>>,
    <<Job, Placeholder(Open)>>,
    <<Job, Argument("a")>>, <<Job, Argument("b")>>,
    <<Job, Argument(Wildcard)>>, <<Job, Argument("")>>,
    <<Job, Placeholder(Open), Argument("a")>>, <<Job, Argument("a"), Placeholder(Open)>>,
    <<Job, Argument("a"), Argument("b")>>, <<Job, Argument("b"), Argument("b")>>,
    <<Job, Argument(Wildcard), Argument("b")>>,
    <<Job, Argument(Wildcard), Argument(Wildcard)>>}

\* Text, what a pattern is kept as, an instance.
MCPlainIds == {<<Job>>, <<Job, Placeholder(Open)>>, <<Job, Argument("a")>>}

\* One domain, the other, any value; two domains; and what is refused: no parameter,
\* a domain twice, an unknown one, an argument, more parameters than allowed.
MCPatterns == {
    <<Job, Placeholder("job")>>, <<Job, Placeholder("resource")>>, <<Job, Placeholder(Open)>>,
    <<Job, Placeholder("job"), Placeholder("resource")>>,
    <<Job>>, <<Placeholder("job"), Placeholder("job")>>, <<Placeholder("thing")>>,
    <<Placeholder("job"), Argument("a")>>, <<Braced("x{job}")>>,
    <<Placeholder("job"), Placeholder("resource"), Placeholder(Open)>>}

MCValues == {<<>>, <<"a", "b", "a">>, <<"b">>, <<"a", "a/b">>}
=============================================================================
