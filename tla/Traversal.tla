------------------------------ MODULE Traversal ------------------------------
(***************************************************************************)
(* How a lookup walks over scopes (core/scope/scope.inl): the scope        *)
(* itself, then its parent and all that follows from it, then each of its  *)
(* tag links in the order they were made.  All lookups of values,          *)
(* materialized ids and times walk this way with one set of visited        *)
(* scopes.                                                                 *)
(***************************************************************************)
EXTENDS Sequences, Functions, FiniteSets

CONSTANT Scopes             \* all scopes of a game

ASSUME ScopesAssumption == IsFiniteSet(Scopes)

\* The order in which the scopes are visited from s.  links[t] is the parent of t, if it
\* has one, followed by its tag links.
Visits(links, s) ==
    LET visits[w \in Seq(Scopes) \X SUBSET Scopes] ==
            LET todo == w[1]
                visited == w[2]
            IN  IF todo = <<>> THEN <<>>
                ELSE IF Head(todo) \in visited THEN visits[<<Tail(todo), visited>>]
                ELSE <<Head(todo)>> \o
                     visits[<<links[Head(todo)] \o Tail(todo), visited \cup {Head(todo)}>>]
    IN  visits[<< <<s>>, {} >>]

\* What links lead nowhere out of.
Closed(links, T) == \A t \in T : Range(links[t]) \subseteq T

\* The scopes that can be reached from s: those in every such set around s.
Reachable(links, s) ==
    {t \in Scopes : \A T \in SUBSET Scopes : s \in T /\ Closed(links, T) => t \in T}

=============================================================================
