--------------------------------- MODULE Walk ---------------------------------
(***************************************************************************)
(* The walk of Traversal, call by call (core/scope/scope.inl,              *)
(* FillNumericModifiers and its like).  A call that finds its scope        *)
(* visited returns; any other one uses the scope and calls itself for the  *)
(* parent and the tag links.  What the calls on the stack have still to    *)
(* call is todo, next first.                                               *)
(***************************************************************************)
EXTENDS Traversal

CONSTANT LinkLists          \* the lists of parent and tag links a scope may have

ASSUME LinksAssumption == LinkLists \subseteq Seq(Scopes)

VARIABLES
    links, origin,  \* where the walk takes place; they do not change
    todo, visited,
    order           \* history: the scopes used, first to last

walkVars == <<links, origin, todo, visited, order>>

WalkTypeOK ==
    /\ links \in [Scopes -> LinkLists]
    /\ origin \in Scopes
    /\ todo \in Seq(Scopes)
    /\ visited \subseteq Scopes
    /\ order \in Seq(Scopes)

WalkInit ==
    /\ links \in [Scopes -> LinkLists]
    /\ origin \in Scopes
    /\ todo = <<origin>>
    /\ visited = {}
    /\ order = <<>>

\* Fault: the set is not shared between calls.
VisitWithOwnSet ==
    /\ todo # <<>> /\ Head(todo) \notin visited
    /\ visited' = {Head(todo)}
    /\ order' = Append(order, Head(todo))
    /\ todo' = links[Head(todo)] \o Tail(todo)
    /\ UNCHANGED <<links, origin>>

\* Fault: what is linked comes after what was there before.
VisitInBreadth ==
    /\ todo # <<>> /\ Head(todo) \notin visited
    /\ visited' = visited \cup {Head(todo)}
    /\ order' = Append(order, Head(todo))
    /\ todo' = Tail(todo) \o links[Head(todo)]
    /\ UNCHANGED <<links, origin>>

Visit ==
    /\ todo # <<>> /\ Head(todo) \notin visited
    /\ visited' = visited \cup {Head(todo)}
    /\ order' = Append(order, Head(todo))
    /\ todo' = links[Head(todo)] \o Tail(todo)
    /\ UNCHANGED <<links, origin>>

\* Fault: a scope met again is tried again later.
SkipForNow ==
    /\ todo # <<>> /\ Head(todo) \in visited
    /\ todo' = Append(Tail(todo), Head(todo))
    /\ UNCHANGED <<links, origin, visited, order>>

Skip ==
    /\ todo # <<>> /\ Head(todo) \in visited
    /\ todo' = Tail(todo)
    /\ UNCHANGED <<links, origin, visited, order>>

WalkNext == Visit \/ Skip

\* Nothing else runs before a lookup returns, so it runs to its end.
WalkSpec == WalkInit /\ [][WalkNext]_walkVars /\ WF_walkVars(WalkNext)

-----------------------------------------------------------------------------
Done == todo = <<>>

\* Whatever the links are, circular ones included, a lookup has used each scope it can
\* reach exactly once when it ends, so shared scopes count once (VisitedScopes).
VisitsReachableOnce ==
    Done => /\ Range(order) = Reachable(links, origin)
            /\ IsInjective(order)

\* It used them in the order that decides between modifiers of the same key and level.
VisitsInOrder == Done => order = Visits(links, origin)

\* It ends, though Scope::AddTagLink would let tag links of groups close a circle.
WalkEnds == <>Done

=============================================================================
