------------------------------- MODULE MCWalk -------------------------------
(***************************************************************************)
(* All walks over four scopes with up to two links each; lists that differ *)
(* by a renaming of scopes only are mostly left out.                       *)
(***************************************************************************)
EXTENDS Walk, Naturals

MCLinkLists ==
    {<<>>} \cup {<<s>> : s \in Scopes} \cup {l \in Scopes \X Scopes : l[1] < l[2]}
=============================================================================
