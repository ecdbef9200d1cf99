------------------------------ MODULE MCSession ------------------------------
(***************************************************************************)
(* Small instances of Session: one improvement class and one job class,    *)
(* groups that inherit from one another, and rulesets that replace each    *)
(* other.                                                                  *)
(***************************************************************************)
EXTENDS Session, TLC

MCImprovementClasses == {"farm"}
MCJobClasses == {"miller"}
MCGroups == {"base", "mid", "craft"}

MCTypes == [base |-> "IMPROVEMENT_GROUP", mid |-> "IMPROVEMENT_GROUP", craft |-> "JOB_GROUP"]

\* farm needs mid, which inherits from base.
MCChained ==
    [type |-> MCTypes,
     inherits |-> [base |-> {}, mid |-> {"base"}, craft |-> {}],
     groups |-> [farm |-> {"mid"}, miller |-> {"craft"}]]

\* The same ids after a change of data: the inheritance is turned around.
MCTurned ==
    [type |-> MCTypes,
     inherits |-> [base |-> {"mid"}, mid |-> {}, craft |-> {}],
     groups |-> [farm |-> {"base", "mid"}, miller |-> {}]]

\* After another change, mid has become a job group that craft inherits from
\* and miller needs.
MCRetyped ==
    [type |-> [MCTypes EXCEPT !["mid"] = "JOB_GROUP"],
     inherits |-> [base |-> {}, mid |-> {}, craft |-> {"mid"}],
     groups |-> [farm |-> {"base"}, miller |-> {"craft", "mid"}]]

MCStable == {MCChained, MCTurned}
MCUnstable == {MCChained, MCRetyped}

CivSymmetry == Permutations(Civs)
=============================================================================
