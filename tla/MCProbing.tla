------------------------------ MODULE MCProbing ------------------------------
(* Constants for model checking Probing, and with it GitOps. *)
EXTENDS Probing, TLC

CONSTANTS r1, r2

MCRuns == {r1, r2}
MCTags == {"v1", "v2"}
MCTenant == <<"labs">>
MCOurs == <<"foo">>
MCApps == {MCOurs, <<"labs", "foo">>}
MCFaults == {"github"}
MCSymmetry == Permutations(MCRuns)
=============================================================================
