--------------------------- MODULE MCAnalysisRuns ---------------------------
(* Instances of AnalysisRuns for TLC. *)
EXTENDS AnalysisRuns, TLC

CONSTANTS r1, r2, r3, j1, j2, t1, t2

\* Everything belongs to one tenant ...
OneTenant == [r \in Runs |-> t1]
OneOwner  == [j \in Jobs |-> t1]

\* ... or the third run and the second job belong to another one.
TwoTenants == [r \in Runs |-> IF r = r3 THEN t2 ELSE t1]
TwoOwners  == [j \in Jobs |-> IF j = j2 THEN t2 ELSE t1]

SameTenantRuns == Permutations({r1, r2})
=============================================================================
