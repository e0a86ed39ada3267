---------------------------- MODULE MCBatchAlign ----------------------------
(* Instances of BatchAlign for TLC: r1 is the first row. *)
EXTENDS BatchAlign, TLC

CONSTANTS r1, r2

FirstThenSecond == [r \in BatchRuns |-> IF r = r1 THEN 1 ELSE 2]
=============================================================================
