---------------------------- MODULE MCDrutaHash ----------------------------
(* Model checking of DrutaHash: the third field converts the vector, and a   *)
(* value is small or needs a heap buffer of less than twice SSO.             *)
EXTENDS DrutaHash

CONSTANTS f1, f2, f3, small, large

MCLength == [s \in {f1, f2, f3, small, large} |-> IF s = large THEN 3 ELSE 1]
=============================================================================
