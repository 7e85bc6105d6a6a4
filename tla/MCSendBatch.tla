----------------------------- MODULE MCSendBatch -----------------------------
(* Small instances of SendBatch for TLC. *)
EXTENDS SendBatch, TLC

CONSTANTS b1, b2, o1, o2, o3, c1, c2, c3, r1, r2, v1, v2, t1, t2

Symmetry == Permutations({o1, o2, o3}) \cup Permutations({c1, c2, c3}) \cup Permutations({t1, t2})
=============================================================================
