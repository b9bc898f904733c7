----------------------------- MODULE MCSessions -----------------------------
(* Instances of Sessions for TLC. *)
EXTENDS Sessions, TLC

CONSTANTS r1, r2, r3, r4, r5, r6

Symmetric == Permutations(Requests)
=============================================================================
