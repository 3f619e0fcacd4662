--------------------------- MODULE MCKeyLifecycle ---------------------------
(***************************************************************************)
(* One provisioned key and one that may be generated, three requests of    *)
(* any kind, two failed writes.                                            *)
(***************************************************************************)
EXTENDS KeyLifecycle, TLC

CONSTANTS k1, k2, r1, r2, r3

Symmetry == Permutations(Requests)
=============================================================================
