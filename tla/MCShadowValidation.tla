------------------------- MODULE MCShadowValidation -------------------------
(* TLC instances of ShadowValidation. *)
EXTENDS ShadowValidation, TLC

CONSTANTS j1, j2, j3, k1, k2

\* Two jobs compete for one key, the third has a key of its own.
KeyOf == [j \in Jobs |-> IF j = j3 THEN k2 ELSE k1]

\* The jobs of k1 are interchangeable.
Symmetry == Permutations({j1, j2})
=============================================================================
