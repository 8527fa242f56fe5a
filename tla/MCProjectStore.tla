--------------------------- MODULE MCProjectStore ---------------------------
(* Finite instances of ProjectStore for TLC; the .cfg files choose the      *)
(* operations an instance exercises and its bounds.                         *)
EXTENDS ProjectStore, TLC

CONSTANTS s1, s2, e1, o1, v0, v1

\* Tabs are interchangeable: no definition tells them apart.
TabSymmetry == Permutations({s1, s2})
=============================================================================
