---------------------- MODULE MCDeliveryTransfers ----------------------
(***************************************************************************)
(* Two pages of one project, which no definition tells apart.              *)
(***************************************************************************)
EXTENDS DeliveryTransfers, TLC

CONSTANTS s1, s2

TabSymmetry == Permutations({s1, s2})
=============================================================================
