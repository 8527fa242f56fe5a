------------------------- MODULE MCArtifactCustody -------------------------
(* A tab with two operations under way beside a tab with one.              *)
EXTENDS ArtifactCustody, TLC

CONSTANTS a, b, a1, a2, b1

(* Two pages, or a worker and its page.                                    *)
PagesOrWorker == {a :> a @@ b :> b, a :> b @@ b :> b}
TwoInOne == a1 :> a @@ a2 :> a @@ b1 :> b
Symmetry == Permutations({a1, a2})
=============================================================================
