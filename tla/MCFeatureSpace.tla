--------------------------- MODULE MCFeatureSpace ---------------------------
(* One dense and three sparse features.  Between them the hypotheses have    *)
(* every way two sparse lists can meet: apart, one inside the other, equal   *)
(* in a feature and different in it, a 0 that one or both list, none at all. *)
EXTENDS FeatureSpace

CONSTANTS d, p, q, r

MCDenseNames == <<d>>
MCHypotheses == {d :> 1 @@ p :> 2 @@ r :> 0, d :> 3 @@ q :> 1 @@ r :> 1, p :> 1 @@ q :> 1,
                 d :> 1 @@ p :> 2 @@ q :> -1 @@ r :> 1, d :> 0 @@ p :> 0 @@ r :> 0, d :> 2}
=============================================================================
