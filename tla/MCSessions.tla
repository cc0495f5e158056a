------------------------------ MODULE MCSessions ------------------------------
(* Sessions for TLC: two tabs of one browser and one of another.           *)
EXTENDS Sessions, TLC

CONSTANTS t1, t2, t3, laptop, phone

MCBrowserOf == t1 :> laptop @@ t2 :> laptop @@ t3 :> phone
Symmetry == Permutations({t1, t2})
=============================================================================
