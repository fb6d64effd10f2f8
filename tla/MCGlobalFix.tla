----------------------------- MODULE MCGlobalFix -----------------------------
(* Instances of GlobalFix. *)
EXTENDS GlobalFix, TLC

CONSTANTS a1, a2, a3, e1, e2, e3, s1, s2

\* Two of the three errors differ only in what _hash_error strips.
ThreeErrors == e1 :> s1 @@ e2 :> s1 @@ e3 :> s2

OneError == e1 :> s1
=============================================================================
