---------------------------- MODULE MCCallLimiter ----------------------------
(* Two calls in the process that may be shut down, one in the other.       *)
EXTENDS CallLimiter

CONSTANTS p1, p2, c1, c2, c3

MCHome == (c1 :> p1) @@ (c2 :> p1) @@ (c3 :> p2)
Symmetry == {f @@ g : f \in Permutations(Lease), g \in Permutations({c1, c2})}
=============================================================================
