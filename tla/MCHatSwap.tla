----------------------------- MODULE MCHatSwap -----------------------------
(* Instances of HatSwap for TLC. *)
EXTENDS HatSwap, TLC

CONSTANTS m1, m2, m3, a1, a2, a3, h1, h2

\* One day before the other two.
DateOfRow == (a1 :> 0) @@ (a2 :> 1) @@ (a3 :> 1)

PairSymmetry == Permutations({m1, m2}) \cup Permutations({h1, h2})

MemberSymmetry == Permutations({m1, m2, m3})

=============================================================================
