------------------------------ MODULE MCOutbox ------------------------------
(* Instances of Outbox for TLC. *)
EXTENDS Outbox, TLC

CONSTANTS r1, r2, m1, m2, a1, s1, s2

RowSymmetry == Permutations({r1, r2})

=============================================================================
