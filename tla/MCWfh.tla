------------------------------- MODULE MCWfh -------------------------------
(* Instances of Wfh for TLC. *)
EXTENDS Wfh

CONSTANTS h1, h2, h3, a, b, c, r

\* a works from home on every second day by contract.
ContractOfA == {<<a, 1>>}

=============================================================================
