------------------------------- MODULE MCRota -------------------------------
(* Instances of Rota for TLC. *)
EXTENDS Rota

CONSTANTS h1, h2

HandlerSymmetry == Permutations({h1, h2})

\* The races of a single day, on which no midnight falls.
NextOneDay ==
  \E h \in Handlers : ViewDashboard(h) \/ Request(h) \/ Statement(h) \/ Fail(h) \/ Restart(h)
SpecOneDay == Init /\ [][NextOneDay]_vars

=============================================================================
