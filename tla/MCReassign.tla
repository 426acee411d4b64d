----------------------------- MODULE MCReassign -----------------------------
(* Runs of ReassignCovers with nothing in between. *)
EXTENDS MCRota

CONSTANT MaxAny   \* bound on requests of any kind

VARIABLES
  settled,   \* what the last run left behind, until it is disturbed, or None
  steady,    \* the run in progress began with a steady rota and was not disturbed
  scope      \* which requests a behaviour has

CoverMembers == [d \in Days |-> IF cover[d] = None THEN None ELSE cover[d].member]

\* Nobody covers a day of his own leave who could be replaced.
SteadyRota ==
  \A d \in Working :
    cover[d] # None /\ cover[d].linked /\ ~cover[d].swapped /\ cover[d].member \in OnLeave(d)
      => team \subseteq OnLeave(d)

Begins == \E h \in Handlers : Reassign(h)
Settles == \E h \in Handlers : Done(h, {"reassign"}) /\ Reply(h)

\* A statement of a run, while nobody else is at work, nothing fails and no leave expires.
RunAlone ==
  /\ faults' = faults /\ today' = today
  /\ \E h \in Handlers :
       /\ Reassign(h) \/ work[h].job = "reassign"
       /\ \A g \in Handlers \ {h} : work[g] = Idle /\ work'[g] = Idle

History ==
  /\ settled' = IF Settles THEN [covers |-> CoverMembers, steady |-> steady]
                ELSE IF RunAlone THEN settled ELSE None
  /\ steady' = (RunAlone /\ IF Begins THEN SteadyRota ELSE steady)

NextHistory == Next /\ History
InitHistory == Init /\ settled = None /\ steady = FALSE
historyVars == <<vars, settled, steady>>
SpecHistory == InitHistory /\ [][NextHistory]_historyVars

\* For TLC: up to MaxAny requests of any kind and changes of the team, or as many requests
\* about leaves and swaps of one day, where only a leave's statement may fail, and then
\* reassignments.
Asks(h) ==
  \/ requests < MaxAny /\ Request(h)
  \/ /\ scope = "twice" /\ requests \in MaxAny..MaxRequests-1 /\ requests' = requests + 1
     /\ Reassign(h)

InScope ==
  /\ scope = "any" => requests' + changes' <= MaxAny
  /\ scope = "twice" =>
       /\ today' = today
       /\ requests' \in requests+1..MaxAny => \E h \in Handlers : work'[h].job \in {"leave", "swap"}
       /\ faults' > faults => \E h \in Handlers : work'[h].job = "leave"

NextInScope ==
  /\ \/ \E h \in Handlers : ViewDashboard(h) \/ Asks(h) \/ Statement(h) \/ Fail(h) \/ Restart(h)
     \/ Tick
  /\ InScope /\ scope' = scope /\ History

InitTwice == InitHistory /\ scope = "twice"
InitAlone == InitHistory /\ scope \in {"any", "twice"}
SpecAlone == InitAlone /\ [][NextInScope]_<<historyVars, scope>>
SpecTwice == InitTwice /\ [][NextInScope]_<<historyVars, scope>>

(* reassign.go:33 "calling ReassignCovers twice on the same set of active  *)
(* leaves produces the same covers", whatever the first run found.         *)
ReassignIsIdempotent ==
  \A h \in Handlers : Done(h, {"reassign"}) /\ settled # None => settled.covers = CoverMembers

(* cmd/root.go:37 "idempotent on stable data": when the first of two runs  *)
(* found nobody left to cover a day of his own leave, the second chooses   *)
(* the same covers, although it starts from other covers, walks the leaves *)
(* from an empty position and two leaves may share a day.                  *)
SteadyReassignIsIdempotent ==
  \A h \in Handlers :
    Done(h, {"reassign"}) /\ settled # None /\ settled.steady => settled.covers = CoverMembers

=============================================================================
