------------------------------ MODULE HatSwap ------------------------------
(***************************************************************************)
(* HAT day swaps: a member asks to exchange one of their rota days for a   *)
(* day of somebody else, who accepts or rejects; the requester may cancel. *)
(*                                                                         *)
(* A request handler is a sequence of database calls.  Each call that      *)
(* reads something used later, and each write, is an action of its own, so *)
(* handlers of several requests, the cover scheduler, administrators and   *)
(* the command `swap reconcile` interleave at every point the code allows. *)
(* Only executeSwapTx and applyReconciliation are transactions.            *)
(*                                                                         *)
(* Swap ids are numbered in insertion order: the order of created_at.      *)
(***************************************************************************)
EXTENDS Integers, FiniteSets

CONSTANTS
  Members,      \* team_members ids
  Assignments,  \* rota_assignments ids
  Covers,       \* the assignments with is_cover = 1
  DateOf,       \* the date of each assignment
  Handlers,     \* requests in flight, web or API
  MaxSwaps,     \* bound: hat_swaps rows ever inserted
  LastDay,      \* bound: the last value of today
  Deletions,    \* TRUE when rows may be deleted (admins, cascades, regeneration)
  MaxRepairs,   \* bound: runs of `swap reconcile --apply`
  None          \* no row, no job

Swaps == 1..MaxSwaps
Row == [owner : Members, swapped : BOOLEAN]
Statuses == {"pending", "accepted", "rejected", "cancelled"}
Swap == [req : Assignments, tgt : Assignments, from : Members, to : Members,
         status : Statuses]

ASSUME BoundAssumption == MaxSwaps \in Nat /\ LastDay \in Nat /\ MaxRepairs \in Nat
ASSUME DateAssumption == Covers \subseteq Assignments /\ DateOf \in [Assignments -> Nat]
ASSUME FlagAssumption == Deletions \in BOOLEAN
ASSUME FiniteAssumption == IsFiniteSet(Assignments)
ASSUME NoneAssumption == None \notin Row /\ None \notin Swap

VARIABLES
  today,    \* the date in UTC
  members,  \* rows of team_members
  rota,     \* rota_assignments: a row, or None once deleted
  swaps,    \* hat_swaps: a row, or None before the insert and once deleted
  created,  \* number of swaps inserted so far
  request,  \* each handler's progress
  sched,    \* the re-pointing the cover scheduler has decided on
  cli,      \* the `swap reconcile` process: swaps still to visit, and the
            \* swap it read and is about to apply
  repairs   \* reconcile runs so far

vars == <<today, members, rota, swaps, created, request, sched, cli, repairs>>

-----------------------------------------------------------------------------
(* What a handler remembers between two database calls. *)

Idle == [pc |-> "idle"]
Page == [pc |-> "page"]     \* about to render the swaps page
Proposal == [pc : {"validated", "checked", "requester", "target"},
             req : Assignments, tgt : Assignments, from : Members, to : Members]
Decision == [pc : {"accept", "reject", "cancel", "verified"}, id : Swaps]
Loaded == [pc : {"loaded"}, id : Swaps, owner : Members]

RowsOf(s) == {s.req, s.tgt}
Pending(s) == swaps[s] # None /\ swaps[s].status = "pending"
Accepted(s) == swaps[s] # None /\ swaps[s].status = "accepted"
Busy(a) == \E s \in Swaps : Pending(s) /\ a \in RowsOf(swaps[s])
Past(a) == DateOf[a] < today

\* Mutation: both sides go to the target member.
OneWay(s, a) == s.to

\* Who holds assignment a once swap s is carried out: the captured pair.
Counterpart(s, a) == IF a = s.req THEN s.to ELSE s.from

Flip(s) == [a \in Assignments |->
              IF rota[a] # None /\ a \in RowsOf(s)
              THEN [owner |-> Counterpart(s, a), swapped |-> TRUE]
              ELSE rota[a]]

Become(h, state) == request' = [request EXCEPT ![h] = state]

\* A refused request: the web handlers answer with the swaps page or with a
\* plain error, the API with an error.
Refuse(h) == \E answer \in {Idle, Page} : Become(h, answer)

-----------------------------------------------------------------------------
(* Requesting a swap: four checks and an INSERT, outside any transaction. *)

Validate(h) ==
  /\ request[h] = Idle
  /\ \E a, b \in Assignments :
       /\ a # b /\ rota[a] # None /\ rota[b] # None
       /\ rota[a].owner # rota[b].owner
       /\ ~Past(a) /\ ~Past(b)
       /\ Become(h, [pc |-> "validated", req |-> a, tgt |-> b,
                     from |-> rota[a].owner, to |-> rota[b].owner])
  /\ UNCHANGED <<today, members, rota, swaps, created, sched, cli, repairs>>

CheckOpen(h) ==
  /\ request[h].pc = "validated"
  /\ IF Busy(request[h].req) \/ Busy(request[h].tgt)
     THEN Refuse(h)
     ELSE Become(h, [request[h] EXCEPT !.pc = "checked"])
  /\ UNCHANGED <<today, members, rota, swaps, created, sched, cli, repairs>>

Owns(m, a) == rota[a] # None /\ rota[a].owner = m

RecheckRequester(h) ==
  /\ request[h].pc = "checked"
  /\ IF Owns(request[h].from, request[h].req)
     THEN Become(h, [request[h] EXCEPT !.pc = "requester"])
     ELSE Refuse(h)
  /\ UNCHANGED <<today, members, rota, swaps, created, sched, cli, repairs>>

RecheckTarget(h) ==
  /\ request[h].pc = "requester"
  /\ IF Owns(request[h].to, request[h].tgt)
     THEN Become(h, [request[h] EXCEPT !.pc = "target"])
     ELSE Refuse(h)
  /\ UNCHANGED <<today, members, rota, swaps, created, sched, cli, repairs>>

\* The foreign keys of the new row hold.
References(p) ==
  rota[p.req] # None /\ rota[p.tgt] # None /\ p.from \in members /\ p.to \in members

\* Mutation: without trg_hat_swaps_pending_insert.
UntriggeredInsert(p) == References(p)

\* The INSERT passes the foreign keys and trg_hat_swaps_pending_insert.
MayInsert(p) == References(p) /\ ~Busy(p.req) /\ ~Busy(p.tgt)

Insert(h) ==
  LET p == request[h] IN
  /\ p.pc = "target" /\ created < MaxSwaps
  /\ IF MayInsert(p)
     THEN /\ swaps' = [swaps EXCEPT ![created + 1] =
                         [req |-> p.req, tgt |-> p.tgt, from |-> p.from, to |-> p.to,
                          status |-> "pending"]]
          /\ created' = created + 1
          /\ Become(h, Idle)
     ELSE Refuse(h) /\ UNCHANGED <<swaps, created>>
  /\ UNCHANGED <<today, members, rota, sched, cli, repairs>>

-----------------------------------------------------------------------------
(* Deciding on a swap. *)

\* The handler reads the swap, checks who asks and that it is pending.
Open(h, verb) ==
  /\ request[h] = Idle
  /\ \E s \in Swaps : Pending(s) /\ Become(h, [pc |-> verb, id |-> s])
  /\ UNCHANGED <<today, members, rota, swaps, created, sched, cli, repairs>>

\* Mutation: UPDATE hat_swaps SET status = ? WHERE id = ?
UnguardedUpdate(s, status) ==
  IF swaps[s] # None THEN [swaps EXCEPT ![s].status = status] ELSE swaps

\* UPDATE hat_swaps SET status = ? WHERE id = ? AND status = 'pending'
UpdateStatus(s, status) ==
  IF Pending(s) THEN [swaps EXCEPT ![s].status = status] ELSE swaps

Reject(h) ==
  /\ request[h].pc = "reject"
  /\ swaps' = UpdateStatus(request[h].id, "rejected")
  /\ Become(h, Idle)
  /\ UNCHANGED <<today, members, rota, created, sched, cli, repairs>>

Cancel(h) ==
  /\ request[h].pc = "cancel"
  /\ swaps' = UpdateStatus(request[h].id, "cancelled")
  /\ Become(h, Idle)
  /\ UNCHANGED <<today, members, rota, created, sched, cli, repairs>>

\* ExecuteSwap reads the swap again, then the requester's assignment ...
LoadRequester(h) ==
  LET s == request[h].id IN
  /\ request[h].pc = "accept"
  /\ IF Pending(s) /\ rota[swaps[s].req] # None
     THEN Become(h, [pc |-> "loaded", id |-> s, owner |-> rota[swaps[s].req].owner])
     ELSE Refuse(h)
  /\ UNCHANGED <<today, members, rota, swaps, created, sched, cli, repairs>>

\* ... then the target's, and checks the live owners and the dates.
LoadTarget(h) ==
  LET s == request[h].id IN
  /\ request[h].pc = "loaded"
  /\ IF /\ swaps[s] # None
        /\ ~Owns(request[h].owner, swaps[s].tgt)
        /\ ~Past(swaps[s].req) /\ ~Past(swaps[s].tgt)
     THEN Become(h, [pc |-> "verified", id |-> s])
     ELSE Refuse(h)
  /\ UNCHANGED <<today, members, rota, swaps, created, sched, cli, repairs>>

\* Mutation: the status update is forgotten.
ForgetfulCommit(h) ==
  LET s == request[h].id IN
  /\ request[h].pc = "verified" /\ Pending(s)
  /\ rota' = Flip(swaps[s])
  /\ Become(h, Idle)
  /\ UNCHANGED <<today, members, swaps, created, sched, cli, repairs>>

\* executeSwapTx: both owners, both marks and the status, or nothing.
Commit(h) ==
  LET s == request[h].id IN
  /\ request[h].pc = "verified"
  /\ IF Pending(s)
     THEN /\ swaps' = UpdateStatus(s, "accepted")
          /\ rota' = Flip(swaps[s])
          /\ Become(h, Idle)
     ELSE Refuse(h) /\ UNCHANGED <<swaps, rota>>
  /\ UNCHANGED <<today, members, created, sched, cli, repairs>>

\* Any database call may fail and any request may be cut off.
Fail(h) ==
  /\ request[h] # Idle
  /\ Become(h, Idle)
  /\ UNCHANGED <<today, members, rota, swaps, created, sched, cli, repairs>>

\* Pending swaps with a day in the past are cancelled in one statement.
Expire == [s \in Swaps |->
             IF Pending(s) /\ (Past(swaps[s].req) \/ Past(swaps[s].tgt))
             THEN [swaps[s] EXCEPT !.status = "cancelled"]
             ELSE swaps[s]]

\* Every rendering of the swaps page cleans up first.
View(h) ==
  /\ request[h] \in {Idle, Page}
  /\ swaps' = Expire
  /\ Become(h, Idle)
  /\ UNCHANGED <<today, members, rota, created, sched, cli, repairs>>

-----------------------------------------------------------------------------
(* Deletions and their cascades. *)

AdminDelete(s) ==
  /\ Deletions /\ swaps[s] # None
  /\ swaps' = [swaps EXCEPT ![s] = None]
  /\ UNCHANGED <<today, members, rota, created, request, sched, cli, repairs>>

\* A stale cover, or a day of a range that is regenerated.
RemoveAssignment(a) ==
  /\ Deletions /\ rota[a] # None
  /\ rota' = [rota EXCEPT ![a] = None]
  /\ swaps' = [s \in Swaps |->
                 IF swaps[s] # None /\ a \in RowsOf(swaps[s]) THEN None ELSE swaps[s]]
  /\ UNCHANGED <<today, members, created, request, sched, cli, repairs>>

RemoveMember(m) ==
  LET gone == {a \in Assignments : Owns(m, a)} IN
  /\ Deletions /\ m \in members
  /\ members' = members \ {m}
  /\ rota' = [a \in Assignments |-> IF a \in gone THEN None ELSE rota[a]]
  /\ swaps' = [s \in Swaps |->
                 IF swaps[s] # None /\ (\/ RowsOf(swaps[s]) \cap gone # {}
                                        \/ m \in {swaps[s].from, swaps[s].to})
                 THEN None ELSE swaps[s]]
  /\ UNCHANGED <<today, created, request, sched, cli, repairs>>

-----------------------------------------------------------------------------
(* The cover scheduler: createCoverAssignment reads the cover, then points *)
(* it at another member.                                                   *)

Job == [row : Assignments, member : Members]

ReadCover ==
  /\ sched = None
  /\ \E a \in Covers, m \in members :
       /\ rota[a] # None /\ ~rota[a].swapped /\ rota[a].owner # m
       /\ sched' = [row |-> a, member |-> m]
  /\ UNCHANGED <<today, members, rota, swaps, created, request, cli, repairs>>

\* Mutation: UpdateCoverMember, the query without AND is_swapped = 0.
AnyCover(a) == rota[a] # None

\* UPDATE ... WHERE date = ? AND is_cover = 1 AND is_swapped = 0
OpenCover(a) == rota[a] # None /\ ~rota[a].swapped

RepointCover ==
  /\ sched # None
  /\ rota' = IF OpenCover(sched.row) /\ sched.member \in members
             THEN [rota EXCEPT ![sched.row].owner = sched.member]
             ELSE rota
  /\ sched' = None
  /\ UNCHANGED <<today, members, swaps, created, request, cli, repairs>>

-----------------------------------------------------------------------------
(* support-rota swap reconcile --apply, a process of its own. *)

Off == [todo |-> {}, job |-> None]

\* --all takes the accepted swaps, --id one of them.
StartRepair ==
  /\ repairs < MaxRepairs /\ cli = Off
  /\ \E ids \in {{s \in Swaps : Accepted(s)}} \cup {{s} : s \in {t \in Swaps : Accepted(t)}} :
       cli' = [todo |-> ids, job |-> None]
  /\ repairs' = repairs + 1
  /\ UNCHANGED <<today, members, rota, swaps, created, request, sched>>

Drifted(s) == Flip(swaps[s]) # rota

\* The oldest swap left is read with its assignments and compared; without
\* drift, or when it is no longer accepted, the loop goes on.
CompareSwap ==
  /\ cli.job = None /\ cli.todo # {}
  /\ \E s \in cli.todo :
       /\ \A t \in cli.todo : s <= t
       /\ cli' = [todo |-> cli.todo \ {s},
                  job |-> IF Accepted(s) /\ Drifted(s) THEN swaps[s] ELSE None]
  /\ UNCHANGED <<today, members, rota, swaps, created, request, sched, repairs>>

\* Mutation: the two sides are not in one transaction.
ApplyOneSide ==
  /\ cli.job # None
  /\ rota' = [rota EXCEPT ![cli.job.req] = Flip(cli.job)[cli.job.req]]
  /\ cli' = [cli EXCEPT !.job = None]
  /\ UNCHANGED <<today, members, swaps, created, request, sched, repairs>>

\* applyReconciliation does not look at the swap again.
ApplySwap ==
  /\ cli.job # None
  /\ rota' = IF {Counterpart(cli.job, a) : a \in {x \in RowsOf(cli.job) : rota[x] # None}}
                  \subseteq members
             THEN Flip(cli.job)
             ELSE rota
  /\ cli' = [cli EXCEPT !.job = None]
  /\ UNCHANGED <<today, members, swaps, created, request, sched, repairs>>

Tick ==
  /\ today < LastDay
  /\ today' = today + 1
  /\ UNCHANGED <<members, rota, swaps, created, request, sched, cli, repairs>>

-----------------------------------------------------------------------------
Init ==
  /\ today = 0
  /\ members = Members
  /\ rota \in [Assignments -> [owner : Members, swapped : {FALSE}]]
  /\ swaps = [s \in Swaps |-> None]
  /\ created = 0
  /\ request = [h \in Handlers |-> Idle]
  /\ sched = None
  /\ cli = Off
  /\ repairs = 0

Handle(h) ==
  \/ Validate(h) \/ CheckOpen(h) \/ RecheckRequester(h) \/ RecheckTarget(h) \/ Insert(h)
  \/ \E verb \in {"accept", "reject", "cancel"} : Open(h, verb)
  \/ Reject(h) \/ Cancel(h)
  \/ LoadRequester(h) \/ LoadTarget(h) \/ Commit(h)
  \/ View(h) \/ Fail(h)

Next ==
  \/ \E h \in Handlers : Handle(h)
  \/ \E s \in Swaps : AdminDelete(s)
  \/ \E a \in Assignments : RemoveAssignment(a)
  \/ \E m \in Members : RemoveMember(m)
  \/ ReadCover \/ RepointCover
  \/ StartRepair \/ CompareSwap \/ ApplySwap
  \/ Tick

Spec == Init /\ [][Next]_vars

-----------------------------------------------------------------------------
TypeOK ==
  /\ today \in 0..LastDay
  /\ members \subseteq Members
  /\ rota \in [Assignments -> Row \cup {None}]
  /\ swaps \in [Swaps -> Swap \cup {None}]
  /\ created \in 0..MaxSwaps
  /\ request \in [Handlers -> {Idle, Page} \cup Proposal \cup Decision \cup Loaded]
  /\ sched \in Job \cup {None}
  /\ cli \in [todo : SUBSET Swaps, job : Swap \cup {None}]
  /\ repairs \in 0..MaxRepairs

(* No assignment is in two pending swaps, however requests interleave: the *)
(* check in CheckNoOpenSwaps is stale by the time of the INSERT, and only  *)
(* the trigger of migration 000006 keeps two requests apart.               *)
PendingExclusive ==
  \A s, t \in Swaps :
    s # t /\ Pending(s) /\ Pending(t) => RowsOf(swaps[s]) \cap RowsOf(swaps[t]) = {}

(* Accept, reject, cancel and expiry race for the same swap, and one of    *)
(* them wins: a decided swap keeps its decision until its row is deleted.  *)
DecidedOnce ==
  [][\A s \in Swaps : swaps[s] # None /\ ~Pending(s) => swaps'[s] \in {swaps[s], None}]_vars

(* An assignment changes hands in three ways only: with a swap that goes   *)
(* from pending to accepted in the same transaction, which then moves both *)
(* its days; by the cover scheduler, if it is a cover no swap has moved;   *)
(* or by the reconcile command carrying out a swap.                        *)
OwnersMoveBySwap ==
  [][\A a \in Assignments :
       rota[a] # None /\ rota'[a] # None /\ rota'[a].owner # rota[a].owner =>
         \/ \E s \in Swaps : Pending(s) /\ Accepted(s)' /\ rota' = Flip(swaps[s])
         \/ a \in Covers /\ ~rota[a].swapped /\ ~rota'[a].swapped
         \/ cli.job # None /\ rota' = Flip(cli.job)]_vars

(* The swap table explains the rota: the newest accepted swap of an        *)
(* assignment says who holds it, although the cover scheduler re-points    *)
(* covers at any time.  Holds as long as nothing deletes a row (a deleted  *)
(* swap leaves its flip behind) and nobody repairs.                        *)
RotaFollowsSwaps ==
  \A a \in Assignments, s \in Swaps :
    /\ rota[a] # None
    /\ Accepted(s) /\ a \in RowsOf(swaps[s])
    /\ \A t \in Swaps : Accepted(t) /\ a \in RowsOf(swaps[t]) => t <= s
    => rota[a] = [owner |-> Counterpart(swaps[s], a), swapped |-> TRUE]

(* With requests one at a time and before any repair, the pair captured by *)
(* a pending swap is the pair of live owners, covers aside: the scheduler  *)
(* may re-point a cover that a swap has captured.                          *)
CapturedPairIsLive ==
  \A s \in Swaps : Pending(s) /\ repairs = 0 =>
    /\ swaps[s].req \in Covers \/ Owns(swaps[s].from, swaps[s].req)
    /\ swaps[s].tgt \in Covers \/ Owns(swaps[s].to, swaps[s].tgt)

DaysOf(m) == {a \in Assignments : Owns(m, a)}

(* Under the same conditions, a swap of two days that are not covers does  *)
(* not change how many days anybody has.                                   *)
DaysAreConserved ==
  [][/\ repairs = 0 /\ rota' # rota
     /\ \A a \in Assignments : rota[a] # None => rota'[a] # None
     /\ \A a \in Covers : rota'[a] = rota[a]
     => \A m \in Members : Cardinality(DaysOf(m)') = Cardinality(DaysOf(m))]_vars

=============================================================================
