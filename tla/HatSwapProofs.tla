--------------------------- MODULE HatSwapProofs ---------------------------
(* Theorems about HatSwap, for all values of its constants. *)
EXTENDS HatSwap, FiniteSetTheorems, TLAPS

InFlight == {Idle, Page} \cup Proposal \cup Decision \cup Loaded

-----------------------------------------------------------------------------
(* Type correctness. *)

LEMMA NotNone == None \notin Row /\ None \notin Swap
BY NoneAssumption

\* The program counter of a request tells what it remembers.
LEMMA PcTypes ==
  ASSUME NEW r \in InFlight
  PROVE  /\ r.pc \in {"validated", "checked", "requester", "target"} => r \in Proposal
         /\ r.pc \in {"accept", "reject", "cancel", "verified"} => r \in Decision
         /\ r.pc = "loaded" => r \in Loaded
<1>1. CASE r \in {Idle, Page}
  BY <1>1 DEF Idle, Page
<1>2. CASE r \in Proposal
  BY <1>2 DEF Proposal
<1>3. CASE r \in Decision
  BY <1>3 DEF Decision
<1>4. CASE r \in Loaded
  BY <1>4 DEF Loaded
<1> QED
  BY <1>1, <1>2, <1>3, <1>4 DEF InFlight

LEMMA RequestUpdate ==
  ASSUME TypeOK, NEW h \in Handlers, NEW r \in InFlight, Become(h, r)
  PROVE  request' \in [Handlers -> InFlight]
BY DEF TypeOK, Become, InFlight

LEMMA Refused ==
  ASSUME TypeOK, NEW h \in Handlers, Refuse(h)
  PROVE  request' \in [Handlers -> InFlight]
BY DEF TypeOK, Become, Refuse, InFlight

LEMMA Advanced ==
  ASSUME NEW p \in Proposal, NEW c \in {"validated", "checked", "requester", "target"}
  PROVE  [p EXCEPT !.pc = c] \in Proposal
BY DEF Proposal

\* A decision changes the status and nothing else.
LEMMA Decided ==
  ASSUME NEW s \in Swap, NEW x \in Statuses
  PROVE  /\ [s EXCEPT !.status = x] \in Swap
         /\ [s EXCEPT !.status = x].status = x
         /\ [s EXCEPT !.status = x].req = s.req /\ [s EXCEPT !.status = x].tgt = s.tgt
         /\ [s EXCEPT !.status = x].from = s.from /\ [s EXCEPT !.status = x].to = s.to
BY DEF Swap

LEMMA PendingIsSwap ==
  ASSUME TypeOK, NEW s \in Swaps, swaps[s] # None
  PROVE  /\ swaps[s] \in Swap
         /\ swaps[s].req \in Assignments /\ swaps[s].tgt \in Assignments
         /\ swaps[s].from \in Members /\ swaps[s].to \in Members
         /\ swaps[s].status \in Statuses
<1>1. swaps[s] \in Swap
  BY DEF TypeOK
<1> QED
  BY <1>1 DEF Swap

LEMMA FlipType ==
  ASSUME TypeOK, NEW s \in Swap
  PROVE  Flip(s) \in [Assignments -> Row \cup {None}]
<1> SUFFICES ASSUME NEW a \in Assignments
             PROVE  (IF rota[a] # None /\ a \in RowsOf(s)
                     THEN [owner |-> Counterpart(s, a), swapped |-> TRUE]
                     ELSE rota[a]) \in Row \cup {None}
  BY DEF Flip
<1>1. Counterpart(s, a) \in Members
  BY DEF Counterpart, Swap
<1>2. rota[a] \in Row \cup {None}
  BY DEF TypeOK
<1> QED
  BY <1>1, <1>2 DEF Row

LEMMA UpdateType ==
  ASSUME TypeOK, NEW s \in Swaps, NEW x \in Statuses
  PROVE  UpdateStatus(s, x) \in [Swaps -> Swap \cup {None}]
<1>1. CASE Pending(s)
  <2>1. swaps[s] \in Swap
    BY <1>1, PendingIsSwap DEF Pending
  <2>2. [swaps[s] EXCEPT !.status = x] \in Swap
    BY <2>1, Decided
  <2> QED
    BY <1>1, <2>2 DEF UpdateStatus, TypeOK
<1> QED
  BY <1>1 DEF UpdateStatus, TypeOK

LEMMA ExpireType ==
  ASSUME TypeOK
  PROVE  Expire \in [Swaps -> Swap \cup {None}]
<1> SUFFICES ASSUME NEW s \in Swaps
             PROVE  (IF Pending(s) /\ (Past(swaps[s].req) \/ Past(swaps[s].tgt))
                     THEN [swaps[s] EXCEPT !.status = "cancelled"]
                     ELSE swaps[s]) \in Swap \cup {None}
  BY DEF Expire
<1>1. Pending(s) => [swaps[s] EXCEPT !.status = "cancelled"] \in Swap
  BY PendingIsSwap, Decided DEF Pending, Statuses
<1> QED
  BY <1>1 DEF TypeOK

LEMMA TypeInit == Init => TypeOK
<1> SUFFICES ASSUME Init PROVE TypeOK
  OBVIOUS
<1>1. rota \in [Assignments -> Row \cup {None}]
  BY DEF Init, Row
<1>2. request \in [Handlers -> InFlight]
  BY DEF Init, InFlight
<1> QED
  BY <1>1, <1>2, BoundAssumption DEF Init, TypeOK, InFlight, Off

LEMMA TypeProposal ==
  ASSUME TypeOK, NEW h \in Handlers,
         Validate(h) \/ CheckOpen(h) \/ RecheckRequester(h) \/ RecheckTarget(h) \/ Insert(h)
  PROVE  TypeOK'
<1> USE DEF TypeOK
<1>0. request[h] \in InFlight
  BY DEF InFlight
<1>1. CASE Validate(h)
  <2>1. PICK a \in Assignments, b \in Assignments :
          /\ rota[a] # None /\ rota[b] # None
          /\ Become(h, [pc |-> "validated", req |-> a, tgt |-> b,
                        from |-> rota[a].owner, to |-> rota[b].owner])
    BY <1>1 DEF Validate
  <2>2. rota[a].owner \in Members /\ rota[b].owner \in Members
    BY <2>1 DEF Row
  <2>3. [pc |-> "validated", req |-> a, tgt |-> b,
         from |-> rota[a].owner, to |-> rota[b].owner] \in InFlight
    BY <2>2 DEF InFlight, Proposal
  <2> QED
    BY <1>1, <2>1, <2>3, RequestUpdate DEF Validate, InFlight
<1>2. CASE CheckOpen(h)
  <2>1. [request[h] EXCEPT !.pc = "checked"] \in InFlight
    BY <1>0, <1>2, PcTypes, Advanced DEF CheckOpen, InFlight
  <2> QED
    BY <1>2, <2>1, RequestUpdate, Refused DEF CheckOpen, InFlight
<1>3. CASE RecheckRequester(h)
  <2>1. [request[h] EXCEPT !.pc = "requester"] \in InFlight
    BY <1>0, <1>3, PcTypes, Advanced DEF RecheckRequester, InFlight
  <2> QED
    BY <1>3, <2>1, RequestUpdate, Refused DEF RecheckRequester, InFlight
<1>4. CASE RecheckTarget(h)
  <2>1. [request[h] EXCEPT !.pc = "target"] \in InFlight
    BY <1>0, <1>4, PcTypes, Advanced DEF RecheckTarget, InFlight
  <2> QED
    BY <1>4, <2>1, RequestUpdate, Refused DEF RecheckTarget, InFlight
<1>5. CASE Insert(h)
  <2>1. request[h] \in Proposal
    BY <1>0, <1>5, PcTypes DEF Insert
  <2>2. [req |-> request[h].req, tgt |-> request[h].tgt, from |-> request[h].from,
         to |-> request[h].to, status |-> "pending"] \in Swap
    BY <2>1 DEF Swap, Proposal, Statuses
  <2>3. request' \in [Handlers -> InFlight]
    BY <1>5, RequestUpdate, Refused DEF Insert, InFlight
  <2>4. swaps' \in [Swaps -> Swap \cup {None}] /\ created' \in 0..MaxSwaps
    BY <1>5, <2>2, BoundAssumption DEF Insert
  <2> QED
    BY <1>5, <2>3, <2>4 DEF Insert, InFlight
<1> QED
  BY <1>1, <1>2, <1>3, <1>4, <1>5

LEMMA TypeDecision ==
  ASSUME TypeOK, NEW h \in Handlers,
         \/ \E verb \in {"accept", "reject", "cancel"} : Open(h, verb)
         \/ Reject(h) \/ Cancel(h) \/ LoadRequester(h) \/ LoadTarget(h) \/ Commit(h)
         \/ View(h) \/ Fail(h)
  PROVE  TypeOK'
<1> USE DEF TypeOK
<1>0. request[h] \in InFlight /\ Idle \in InFlight
  BY DEF InFlight
<1>1. ASSUME NEW verb \in {"accept", "reject", "cancel"}, Open(h, verb) PROVE TypeOK'
  <2>1. PICK s \in Swaps : Become(h, [pc |-> verb, id |-> s])
    BY <1>1 DEF Open
  <2>2. [pc |-> verb, id |-> s] \in InFlight
    BY DEF InFlight, Decision
  <2> QED
    BY <1>1, <2>1, <2>2, RequestUpdate DEF Open, InFlight
<1>2. CASE Reject(h)
  <2>1. request[h].id \in Swaps
    BY <1>0, <1>2, PcTypes DEF Reject, Decision
  <2> QED
    BY <1>0, <1>2, <2>1, UpdateType, RequestUpdate DEF Reject, Statuses, InFlight
<1>3. CASE Cancel(h)
  <2>1. request[h].id \in Swaps
    BY <1>0, <1>3, PcTypes DEF Cancel, Decision
  <2> QED
    BY <1>0, <1>3, <2>1, UpdateType, RequestUpdate DEF Cancel, Statuses, InFlight
<1>4. CASE LoadRequester(h)
  <2>1. request[h].id \in Swaps
    BY <1>0, <1>4, PcTypes DEF LoadRequester, Decision
  <2>2. CASE Pending(request[h].id) /\ rota[swaps[request[h].id].req] # None
    <3>1. rota[swaps[request[h].id].req].owner \in Members
      BY <2>1, <2>2, PendingIsSwap DEF Pending, Row
    <3>2. [pc |-> "loaded", id |-> request[h].id,
           owner |-> rota[swaps[request[h].id].req].owner] \in InFlight
      BY <2>1, <3>1 DEF InFlight, Loaded
    <3> QED
      BY <1>4, <2>2, <3>2, RequestUpdate DEF LoadRequester, InFlight
  <2> QED
    BY <1>4, <2>2, Refused DEF LoadRequester, InFlight
<1>5. CASE LoadTarget(h)
  <2>1. [pc |-> "verified", id |-> request[h].id] \in InFlight
    BY <1>0, <1>5, PcTypes DEF LoadTarget, Loaded, Decision, InFlight
  <2> QED
    BY <1>5, <2>1, RequestUpdate, Refused DEF LoadTarget, InFlight
<1>6. CASE Commit(h)
  <2>1. request[h].id \in Swaps
    BY <1>0, <1>6, PcTypes DEF Commit, Decision
  <2>2. request' \in [Handlers -> InFlight]
    BY <1>0, <1>6, RequestUpdate, Refused DEF Commit, InFlight
  <2>3. CASE Pending(request[h].id)
    <3>1. swaps[request[h].id] \in Swap
      BY <2>1, <2>3, PendingIsSwap DEF Pending
    <3>2. UpdateStatus(request[h].id, "accepted") \in [Swaps -> Swap \cup {None}]
      BY <2>1, UpdateType DEF Statuses
    <3>3. Flip(swaps[request[h].id]) \in [Assignments -> Row \cup {None}]
      BY <3>1, FlipType
    <3> QED
      BY <1>6, <2>2, <2>3, <3>2, <3>3 DEF Commit, InFlight
  <2> QED
    BY <1>6, <2>2, <2>3 DEF Commit, InFlight
<1>7. CASE View(h)
  BY <1>0, <1>7, ExpireType, RequestUpdate DEF View, InFlight
<1>8. CASE Fail(h)
  BY <1>0, <1>8, RequestUpdate DEF Fail, InFlight
<1> QED
  BY <1>1, <1>2, <1>3, <1>4, <1>5, <1>6, <1>7, <1>8

LEMMA TypeEnvironment ==
  ASSUME TypeOK,
         \/ \E s \in Swaps : AdminDelete(s)
         \/ \E a \in Assignments : RemoveAssignment(a)
         \/ \E m \in Members : RemoveMember(m)
         \/ ReadCover \/ RepointCover \/ StartRepair \/ CompareSwap \/ ApplySwap \/ Tick
  PROVE  TypeOK'
<1> USE DEF TypeOK
<1>1. ASSUME NEW s \in Swaps, AdminDelete(s) PROVE TypeOK'
  BY <1>1 DEF AdminDelete
<1>2. ASSUME NEW a \in Assignments, RemoveAssignment(a) PROVE TypeOK'
  BY <1>2 DEF RemoveAssignment
<1>3. ASSUME NEW m \in Members, RemoveMember(m) PROVE TypeOK'
  BY <1>3 DEF RemoveMember
<1>4. CASE ReadCover
  BY <1>4, DateAssumption DEF ReadCover, Job
<1>5. CASE RepointCover
  <2>1. sched.row \in Assignments /\ rota[sched.row] \in Row \cup {None}
    BY <1>5 DEF RepointCover, Job
  <2>2. ASSUME OpenCover(sched.row), sched.member \in members
        PROVE  [rota[sched.row] EXCEPT !.owner = sched.member] \in Row
    BY <2>1, <2>2 DEF OpenCover, Row
  <2> QED
    BY <1>5, <2>1, <2>2 DEF RepointCover
<1>6. CASE StartRepair
  <2>1. repairs' \in 0..MaxRepairs
    BY <1>6, BoundAssumption DEF StartRepair
  <2>2. PICK ids \in {{s \in Swaps : Accepted(s)}} \cup {{s} : s \in {t \in Swaps : Accepted(t)}} :
          cli' = [todo |-> ids, job |-> None]
    BY <1>6 DEF StartRepair
  <2>3. ids \subseteq Swaps
    BY <2>2
  <2> QED
    BY <1>6, <2>1, <2>2, <2>3 DEF StartRepair
<1>7. CASE CompareSwap
  <2>1. PICK s \in cli.todo :
          cli' = [todo |-> cli.todo \ {s},
                  job |-> IF Accepted(s) /\ Drifted(s) THEN swaps[s] ELSE None]
    BY <1>7 DEF CompareSwap
  <2>2. s \in Swaps /\ cli.todo \subseteq Swaps
    BY <2>1
  <2> QED
    BY <1>7, <2>1, <2>2 DEF CompareSwap
<1>8. CASE ApplySwap
  <2>1. cli.job \in Swap
    BY <1>8 DEF ApplySwap
  <2> QED
    BY <1>8, <2>1, FlipType DEF ApplySwap
<1>9. CASE Tick
  BY <1>9, BoundAssumption DEF Tick
<1> QED
  BY <1>1, <1>2, <1>3, <1>4, <1>5, <1>6, <1>7, <1>8, <1>9

LEMMA TypeNext == TypeOK /\ [Next]_vars => TypeOK'
<1> SUFFICES ASSUME TypeOK, [Next]_vars PROVE TypeOK'
  OBVIOUS
<1>1. CASE UNCHANGED vars
  BY <1>1 DEF vars, TypeOK
<1>2. ASSUME NEW h \in Handlers, Handle(h) PROVE TypeOK'
  BY <1>2, TypeProposal, TypeDecision DEF Handle
<1> QED
  BY <1>1, <1>2, TypeEnvironment DEF Next

(* Every variable keeps its type: a decision stores one of the statuses    *)
(* the table's CHECK constraint lists, and a re-pointing or a flip leaves  *)
(* a complete row.                                                         *)
THEOREM TypeCorrect == Spec => []TypeOK
<1>1. Init => TypeOK
  BY TypeInit
<1>2. TypeOK /\ [Next]_vars => TypeOK'
  BY TypeNext
<1> QED
  BY <1>1, <1>2, PTL DEF Spec

-----------------------------------------------------------------------------
(* How a step changes the swap table: at most one row is inserted, and a    *)
(* row that was there stays, is decided if it was pending, or is deleted.   *)

Decisions == {"accepted", "rejected", "cancelled"}

Kept(s) ==
  \/ swaps'[s] = swaps[s]
  \/ swaps'[s] = None
  \/ Pending(s) /\ \E x \in Decisions : swaps'[s] = [swaps[s] EXCEPT !.status = x]

Inserted(h) ==
  /\ MayInsert(request[h]) /\ created < MaxSwaps /\ request[h].pc = "target"
  /\ swaps' = [swaps EXCEPT ![created + 1] =
                 [req |-> request[h].req, tgt |-> request[h].tgt, from |-> request[h].from,
                  to |-> request[h].to, status |-> "pending"]]
  /\ created' = created + 1
  /\ UNCHANGED <<members, rota, cli>>

LEMMA UpdateKeeps ==
  ASSUME TypeOK, NEW s \in Swaps, NEW x \in Decisions, swaps' = UpdateStatus(s, x)
  PROVE  \A t \in Swaps : Kept(t)
BY DEF UpdateStatus, Kept, TypeOK

LEMMA SwapTableStep ==
  ASSUME TypeOK, [Next]_vars
  PROVE  \/ created' = created /\ \A s \in Swaps : Kept(s)
         \/ \E h \in Handlers : Inserted(h)
<1> DEFINE Same == created' = created /\ \A s \in Swaps : Kept(s)
<1>0. ASSUME created' = created, swaps' = swaps PROVE Same
  BY <1>0 DEF Kept
<1>1. CASE UNCHANGED vars
  BY <1>0, <1>1 DEF vars
<1>2. ASSUME NEW h \in Handlers, Handle(h)
      PROVE  Same \/ Inserted(h)
  <2>0. request[h] \in InFlight
    BY DEF TypeOK, InFlight
  <2>1. CASE Insert(h)
    BY <1>0, <2>1 DEF Insert, Inserted
  <2>2. CASE Reject(h)
    BY <2>0, <2>2, PcTypes, UpdateKeeps DEF Reject, Decision, Decisions
  <2>3. CASE Cancel(h)
    BY <2>0, <2>3, PcTypes, UpdateKeeps DEF Cancel, Decision, Decisions
  <2>4. CASE Commit(h)
    <3>1. request[h].id \in Swaps
      BY <2>0, <2>4, PcTypes DEF Commit, Decision
    <3>2. CASE Pending(request[h].id)
      BY <2>4, <3>1, <3>2, UpdateKeeps DEF Commit, Decisions
    <3> QED
      BY <1>0, <2>4, <3>2 DEF Commit
  <2>5. CASE View(h)
    BY <2>5 DEF View, Expire, Kept, Decisions
  <2>6. CASE \/ Validate(h) \/ CheckOpen(h) \/ RecheckRequester(h) \/ RecheckTarget(h)
             \/ (\E verb \in {"accept", "reject", "cancel"} : Open(h, verb))
             \/ LoadRequester(h) \/ LoadTarget(h) \/ Fail(h)
    BY <1>0, <2>6
    DEF Validate, CheckOpen, RecheckRequester, RecheckTarget, Open, LoadRequester, LoadTarget, Fail
  <2> QED
    BY <1>2, <2>1, <2>2, <2>3, <2>4, <2>5, <2>6 DEF Handle
<1>3. ASSUME NEW s \in Swaps, AdminDelete(s) PROVE Same
  BY <1>3 DEF AdminDelete, Kept, TypeOK
<1>4. ASSUME NEW a \in Assignments, RemoveAssignment(a) PROVE Same
  BY <1>4 DEF RemoveAssignment, Kept
<1>5. ASSUME NEW m \in Members, RemoveMember(m) PROVE Same
  BY <1>5 DEF RemoveMember, Kept
<1>6. CASE ReadCover \/ RepointCover \/ StartRepair \/ CompareSwap \/ ApplySwap \/ Tick
  BY <1>0, <1>6 DEF ReadCover, RepointCover, StartRepair, CompareSwap, ApplySwap, Tick
<1> QED
  BY <1>1, <1>2, <1>3, <1>4, <1>5, <1>6 DEF Next

\* What survives of a kept row.
LEMMA KeptRow ==
  ASSUME TypeOK, NEW s \in Swaps, Kept(s), swaps'[s] # None
  PROVE  /\ swaps[s] # None
         /\ swaps'[s].req = swaps[s].req /\ swaps'[s].tgt = swaps[s].tgt
         /\ swaps'[s].from = swaps[s].from /\ swaps'[s].to = swaps[s].to
         /\ RowsOf(swaps'[s]) = RowsOf(swaps[s])
         /\ Pending(s)' => Pending(s) /\ swaps'[s] = swaps[s]
<1>1. CASE swaps'[s] = swaps[s]
  BY <1>1 DEF Pending
<1>2. CASE Pending(s) /\ \E x \in Decisions : swaps'[s] = [swaps[s] EXCEPT !.status = x]
  <2>1. PICK x \in Decisions : swaps'[s] = [swaps[s] EXCEPT !.status = x]
    BY <1>2
  <2>2. swaps[s] \in Swap /\ x \in Statuses /\ x # "pending"
    BY <1>2, PendingIsSwap DEF Pending, Decisions, Statuses
  <2>3. swaps'[s].status = x
    BY <2>1, <2>2, Decided
  <2> QED
    BY <1>2, <2>1, <2>2, <2>3, Decided DEF RowsOf, Pending
<1> QED
  BY <1>1, <1>2 DEF Kept

-----------------------------------------------------------------------------
(* The swap table: ids are fresh, and the trigger keeps pending swaps apart. *)

FreshIds == \A s \in Swaps : s > created => swaps[s] = None

SwapTableInv == TypeOK /\ FreshIds /\ PendingExclusive

LEMMA InsertedRow ==
  ASSUME TypeOK, NEW h \in Handlers, Inserted(h)
  PROVE  /\ created + 1 \in Swaps
         /\ request[h] \in Proposal
         /\ \A s \in Swaps : s # created + 1 => swaps'[s] = swaps[s]
         /\ swaps'[created + 1] =
              [req |-> request[h].req, tgt |-> request[h].tgt, from |-> request[h].from,
               to |-> request[h].to, status |-> "pending"]
         /\ RowsOf(swaps'[created + 1]) = {request[h].req, request[h].tgt}
<1>1. created + 1 \in Swaps
  BY BoundAssumption DEF TypeOK, Inserted, Swaps
<1>2. request[h] \in Proposal
  BY PcTypes DEF TypeOK, Inserted, InFlight
<1> QED
  BY <1>1, <1>2 DEF Inserted, TypeOK, RowsOf

LEMMA SwapTableNext == SwapTableInv /\ [Next]_vars => SwapTableInv'
<1> SUFFICES ASSUME SwapTableInv, [Next]_vars PROVE SwapTableInv'
  OBVIOUS
<1>0. TypeOK'
  BY TypeNext DEF SwapTableInv
<1>1. CASE created' = created /\ \A s \in Swaps : Kept(s)
  <2>1. FreshIds'
    BY <1>1 DEF SwapTableInv, FreshIds, Kept, Pending
  <2>2. ASSUME NEW s \in Swaps, NEW t \in Swaps, s # t, Pending(s)', Pending(t)'
        PROVE  RowsOf(swaps'[s]) \cap RowsOf(swaps'[t]) = {}
    <3>1. swaps'[s] = swaps[s] /\ Pending(s) /\ swaps'[t] = swaps[t] /\ Pending(t)
      BY <1>1, <2>2, KeptRow DEF SwapTableInv, Pending
    <3> QED
      BY <2>2, <3>1 DEF SwapTableInv, PendingExclusive
  <2> QED
    BY <1>0, <2>1, <2>2 DEF SwapTableInv, PendingExclusive
<1>2. ASSUME NEW h \in Handlers, Inserted(h) PROVE SwapTableInv'
  <2> DEFINE n == created + 1
  <2>0. TypeOK
    BY DEF SwapTableInv
  <2>1. FreshIds'
    <3>1. created' = created + 1 /\ created \in Nat
      BY <1>2, <2>0, BoundAssumption DEF Inserted, TypeOK
    <3>2. ASSUME NEW s \in Swaps, s > created + 1 PROVE swaps'[s] = None
      <4>1. s > created /\ s # created + 1
        BY <3>1, <3>2, BoundAssumption DEF Swaps
      <4>2. swaps'[s] = swaps[s]
        BY <1>2, <2>0, <4>1, InsertedRow
      <4> QED
        BY <4>1, <4>2 DEF SwapTableInv, FreshIds
    <3> QED
      BY <3>1, <3>2 DEF FreshIds
  <2>2. ASSUME NEW s \in Swaps, s # n, Pending(s)'
        PROVE  RowsOf(swaps'[s]) \cap RowsOf(swaps'[n]) = {}
    <3>1. swaps'[s] = swaps[s] /\ Pending(s)
      BY <1>2, <2>0, <2>2, InsertedRow DEF Pending
    <3>2. request[h].req \notin RowsOf(swaps[s]) /\ request[h].tgt \notin RowsOf(swaps[s])
      BY <1>2, <3>1 DEF Inserted, MayInsert, Busy
    <3> QED
      BY <1>2, <2>0, <3>1, <3>2, InsertedRow
  <2>3. ASSUME NEW s \in Swaps, NEW t \in Swaps, s # t, Pending(s)', Pending(t)'
        PROVE  RowsOf(swaps'[s]) \cap RowsOf(swaps'[t]) = {}
    <3>1. CASE s # n /\ t # n
      BY <1>2, <2>0, <2>3, <3>1, InsertedRow DEF Pending, SwapTableInv, PendingExclusive
    <3> QED
      BY <2>2, <2>3, <3>1
  <2> QED
    BY <1>0, <2>1, <2>3 DEF SwapTableInv, PendingExclusive
<1> QED
  BY <1>1, <1>2, SwapTableStep DEF SwapTableInv

LEMMA SwapTableInvariant == Spec => []SwapTableInv
<1>1. Init => SwapTableInv
  BY TypeInit DEF SwapTableInv, FreshIds, PendingExclusive, Pending, Init
<1>2. SwapTableInv /\ [Next]_vars => SwapTableInv'
  BY SwapTableNext
<1> QED
  BY <1>1, <1>2, PTL DEF Spec

(* However many requests are in flight, no assignment is in two pending    *)
(* swaps: the trigger of migration 000006 is enough.                       *)
THEOREM PendingSwapsAreExclusive == Spec => []PendingExclusive
<1>1. SwapTableInv => PendingExclusive
  BY DEF SwapTableInv
<1> QED
  BY <1>1, SwapTableInvariant, PTL

(* A swap that is accepted, rejected or cancelled keeps that status until  *)
(* its row is deleted, whichever handlers still hold it.                   *)
THEOREM DecisionsAreFinal == Spec => DecidedOnce
<1>1. SwapTableInv /\ [Next]_vars =>
        [\A s \in Swaps : swaps[s] # None /\ ~Pending(s) => swaps'[s] \in {swaps[s], None}]_vars
  <2> SUFFICES ASSUME SwapTableInv, [Next]_vars, NEW s \in Swaps, swaps[s] # None, ~Pending(s)
               PROVE  swaps'[s] \in {swaps[s], None}
    OBVIOUS
  <2>1. CASE Kept(s)
    BY <2>1 DEF Kept
  <2>2. ASSUME NEW h \in Handlers, Inserted(h) PROVE swaps'[s] = swaps[s]
    <3>1. created \in Nat /\ s \in Nat /\ s # created + 1
      BY BoundAssumption, <2>2, InsertedRow DEF SwapTableInv, FreshIds, TypeOK, Swaps
    <3> QED
      BY <2>2, <3>1, InsertedRow DEF SwapTableInv
  <2> QED
    BY <2>1, <2>2, SwapTableStep DEF SwapTableInv
<1> QED
  BY <1>1, SwapTableInvariant, PTL DEF Spec, DecidedOnce

-----------------------------------------------------------------------------
(* The rota and the swap table tell the same story, as long as no row is    *)
(* deleted and nobody repairs: a pending swap is newer than every other     *)
(* swap of its days, so it becomes the newest accepted one.                 *)

Shares(s, t) == RowsOf(swaps[s]) \cap RowsOf(swaps[t]) # {}

PendingIsNewest ==
  \A s, t \in Swaps : s # t /\ Pending(s) /\ swaps[t] # None /\ Shares(s, t) => t < s

HistoryInv == SwapTableInv /\ cli = Off /\ repairs = 0 /\ PendingIsNewest /\ RotaFollowsSwaps

Quiet == ~Deletions /\ MaxRepairs = 0

LEMMA NewestNext ==
  ASSUME SwapTableInv, PendingIsNewest, [Next]_vars
  PROVE  PendingIsNewest'
<1> SUFFICES ASSUME NEW s \in Swaps, NEW t \in Swaps, s # t, Pending(s)', swaps'[t] # None,
                    Shares(s, t)'
             PROVE  t < s
  BY DEF PendingIsNewest
<1>1. CASE created' = created /\ \A r \in Swaps : Kept(r)
  BY <1>1, KeptRow DEF SwapTableInv, PendingIsNewest, Shares, Pending
<1>2. ASSUME NEW h \in Handlers, Inserted(h) PROVE t < s
  <2> DEFINE n == created + 1
  <2>1. \A r \in Swaps : r # n => swaps'[r] = swaps[r] /\ (swaps'[r] # None => r < n)
    <3>1. ASSUME NEW r \in Swaps, r # n, swaps[r] # None PROVE r < n
      BY <3>1 DEF SwapTableInv, TypeOK, FreshIds, Swaps
    <3> QED
      BY <1>2, <3>1, InsertedRow DEF SwapTableInv
  <2>2. CASE s = n
    BY <2>1, <2>2
  <2>3. CASE s # n /\ t = n
    <3>1. swaps'[s] = swaps[s] /\ Pending(s)
      BY <2>1, <2>3 DEF Pending
    <3>2. request[h].req \notin RowsOf(swaps[s]) /\ request[h].tgt \notin RowsOf(swaps[s])
      BY <1>2, <3>1 DEF Inserted, MayInsert, Busy
    <3> QED
      BY <1>2, <2>3, <3>1, <3>2, InsertedRow DEF SwapTableInv, Shares
  <2>4. CASE s # n /\ t # n
    BY <2>1, <2>4 DEF PendingIsNewest, Pending, Shares
  <2> QED
    BY <2>2, <2>3, <2>4
<1> QED
  BY <1>1, <1>2, SwapTableStep DEF SwapTableInv

\* The accepted swaps are the same before and after the step.
SameAccepted == \A s \in Swaps : \/ swaps'[s] = swaps[s]
                                 \/ ~Accepted(s) /\ ~Accepted(s)'

AcceptedBy(h) ==
  LET s == request[h].id IN
  /\ request[h].pc = "verified" /\ Pending(s)
  /\ swaps' = UpdateStatus(s, "accepted")
  /\ rota' = Flip(swaps[s])

Repointed ==
  /\ swaps' = swaps
  /\ \E a \in Assignments :
       OpenCover(a) /\ \A b \in Assignments : b # a => rota'[b] = rota[b]

\* Without deletions and repairs, a step moves owners by an accept or by a
\* re-pointing, or leaves rota and accepted swaps alone.
LEMMA RotaStep ==
  ASSUME SwapTableInv, Quiet, cli = Off, repairs = 0, [Next]_vars
  PROVE  /\ cli' = Off /\ repairs' = 0
         /\ \/ rota' = rota /\ SameAccepted
            \/ \E h \in Handlers : AcceptedBy(h)
            \/ Repointed
<1> DEFINE Goal == /\ cli' = Off /\ repairs' = 0
                   /\ \/ rota' = rota /\ SameAccepted
                      \/ \E h \in Handlers : AcceptedBy(h)
                      \/ Repointed
<1>0. TypeOK
  BY DEF SwapTableInv
<1>a. ASSUME UNCHANGED <<rota, swaps, cli, repairs>> PROVE Goal
  BY <1>a DEF SameAccepted
<1>b. ASSUME NEW s \in Swaps, NEW x \in {"rejected", "cancelled"}, swaps' = UpdateStatus(s, x)
      PROVE  SameAccepted
  <2>1. CASE Pending(s)
    <3>1. swaps[s] \in Swap /\ x \in Statuses /\ x # "accepted"
      BY <1>0, <2>1, PendingIsSwap DEF Pending, Statuses
    <3>2. swaps' = [swaps EXCEPT ![s].status = x]
      BY <1>b, <2>1 DEF UpdateStatus
    <3>3. swaps'[s].status = x
      BY <1>0, <3>1, <3>2, Decided DEF TypeOK
    <3> QED
      BY <1>0, <2>1, <3>1, <3>2, <3>3 DEF SameAccepted, Accepted, Pending, TypeOK
  <2> QED
    BY <1>b, <2>1 DEF UpdateStatus, SameAccepted
<1>1. CASE UNCHANGED vars
  BY <1>1, <1>a DEF vars
<1>2. ASSUME NEW h \in Handlers, Handle(h) PROVE Goal
  <2>0. request[h] \in InFlight
    BY <1>0 DEF TypeOK, InFlight
  <2>1. CASE Insert(h)
    <3>1. CASE Inserted(h)
      <4>0. /\ created + 1 \in Swaps
            /\ \A s \in Swaps : s # created + 1 => swaps'[s] = swaps[s]
            /\ swaps'[created + 1] =
                 [req |-> request[h].req, tgt |-> request[h].tgt, from |-> request[h].from,
                  to |-> request[h].to, status |-> "pending"]
        BY <1>0, <3>1, InsertedRow
      <4>1. created + 1 \in Swaps /\ created + 1 > created
        BY <1>0, <4>0, BoundAssumption DEF TypeOK
      <4>2. swaps[created + 1] = None
        BY <4>1 DEF SwapTableInv, FreshIds
      <4>3. PICK n \in Swaps : n = created + 1
        BY <4>1
      <4>4. ~Accepted(n) /\ ~Accepted(n)'
        BY <4>0, <4>2, <4>3 DEF Accepted
      <4>5. SameAccepted
        BY <4>0, <4>3, <4>4 DEF SameAccepted
      <4> QED
        BY <2>1, <3>1, <4>5 DEF Insert, Inserted
    <3> QED
      BY <1>a, <2>1, <3>1 DEF Insert, Inserted
  <2>2. CASE Reject(h)
    BY <1>b, <2>0, <2>2, PcTypes DEF Reject, Decision
  <2>3. CASE Cancel(h)
    BY <1>b, <2>0, <2>3, PcTypes DEF Cancel, Decision
  <2>4. CASE Commit(h)
    BY <1>a, <2>4 DEF Commit, AcceptedBy
  <2>5. CASE View(h)
    <3>1. ASSUME NEW s \in Swaps
          PROVE  swaps'[s] = swaps[s] \/ (~Accepted(s) /\ ~Accepted(s)')
      <4>1. swaps'[s] = IF Pending(s) /\ (Past(swaps[s].req) \/ Past(swaps[s].tgt))
                        THEN [swaps[s] EXCEPT !.status = "cancelled"]
                        ELSE swaps[s]
        BY <2>5 DEF View, Expire
      <4>2. CASE Pending(s)
        <5>1. swaps[s] \in Swap /\ "cancelled" \in Statuses
          BY <1>0, <4>2, PendingIsSwap DEF Pending, Statuses
        <5>2. [swaps[s] EXCEPT !.status = "cancelled"].status = "cancelled"
          BY <5>1, Decided
        <5> QED
          BY <4>1, <4>2, <5>2 DEF Pending, Accepted
      <4> QED
        BY <4>1, <4>2
    <3> QED
      BY <2>5, <3>1 DEF View, SameAccepted
  <2>6. CASE \/ Validate(h) \/ CheckOpen(h) \/ RecheckRequester(h) \/ RecheckTarget(h)
             \/ (\E verb \in {"accept", "reject", "cancel"} : Open(h, verb))
             \/ LoadRequester(h) \/ LoadTarget(h) \/ Fail(h)
    BY <1>a, <2>6
    DEF Validate, CheckOpen, RecheckRequester, RecheckTarget, Open, LoadRequester, LoadTarget, Fail
  <2> QED
    BY <1>2, <2>1, <2>2, <2>3, <2>4, <2>5, <2>6 DEF Handle
<1>3. ASSUME (\E s \in Swaps : AdminDelete(s)) \/ (\E a \in Assignments : RemoveAssignment(a))
             \/ (\E m \in Members : RemoveMember(m)) \/ StartRepair \/ CompareSwap \/ ApplySwap
      PROVE  FALSE
  BY <1>3, NoneAssumption
  DEF Quiet, AdminDelete, RemoveAssignment, RemoveMember, StartRepair, CompareSwap, ApplySwap, Off
<1>4. CASE ReadCover \/ Tick
  BY <1>4, <1>a DEF ReadCover, Tick
<1>5. CASE RepointCover
  <2>1. CASE OpenCover(sched.row) /\ sched.member \in members
    <3>1. sched.row \in Assignments
      BY <1>0, <1>5 DEF TypeOK, RepointCover, Job
    <3>2. Repointed
      BY <1>0, <1>5, <2>1, <3>1 DEF RepointCover, Repointed, TypeOK
    <3> QED
      BY <1>5, <3>2 DEF RepointCover
  <2> QED
    BY <1>5, <1>a, <2>1 DEF RepointCover
<1> QED
  BY <1>1, <1>2, <1>3, <1>4, <1>5 DEF Next

\* The newest accepted swap of an assignment.
Newest(a, s) ==
  /\ Accepted(s) /\ a \in RowsOf(swaps[s])
  /\ \A t \in Swaps : Accepted(t) /\ a \in RowsOf(swaps[t]) => t <= s

LEMMA AcceptFollows ==
  ASSUME SwapTableInv, PendingIsNewest, RotaFollowsSwaps, NEW h \in Handlers, AcceptedBy(h)
  PROVE  RotaFollowsSwaps'
<1>0. TypeOK
  BY DEF SwapTableInv
<1>1. PICK n \in Swaps : n = request[h].id
  BY <1>0, PcTypes DEF AcceptedBy, TypeOK, InFlight, Decision
<1>2. /\ Pending(n) /\ swaps[n] \in Swap /\ swaps[n] # None
      /\ rota' = Flip(swaps[n])
      /\ swaps' = [swaps EXCEPT ![n].status = "accepted"]
  BY <1>0, <1>1, PendingIsSwap DEF AcceptedBy, Pending, UpdateStatus
<1>3. /\ RowsOf(swaps'[n]) = RowsOf(swaps[n]) /\ Accepted(n)'
      /\ \A a : Counterpart(swaps'[n], a) = Counterpart(swaps[n], a)
      /\ \A s \in Swaps : s # n => swaps'[s] = swaps[s]
  <2>1. /\ swaps'[n] = [swaps[n] EXCEPT !.status = "accepted"]
        /\ \A s \in Swaps : s # n => swaps'[s] = swaps[s]
    BY <1>0, <1>2 DEF TypeOK
  <2>2. "accepted" \in Statuses
    BY DEF Statuses
  <2>3. /\ swaps'[n] \in Swap /\ swaps'[n].status = "accepted"
        /\ swaps'[n].req = swaps[n].req /\ swaps'[n].tgt = swaps[n].tgt
        /\ swaps'[n].from = swaps[n].from /\ swaps'[n].to = swaps[n].to
    <3>1. PICK sw \in Swap : sw = swaps[n]
      BY <1>2
    <3>2. /\ [sw EXCEPT !.status = "accepted"] \in Swap
          /\ [sw EXCEPT !.status = "accepted"].status = "accepted"
          /\ [sw EXCEPT !.status = "accepted"].req = sw.req
          /\ [sw EXCEPT !.status = "accepted"].tgt = sw.tgt
          /\ [sw EXCEPT !.status = "accepted"].from = sw.from
          /\ [sw EXCEPT !.status = "accepted"].to = sw.to
      BY <2>2, Decided
    <3> QED
      BY <2>1, <3>1, <3>2
  <2> QED
    BY <2>1, <2>3, NoneAssumption DEF RowsOf, Counterpart, Accepted
<1> SUFFICES ASSUME NEW a \in Assignments, NEW s \in Swaps, rota'[a] # None, Newest(a, s)'
             PROVE  rota'[a] = [owner |-> Counterpart(swaps'[s], a), swapped |-> TRUE]
  BY DEF RotaFollowsSwaps, Newest
<1>4. rota'[a] = IF rota[a] # None /\ a \in RowsOf(swaps[n])
                 THEN [owner |-> Counterpart(swaps[n], a), swapped |-> TRUE]
                 ELSE rota[a]
  BY <1>2 DEF Flip
<1>5. CASE a \in RowsOf(swaps[n])
  <2>1. n <= s
    BY <1>3, <1>5 DEF Newest, Accepted
  <2>2. s = n
    <3>1. ASSUME s # n PROVE s < n
      <4>1. swaps[s] # None /\ RowsOf(swaps[s]) \cap RowsOf(swaps[n]) # {}
        BY <1>3, <1>5, <3>1 DEF Newest, Accepted
      <4> QED
        BY <1>2, <3>1, <4>1 DEF PendingIsNewest, Shares
    <3> QED
      BY <2>1, <3>1 DEF Swaps
  <2> QED
    BY <1>3, <1>4, <1>5, <2>2
<1>6. CASE a \notin RowsOf(swaps[n])
  <2>1. s # n
    BY <1>3, <1>6 DEF Newest
  <2>2. ~Accepted(n)
    BY <1>2 DEF Pending, Accepted
  <2>3. Newest(a, s)
    BY <1>3, <2>1, <2>2 DEF Newest, Accepted
  <2> QED
    BY <1>3, <1>4, <1>6, <2>1, <2>3 DEF RotaFollowsSwaps, Newest
<1> QED
  BY <1>5, <1>6

LEMMA RepointFollows ==
  ASSUME RotaFollowsSwaps, Repointed
  PROVE  RotaFollowsSwaps'
<1> SUFFICES ASSUME NEW a \in Assignments, NEW s \in Swaps, rota'[a] # None, Newest(a, s)'
             PROVE  rota'[a] = [owner |-> Counterpart(swaps'[s], a), swapped |-> TRUE]
  BY DEF RotaFollowsSwaps, Newest
<1>1. swaps' = swaps /\ Newest(a, s)
  BY DEF Repointed, Newest, Accepted
<1>2. PICK b \in Assignments : OpenCover(b) /\ \A c \in Assignments : c # b => rota'[c] = rota[c]
  BY DEF Repointed
<1>3. a # b
  <2>1. ASSUME a = b PROVE FALSE
    <3>1. rota[a] # None /\ ~rota[a].swapped
      BY <1>2, <2>1 DEF OpenCover
    <3>2. rota[a] = [owner |-> Counterpart(swaps[s], a), swapped |-> TRUE]
      BY <1>1, <3>1 DEF RotaFollowsSwaps, Newest
    <3> QED
      BY <3>1, <3>2
  <2> QED
    BY <2>1
<1> QED
  BY <1>1, <1>2, <1>3 DEF RotaFollowsSwaps, Newest

LEMMA SameFollows ==
  ASSUME RotaFollowsSwaps, rota' = rota, SameAccepted
  PROVE  RotaFollowsSwaps'
<1> SUFFICES ASSUME NEW a \in Assignments, NEW s \in Swaps, rota'[a] # None, Newest(a, s)'
             PROVE  rota'[a] = [owner |-> Counterpart(swaps'[s], a), swapped |-> TRUE]
  BY DEF RotaFollowsSwaps, Newest
<1>1. swaps'[s] = swaps[s]
  BY DEF Newest, SameAccepted
<1>2. \A t \in Swaps : Accepted(t) => Accepted(t)' /\ swaps'[t] = swaps[t]
  BY DEF SameAccepted, Accepted
<1>3. Newest(a, s)
  BY <1>1, <1>2 DEF Newest, Accepted
<1> QED
  BY <1>1, <1>3 DEF RotaFollowsSwaps, Newest

(* If no row is deleted and nobody runs the reconcile command, the newest  *)
(* accepted swap of an assignment says who holds it, for any number of     *)
(* concurrent requests and re-pointings.                                   *)
THEOREM SwapsExplainTheRota ==
  ASSUME ~Deletions, MaxRepairs = 0
  PROVE  Spec => []RotaFollowsSwaps
<1>0. Quiet
  BY DEF Quiet
<1>1. Init => HistoryInv
  BY TypeInit
  DEF HistoryInv, SwapTableInv, FreshIds, PendingExclusive, PendingIsNewest, RotaFollowsSwaps,
      Pending, Accepted, Init
<1>2. HistoryInv /\ [Next]_vars => HistoryInv'
  <2> SUFFICES ASSUME HistoryInv, [Next]_vars PROVE HistoryInv'
    OBVIOUS
  <2> USE DEF HistoryInv
  <2>1. SwapTableInv' /\ PendingIsNewest'
    BY SwapTableNext, NewestNext
  <2>2. cli' = Off /\ repairs' = 0
    BY <1>0, RotaStep
  <2>3. RotaFollowsSwaps'
    BY <1>0, RotaStep, AcceptFollows, RepointFollows, SameFollows
  <2> QED
    BY <2>1, <2>2, <2>3 DEF Off
<1>3. HistoryInv => RotaFollowsSwaps
  BY DEF HistoryInv
<1> QED
  BY <1>1, <1>2, <1>3, PTL DEF Spec

-----------------------------------------------------------------------------
(* How a step moves owners, deletions and repairs included.                *)

\* What the scheduler has decided on is a cover.
CoverJob == sched # None => sched.row \in Covers

\* The step leaves the row, deletes it, or re-points a cover no swap has moved.
RowStays(a) ==
  \/ rota'[a] = rota[a]
  \/ rota'[a] = None
  \/ /\ a \in Covers /\ rota[a] # None /\ ~rota[a].swapped
     /\ rota'[a] # None /\ ~rota'[a].swapped

LEMMA CoverJobNext ==
  ASSUME CoverJob, [Next]_vars
  PROVE  CoverJob'
<1>1. CASE UNCHANGED sched
  BY <1>1 DEF CoverJob
<1>2. CASE ReadCover
  BY <1>2 DEF ReadCover, CoverJob
<1>3. CASE RepointCover
  BY <1>3 DEF RepointCover, CoverJob
<1>4. ASSUME NEW h \in Handlers, Handle(h) PROVE UNCHANGED sched
  BY <1>4
  DEF Handle, Validate, CheckOpen, RecheckRequester, RecheckTarget, Insert, Open, Reject, Cancel,
      LoadRequester, LoadTarget, Commit, View, Fail
<1> QED
  BY <1>1, <1>2, <1>3, <1>4
  DEF Next, vars, AdminDelete, RemoveAssignment, RemoveMember, StartRepair, CompareSwap,
      ApplySwap, Tick

LEMMA RepointStays ==
  ASSUME TypeOK, CoverJob, RepointCover
  PROVE  \A a \in Assignments : RowStays(a)
<1>1. sched \in Job /\ sched.row \in Assignments /\ sched.row \in Covers
  BY DEF RepointCover, TypeOK, CoverJob, Job
<1>2. CASE OpenCover(sched.row) /\ sched.member \in members
  <2>1. rota[sched.row] \in Row /\ ~rota[sched.row].swapped
    BY <1>1, <1>2 DEF OpenCover, TypeOK
  <2>2. /\ rota'[sched.row] = [rota[sched.row] EXCEPT !.owner = sched.member]
        /\ \A a \in Assignments : a # sched.row => rota'[a] = rota[a]
    BY <1>1, <1>2 DEF RepointCover, TypeOK
  <2>3. rota'[sched.row] \in Row /\ ~rota'[sched.row].swapped
    BY <1>2, <2>1, <2>2, <1>1 DEF Row, TypeOK
  <2>4. RowStays(sched.row)
    BY <1>1, <2>1, <2>3, NotNone DEF RowStays
  <2> QED
    BY <2>2, <2>4 DEF RowStays
<1> QED
  BY <1>2 DEF RepointCover, RowStays

\* A step moves owners by an accept, by a repair, or leaves every row in its place.
LEMMA OwnerStep ==
  ASSUME TypeOK, CoverJob, [Next]_vars
  PROVE  \/ \A a \in Assignments : RowStays(a)
         \/ \E h \in Handlers : Commit(h) /\ AcceptedBy(h)
         \/ cli.job # None /\ rota' = Flip(cli.job)
<1> DEFINE Stay == \A a \in Assignments : RowStays(a)
<1>0. ASSUME UNCHANGED rota PROVE Stay
  BY <1>0 DEF RowStays
<1>1. CASE UNCHANGED vars
  BY <1>0, <1>1 DEF vars
<1>2. ASSUME NEW h \in Handlers, Handle(h) PROVE Stay \/ (Commit(h) /\ AcceptedBy(h))
  <2>1. CASE Commit(h)
    BY <1>0, <2>1 DEF Commit, AcceptedBy
  <2>2. CASE ~Commit(h)
    BY <1>0, <1>2, <2>2
    DEF Handle, Validate, CheckOpen, RecheckRequester, RecheckTarget, Insert, Open, Reject, Cancel,
        LoadRequester, LoadTarget, View, Fail
  <2> QED
    BY <2>1, <2>2
<1>3. ASSUME NEW a \in Assignments, RemoveAssignment(a) PROVE Stay
  BY <1>3 DEF RemoveAssignment, RowStays, TypeOK
<1>4. ASSUME NEW m \in Members, RemoveMember(m) PROVE Stay
  BY <1>4 DEF RemoveMember, RowStays
<1>5. CASE RepointCover
  BY <1>5, RepointStays
<1>6. CASE ApplySwap
  BY <1>0, <1>6 DEF ApplySwap
<1>7. CASE \/ (\E s \in Swaps : AdminDelete(s))
           \/ ReadCover \/ StartRepair \/ CompareSwap \/ Tick
  BY <1>0, <1>7 DEF AdminDelete, ReadCover, StartRepair, CompareSwap, Tick
<1> QED
  BY <1>1, <1>2, <1>3, <1>4, <1>5, <1>6, <1>7 DEF Next

\* An accept sets the status of the swap it flips.
LEMMA AcceptedRow ==
  ASSUME TypeOK, NEW h \in Handlers, AcceptedBy(h)
  PROVE  \E n \in Swaps :
           /\ n = request[h].id /\ Pending(n) /\ Accepted(n)' /\ rota' = Flip(swaps[n])
           /\ \A s \in Swaps : s # n => swaps'[s] = swaps[s]
<1>1. PICK n \in Swaps : n = request[h].id
  BY PcTypes DEF AcceptedBy, TypeOK, InFlight, Decision
<1>2. Pending(n) /\ swaps[n] \in Swap /\ "accepted" \in Statuses
  BY <1>1, PendingIsSwap DEF AcceptedBy, Pending, Statuses
<1>3. swaps' = [swaps EXCEPT ![n].status = "accepted"]
  BY <1>1, <1>2 DEF AcceptedBy, UpdateStatus
<1>4. /\ swaps'[n] = [swaps[n] EXCEPT !.status = "accepted"]
      /\ \A s \in Swaps : s # n => swaps'[s] = swaps[s]
  BY <1>3 DEF TypeOK
<1>5. swaps'[n] \in Swap /\ swaps'[n].status = "accepted"
  BY <1>2, <1>4, Decided
<1> QED
  BY <1>1, <1>2, <1>4, <1>5, NotNone DEF Accepted, AcceptedBy

(* An assignment changes hands only with a swap that is accepted in the    *)
(* same step and moves both its days, by the scheduler if it is a cover no *)
(* swap has moved, or by the reconcile command carrying out a swap; with   *)
(* any number of handlers, deletions and repairs.                          *)
THEOREM OwnersMoveOnlyBySwap == Spec => OwnersMoveBySwap
<1> DEFINE Inv == TypeOK /\ CoverJob
           Moved == \A a \in Assignments :
             rota[a] # None /\ rota'[a] # None /\ rota'[a].owner # rota[a].owner =>
               \/ \E s \in Swaps : Pending(s) /\ Accepted(s)' /\ rota' = Flip(swaps[s])
               \/ a \in Covers /\ ~rota[a].swapped /\ ~rota'[a].swapped
               \/ cli.job # None /\ rota' = Flip(cli.job)
<1>1. Init => Inv
  BY TypeInit DEF Init, CoverJob
<1>2. Inv /\ [Next]_vars => Inv'
  BY TypeNext, CoverJobNext
<1>3. Inv /\ [Next]_vars => [Moved]_vars
  <2> SUFFICES ASSUME Inv, [Next]_vars PROVE Moved
    OBVIOUS
  <2>1. CASE \A a \in Assignments : RowStays(a)
    BY <2>1 DEF RowStays
  <2>2. ASSUME NEW h \in Handlers, AcceptedBy(h) PROVE Moved
    BY <2>2, AcceptedRow
  <2>3. CASE cli.job # None /\ rota' = Flip(cli.job)
    BY <2>3
  <2> QED
    BY <2>1, <2>2, <2>3, OwnerStep
<1> QED
  BY <1>1, <1>2, <1>3, PTL DEF Spec, OwnersMoveBySwap

-----------------------------------------------------------------------------
(* One request at a time: a pending swap, and a request that is about to    *)
(* become one, name the members who hold the days.  A cover that no swap    *)
(* has moved may be re-pointed meanwhile.                                   *)

Alone == \A g, h \in Handlers : g = h

Held(m, a) ==
  rota[a] # None => (a \in Covers /\ ~rota[a].swapped) \/ rota[a].owner = m

PairHeld(p) ==
  p.req # p.tgt /\ p.from # p.to /\ Held(p.from, p.req) /\ Held(p.to, p.tgt)

Referenced == \A s \in Swaps :
  swaps[s] # None => rota[swaps[s].req] # None /\ rota[swaps[s].tgt] # None

Captured ==
  /\ cli = Off
  /\ \A s \in Swaps : Pending(s) => PairHeld(swaps[s])
  /\ \A h \in Handlers : request[h] \in Proposal => PairHeld(request[h])

LiveInv == SwapTableInv /\ CoverJob /\ Referenced /\ (repairs = 0 => Captured)

LEMMA HeldStays ==
  ASSUME NEW a \in Assignments, NEW m, RowStays(a), Held(m, a)
  PROVE  Held(m, a)'
BY DEF RowStays, Held

LEMMA PairStays ==
  ASSUME NEW p, p.req \in Assignments, p.tgt \in Assignments, PairHeld(p),
         \A a \in Assignments : RowStays(a)
  PROVE  p.req # p.tgt /\ p.from # p.to /\ Held(p.from, p.req)' /\ Held(p.to, p.tgt)'
BY HeldStays DEF PairHeld

\* A flip exchanges the owners of its two days and leaves the others.
LEMMA FlipRows ==
  ASSUME TypeOK, NEW s \in Swap, rota' = Flip(s)
  PROVE  /\ \A a \in Assignments : rota'[a] = None <=> rota[a] = None
         /\ \A a \in Assignments : a \notin RowsOf(s) => rota'[a] = rota[a]
         /\ rota[s.req] # None => rota'[s.req] = [owner |-> s.to, swapped |-> TRUE]
         /\ rota[s.tgt] # None /\ s.req # s.tgt =>
              rota'[s.tgt] = [owner |-> s.from, swapped |-> TRUE]
<1>1. s.req \in Assignments /\ s.tgt \in Assignments /\ s.from \in Members /\ s.to \in Members
  BY DEF Swap
<1>2. ASSUME NEW m \in Members PROVE [owner |-> m, swapped |-> TRUE] # None
  <2>1. [owner |-> m, swapped |-> TRUE] \in Row
    BY DEF Row
  <2> QED
    BY <2>1, NotNone
<1>3. \A a \in Assignments :
        rota'[a] = IF rota[a] # None /\ a \in RowsOf(s)
                   THEN [owner |-> Counterpart(s, a), swapped |-> TRUE]
                   ELSE rota[a]
  BY DEF Flip
<1>4. \A a \in Assignments : Counterpart(s, a) \in Members
  BY <1>1 DEF Counterpart
<1>5. \A a \in Assignments : rota'[a] = None <=> rota[a] = None
  BY <1>2, <1>3, <1>4
<1>6. rota[s.req] # None => rota'[s.req] = [owner |-> s.to, swapped |-> TRUE]
  BY <1>1, <1>3 DEF RowsOf, Counterpart
<1>7. rota[s.tgt] # None /\ s.req # s.tgt =>
        rota'[s.tgt] = [owner |-> s.from, swapped |-> TRUE]
  BY <1>1, <1>3 DEF RowsOf, Counterpart
<1> QED
  BY <1>3, <1>5, <1>6, <1>7

\* The rows a swap refers to outlive it.
LEMMA ReferencedNext ==
  ASSUME TypeOK, Referenced, [Next]_vars
  PROVE  Referenced'
<1>1. ASSUME \A a \in Assignments : rota'[a] = None => rota[a] = None
      PROVE  Referenced'
  <2> SUFFICES ASSUME NEW s \in Swaps, swaps'[s] # None
               PROVE  rota'[swaps'[s].req] # None /\ rota'[swaps'[s].tgt] # None
    BY DEF Referenced
  <2>1. CASE Kept(s)
    <3>1. /\ swaps[s] # None /\ swaps'[s].req = swaps[s].req /\ swaps'[s].tgt = swaps[s].tgt
          /\ swaps[s].req \in Assignments /\ swaps[s].tgt \in Assignments
      BY <2>1, KeptRow, PendingIsSwap
    <3> QED
      BY <1>1, <3>1 DEF Referenced
  <2>2. ASSUME NEW h \in Handlers, Inserted(h)
        PROVE  rota'[swaps'[s].req] # None /\ rota'[swaps'[s].tgt] # None
    <3>1. rota' = rota /\ rota[request[h].req] # None /\ rota[request[h].tgt] # None
      BY <2>2 DEF Inserted, MayInsert, References
    <3>2. CASE s = created + 1
      <4>0. swaps'[created + 1] =
              [req |-> request[h].req, tgt |-> request[h].tgt, from |-> request[h].from,
               to |-> request[h].to, status |-> "pending"]
        BY <2>2, InsertedRow
      <4>1. /\ swaps'[created + 1].req = request[h].req
            /\ swaps'[created + 1].tgt = request[h].tgt
        BY <4>0
      <4> QED
        BY <3>1, <3>2, <4>1
    <3>3. CASE s # created + 1
      BY <2>2, <3>1, <3>3, InsertedRow DEF Referenced
    <3> QED
      BY <3>2, <3>3
  <2> QED
    BY <2>1, <2>2, SwapTableStep
<1>2. ASSUME NEW a \in Assignments, RemoveAssignment(a) PROVE Referenced'
  <2> SUFFICES ASSUME NEW s \in Swaps, swaps'[s] # None
               PROVE  rota'[swaps'[s].req] # None /\ rota'[swaps'[s].tgt] # None
    BY DEF Referenced
  <2>1. swaps'[s] = swaps[s] /\ swaps[s] # None /\ a # swaps[s].req /\ a # swaps[s].tgt
    BY <1>2 DEF RemoveAssignment, RowsOf
  <2> QED
    BY <1>2, <2>1 DEF RemoveAssignment, Referenced, TypeOK
<1>3. ASSUME NEW m \in Members, RemoveMember(m) PROVE Referenced'
  <2> DEFINE gone == {a \in Assignments : Owns(m, a)}
  <2> SUFFICES ASSUME NEW s \in Swaps, swaps'[s] # None
               PROVE  rota'[swaps'[s].req] # None /\ rota'[swaps'[s].tgt] # None
    BY DEF Referenced
  <2>1. swaps'[s] = swaps[s] /\ swaps[s] # None /\ RowsOf(swaps[s]) \cap gone = {}
    BY <1>3 DEF RemoveMember
  <2>2. swaps[s].req \in Assignments \ gone /\ swaps[s].tgt \in Assignments \ gone
    BY <2>1, PendingIsSwap DEF RowsOf
  <2>3. \A a \in Assignments : a \notin gone => rota'[a] = rota[a]
    BY <1>3 DEF RemoveMember
  <2> QED
    BY <2>1, <2>2, <2>3 DEF Referenced
<1>4. ASSUME NEW h \in Handlers, Commit(h) PROVE Referenced'
  <2>1. CASE AcceptedBy(h)
    <3>1. PICK n \in Swaps : Pending(n) /\ rota' = Flip(swaps[n])
      BY <2>1, AcceptedRow
    <3>2. swaps[n] \in Swap
      BY <3>1, PendingIsSwap DEF Pending
    <3> QED
      BY <1>1, <3>1, <3>2, FlipRows
  <2>2. CASE UNCHANGED rota
    BY <1>1, <2>2
  <2> QED
    BY <1>4, <2>1, <2>2 DEF Commit, AcceptedBy
<1>5. CASE ApplySwap
  <2>1. cli.job \in Swap
    BY <1>5 DEF ApplySwap, TypeOK
  <2> QED
    BY <1>1, <1>5, <2>1, FlipRows DEF ApplySwap
<1>6. CASE RepointCover
  <2>1. \A a \in Assignments : rota'[a] = None => rota[a] = None
    <3>1. CASE OpenCover(sched.row) /\ sched.member \in members
      <4>1. /\ sched.row \in Assignments /\ rota[sched.row] \in Row
            /\ sched.member \in Members
        BY <1>6, <3>1 DEF RepointCover, TypeOK, Job, OpenCover
      <4>2. [rota[sched.row] EXCEPT !.owner = sched.member] # None
        BY <4>1, NotNone DEF Row
      <4> QED
        BY <1>6, <3>1, <4>1, <4>2 DEF RepointCover, TypeOK, OpenCover
    <3> QED
      BY <1>6, <3>1 DEF RepointCover
  <2> QED
    BY <1>1, <2>1
<1>7. CASE UNCHANGED rota
  BY <1>1, <1>7
<1>8. ASSUME NEW h \in Handlers, Handle(h), ~Commit(h) PROVE UNCHANGED rota
  BY <1>8
  DEF Handle, Validate, CheckOpen, RecheckRequester, RecheckTarget, Insert, Open, Reject, Cancel,
      LoadRequester, LoadTarget, View, Fail
<1> QED
  BY <1>2, <1>3, <1>4, <1>5, <1>6, <1>7, <1>8
  DEF Next, vars, AdminDelete, ReadCover, StartRepair, CompareSwap, Tick

SamePair(p, q) == p.req = q.req /\ p.tgt = q.tgt /\ p.from = q.from /\ p.to = q.to

\* The pair that Validate captures.
Validated(h) ==
  /\ UNCHANGED <<rota, swaps>>
  /\ request'[h] \in Proposal
  /\ \E a, b \in Assignments :
       /\ a # b /\ rota[a] # None /\ rota[b] # None /\ rota[a].owner # rota[b].owner
       /\ request'[h].req = a /\ request'[h].from = rota[a].owner
       /\ request'[h].tgt = b /\ request'[h].to = rota[b].owner

LEMMA AdvancedPair ==
  ASSUME TypeOK, NEW h \in Handlers, request[h] \in Proposal,
         NEW c \in {"checked", "requester", "target"},
         Become(h, [request[h] EXCEPT !.pc = c]) \/ Refuse(h), request'[h] \in Proposal
  PROVE  SamePair(request'[h], request[h])
<1>1. CASE Refuse(h)
  BY <1>1 DEF Refuse, Become, Idle, Page, Proposal, TypeOK
<1>2. CASE Become(h, [request[h] EXCEPT !.pc = c])
  <2>1. request'[h] = [request[h] EXCEPT !.pc = c]
    BY <1>2 DEF Become, TypeOK
  <2> QED
    BY <2>1 DEF Proposal, SamePair
<1> QED
  BY <1>1, <1>2

LEMMA ProposalStep ==
  ASSUME TypeOK, [Next]_vars, NEW h \in Handlers, request'[h] \in Proposal
  PROVE  \/ request[h] \in Proposal /\ SamePair(request'[h], request[h])
         \/ Validated(h)
<1> DEFINE Goal == \/ request[h] \in Proposal /\ SamePair(request'[h], request[h])
                   \/ Validated(h)
<1>1. CASE request'[h] = request[h]
  BY <1>1 DEF SamePair
<1>2. CASE Handle(h)
  <2>0. request[h] \in InFlight
    BY DEF TypeOK, InFlight
  <2>1. CASE Validate(h)
    <3>1. PICK a \in Assignments, b \in Assignments :
            /\ a # b /\ rota[a] # None /\ rota[b] # None /\ rota[a].owner # rota[b].owner
            /\ Become(h, [pc |-> "validated", req |-> a, tgt |-> b,
                          from |-> rota[a].owner, to |-> rota[b].owner])
      BY <2>1 DEF Validate
    <3>2. request'[h] = [pc |-> "validated", req |-> a, tgt |-> b,
                         from |-> rota[a].owner, to |-> rota[b].owner]
      BY <3>1 DEF Become, TypeOK
    <3>3. /\ request'[h].req = a /\ request'[h].from = rota[a].owner
          /\ request'[h].tgt = b /\ request'[h].to = rota[b].owner
      BY <3>2
    <3> QED
      BY <2>1, <3>1, <3>3 DEF Validate, Validated
  <2>2. CASE CheckOpen(h)
    BY <2>0, <2>2, PcTypes, AdvancedPair DEF CheckOpen
  <2>3. CASE RecheckRequester(h)
    BY <2>0, <2>3, PcTypes, AdvancedPair DEF RecheckRequester
  <2>4. CASE RecheckTarget(h)
    BY <2>0, <2>4, PcTypes, AdvancedPair DEF RecheckTarget
  <2>5. ASSUME NEW r \in {Idle, Page} \cup Decision \cup Loaded, Become(h, r) PROVE FALSE
    <3>1. request'[h] = r
      BY <2>5 DEF Become, TypeOK
    <3> QED
      BY <2>5, <3>1 DEF Idle, Page, Decision, Loaded, Proposal
  <2>6. CASE Refuse(h) \/ Become(h, Idle)
    BY <2>5, <2>6 DEF Refuse
  <2>7. ASSUME NEW verb \in {"accept", "reject", "cancel"}, Open(h, verb) PROVE FALSE
    <3>1. PICK s \in Swaps : Become(h, [pc |-> verb, id |-> s])
      BY <2>7 DEF Open
    <3>2. [pc |-> verb, id |-> s] \in Decision
      BY DEF Decision
    <3> QED
      BY <2>5, <3>1, <3>2
  <2>8. CASE LoadRequester(h)
    <3>1. CASE Pending(request[h].id) /\ rota[swaps[request[h].id].req] # None
      <4>1. PICK s \in Swaps : s = request[h].id
        BY <2>0, <2>8, PcTypes DEF LoadRequester, Decision
      <4>2. rota[swaps[s].req].owner \in Members
        BY <3>1, <4>1, PendingIsSwap DEF Pending, Row, TypeOK
      <4>3. [pc |-> "loaded", id |-> s, owner |-> rota[swaps[s].req].owner] \in Loaded
        BY <4>2 DEF Loaded
      <4> QED
        BY <2>5, <2>8, <3>1, <4>1, <4>3 DEF LoadRequester
    <3> QED
      BY <2>6, <2>8, <3>1 DEF LoadRequester
  <2>9. CASE LoadTarget(h)
    <3>1. [pc |-> "verified", id |-> request[h].id] \in Decision
      BY <2>0, <2>9, PcTypes DEF LoadTarget, Loaded, Decision
    <3> QED
      BY <2>5, <2>6, <2>9, <3>1 DEF LoadTarget
  <2>10. CASE Insert(h) \/ Reject(h) \/ Cancel(h) \/ Commit(h) \/ View(h) \/ Fail(h)
    BY <2>6, <2>10 DEF Insert, Reject, Cancel, Commit, View, Fail
  <2> QED
    BY <1>2, <2>1, <2>2, <2>3, <2>4, <2>7, <2>8, <2>9, <2>10 DEF Handle
<1>3. ASSUME NEW g \in Handlers, Handle(g), g # h PROVE request'[h] = request[h]
  <2>1. ASSUME NEW r, Become(g, r) PROVE request'[h] = request[h]
    BY <1>3, <2>1 DEF Become, TypeOK
  <2> QED
    BY <1>3, <2>1
    DEF Handle, Validate, CheckOpen, RecheckRequester, RecheckTarget, Insert, Open, Reject, Cancel,
        LoadRequester, LoadTarget, Commit, View, Fail, Refuse
<1>4. ASSUME ~\E g \in Handlers : Handle(g) PROVE request' = request
  BY <1>4
  DEF Next, vars, AdminDelete, RemoveAssignment, RemoveMember, ReadCover, RepointCover,
      StartRepair, CompareSwap, ApplySwap, Tick
<1> QED
  BY <1>1, <1>2, <1>3, <1>4

LEMMA RepairsOnlyGrow ==
  ASSUME TypeOK, [Next]_vars, repairs' = 0
  PROVE  /\ repairs = 0
         /\ cli = Off => cli' = Off
<1>1. CASE StartRepair
  BY <1>1 DEF StartRepair, TypeOK
<1>2. CASE CompareSwap \/ ApplySwap
  BY <1>2 DEF CompareSwap, ApplySwap, Off
<1>3. ASSUME NEW h \in Handlers, Handle(h) PROVE UNCHANGED <<cli, repairs>>
  BY <1>3
  DEF Handle, Validate, CheckOpen, RecheckRequester, RecheckTarget, Insert, Open, Reject, Cancel,
      LoadRequester, LoadTarget, Commit, View, Fail
<1> QED
  BY <1>1, <1>2, <1>3
  DEF Next, vars, AdminDelete, RemoveAssignment, RemoveMember, ReadCover, RepointCover, Tick

\* A step that moves nobody keeps what was captured.
LEMMA CapturedStays ==
  ASSUME SwapTableInv, Captured, [Next]_vars, \A a \in Assignments : RowStays(a)
  PROVE  /\ \A s \in Swaps : Pending(s)' => PairHeld(swaps[s])'
         /\ \A h \in Handlers : request'[h] \in Proposal => PairHeld(request[h])'
<1>0. TypeOK
  BY DEF SwapTableInv
<1>1. ASSUME NEW s \in Swaps, Pending(s)' PROVE PairHeld(swaps[s])'
  <2>1. CASE Kept(s)
    <3>1. Pending(s) /\ swaps'[s] = swaps[s]
      BY <1>0, <1>1, <2>1, KeptRow DEF Pending
    <3>2. swaps[s].req \in Assignments /\ swaps[s].tgt \in Assignments
      BY <1>0, <3>1, PendingIsSwap DEF Pending
    <3> QED
      BY <3>1, <3>2, PairStays DEF Captured, PairHeld, Held
  <2>2. ASSUME NEW h \in Handlers, Inserted(h) PROVE PairHeld(swaps[s])'
    <3>1. CASE s # created + 1
      <4>1. Pending(s) /\ swaps'[s] = swaps[s]
        BY <1>0, <1>1, <2>2, <3>1, InsertedRow DEF Pending
      <4> QED
        BY <2>2, <4>1 DEF Captured, PairHeld, Held, Inserted
    <3>2. CASE s = created + 1
      <4>1. request[h] \in Proposal /\ rota' = rota
        BY <1>0, <2>2, InsertedRow DEF Inserted
      <4>2. swaps'[created + 1] =
              [req |-> request[h].req, tgt |-> request[h].tgt, from |-> request[h].from,
               to |-> request[h].to, status |-> "pending"]
        BY <1>0, <2>2, InsertedRow
      <4>3. /\ swaps'[created + 1].req = request[h].req /\ swaps'[created + 1].tgt = request[h].tgt
            /\ swaps'[created + 1].from = request[h].from /\ swaps'[created + 1].to = request[h].to
        BY <4>2
      <4>4. PairHeld(request[h])
        BY <4>1 DEF Captured
      <4> QED
        BY <3>2, <4>1, <4>3, <4>4 DEF PairHeld, Held
    <3> QED
      BY <3>1, <3>2
  <2> QED
    BY <1>0, <2>1, <2>2, SwapTableStep
<1>2. ASSUME NEW h \in Handlers, request'[h] \in Proposal PROVE PairHeld(request[h])'
  <2>1. CASE request[h] \in Proposal /\ SamePair(request'[h], request[h])
    <3>1. request[h].req \in Assignments /\ request[h].tgt \in Assignments
      BY <2>1 DEF Proposal
    <3> QED
      BY <2>1, <3>1, PairStays DEF Captured, SamePair, PairHeld, Held
  <2>2. CASE Validated(h)
    BY <2>2 DEF Validated, PairHeld, Held
  <2> QED
    BY <1>0, <1>2, <2>1, <2>2, ProposalStep
<1> QED
  BY <1>1, <1>2

\* An accept takes the days of its own swap, and of no other pending one.
LEMMA CapturedAccept ==
  ASSUME SwapTableInv, Captured, Alone, NEW h \in Handlers, Commit(h), AcceptedBy(h)
  PROVE  /\ \A s \in Swaps : Pending(s)' => PairHeld(swaps[s])'
         /\ \A g \in Handlers : request'[g] \in Proposal => PairHeld(request[g])'
<1>0. TypeOK /\ PendingExclusive
  BY DEF SwapTableInv
<1>1. PICK n \in Swaps : /\ n = request[h].id /\ Pending(n) /\ Accepted(n)' /\ rota' = Flip(swaps[n])
                         /\ \A s \in Swaps : s # n => swaps'[s] = swaps[s]
  BY <1>0, AcceptedRow
<1>2. swaps[n] \in Swap
  BY <1>0, <1>1, PendingIsSwap DEF Pending
<1>3. ASSUME NEW s \in Swaps, Pending(s)' PROVE PairHeld(swaps[s])'
  <2>1. s # n
    BY <1>1, <1>3 DEF Pending, Accepted
  <2>2. swaps'[s] = swaps[s] /\ Pending(s)
    BY <1>1, <1>3, <2>1 DEF Pending
  <2>3. swaps[s].req \in Assignments /\ swaps[s].tgt \in Assignments
    BY <1>0, <2>2, PendingIsSwap DEF Pending
  <2>4. swaps[s].req \notin RowsOf(swaps[n]) /\ swaps[s].tgt \notin RowsOf(swaps[n])
    BY <1>0, <1>1, <2>1, <2>2 DEF PendingExclusive, RowsOf
  <2>5. rota'[swaps[s].req] = rota[swaps[s].req] /\ rota'[swaps[s].tgt] = rota[swaps[s].tgt]
    BY <1>0, <1>1, <1>2, <2>3, <2>4, FlipRows
  <2> QED
    BY <2>2, <2>5 DEF Captured, PairHeld, Held
<1>4. ASSUME NEW g \in Handlers PROVE request'[g] = Idle
  BY <1>0, <1>1 DEF Alone, Commit, Become, TypeOK
<1>5. Idle \notin Proposal
  BY DEF Idle, Proposal
<1> QED
  BY <1>3, <1>4, <1>5

LEMMA LiveNext ==
  ASSUME Alone, LiveInv, [Next]_vars
  PROVE  LiveInv'
<1>0. TypeOK
  BY DEF LiveInv, SwapTableInv
<1>1. SwapTableInv' /\ CoverJob' /\ Referenced'
  BY <1>0, SwapTableNext, CoverJobNext, ReferencedNext DEF LiveInv
<1>2. ASSUME repairs' = 0 PROVE Captured'
  <2>1. repairs = 0 /\ Captured /\ cli = Off /\ cli' = Off
    BY <1>0, <1>2, RepairsOnlyGrow DEF LiveInv, Captured
  <2>2. \/ \A a \in Assignments : RowStays(a)
        \/ \E h \in Handlers : Commit(h) /\ AcceptedBy(h)
    BY <1>0, <2>1, OwnerStep DEF LiveInv, Off
  <2> QED
    BY <2>1, <2>2, CapturedStays, CapturedAccept DEF LiveInv, Captured, Off
<1> QED
  BY <1>1, <1>2 DEF LiveInv

LEMMA LiveInvariant ==
  ASSUME Alone
  PROVE  Spec => []LiveInv
<1>1. Init => LiveInv
  <2> SUFFICES ASSUME Init PROVE LiveInv
    OBVIOUS
  <2>1. SwapTableInv /\ CoverJob /\ Referenced
    BY TypeInit DEF Init, SwapTableInv, FreshIds, PendingExclusive, Pending, CoverJob, Referenced
  <2>2. Captured
    BY DEF Init, Captured, Pending, Idle, Proposal
  <2> QED
    BY <2>1, <2>2 DEF LiveInv
<1>2. LiveInv /\ [Next]_vars => LiveInv'
  BY LiveNext
<1> QED
  BY <1>1, <1>2, PTL DEF Spec

(* With requests one at a time and before any repair, the pair captured by *)
(* a pending swap is the pair of live owners, covers aside, through        *)
(* deletions of swaps, days and members and any work of the scheduler.     *)
THEOREM CapturedPairsAreLive ==
  ASSUME \A g, h \in Handlers : g = h
  PROVE  Spec => []CapturedPairIsLive
<1>1. Spec => []LiveInv
  BY LiveInvariant DEF Alone
<1>2. LiveInv => CapturedPairIsLive
  BY DEF LiveInv, Referenced, Captured, PairHeld, Held, CapturedPairIsLive, Owns, Pending
<1> QED
  BY <1>1, <1>2, PTL

-----------------------------------------------------------------------------
(* A swap exchanges one day for another.                                    *)

LEMMA ExchangeCounts ==
  ASSUME NEW S, IsFiniteSet(S), NEW x \in S, NEW y, y \notin S
  PROVE  Cardinality((S \ {x}) \cup {y}) = Cardinality(S)
<1>1. /\ IsFiniteSet(S \ {x}) /\ Cardinality(S) \in Nat
      /\ Cardinality(S \ {x}) = Cardinality(S) - 1
  BY FS_RemoveElement, FS_CardinalityType
<1>2. Cardinality((S \ {x}) \cup {y}) = Cardinality(S \ {x}) + 1
  BY <1>1, FS_AddElement
<1> QED
  BY <1>1, <1>2

LEMMA FlipExchanges ==
  ASSUME TypeOK, NEW s \in Swap, rota' = Flip(s), s.req # s.tgt, s.from # s.to,
         Owns(s.from, s.req), Owns(s.to, s.tgt), NEW m \in Members
  PROVE  Cardinality(DaysOf(m)') = Cardinality(DaysOf(m))
<1>1. s.req \in Assignments /\ s.tgt \in Assignments
  BY DEF Swap
<1>2. /\ Owns(s.to, s.req)' /\ Owns(s.from, s.tgt)'
      /\ \A a \in Assignments \ {s.req, s.tgt} : rota'[a] = rota[a]
  <2>1. /\ rota'[s.req] = [owner |-> s.to, swapped |-> TRUE] /\ rota'[s.req] # None
        /\ rota'[s.tgt] = [owner |-> s.from, swapped |-> TRUE] /\ rota'[s.tgt] # None
        /\ \A a \in Assignments : a \notin RowsOf(s) => rota'[a] = rota[a]
    BY <1>1, FlipRows DEF Owns
  <2> QED
    BY <2>1 DEF Owns, RowsOf
<1>3. IsFiniteSet(DaysOf(m))
  BY FiniteAssumption, FS_Subset DEF DaysOf
<1>4. CASE m = s.from
  <2>1. s.req \in DaysOf(m) /\ s.tgt \notin DaysOf(m)
    BY <1>1, <1>4 DEF DaysOf, Owns
  <2>2. DaysOf(m)' = (DaysOf(m) \ {s.req}) \cup {s.tgt}
    BY <1>1, <1>2, <1>4 DEF DaysOf, Owns
  <2> QED
    BY <1>3, <2>1, <2>2, ExchangeCounts
<1>5. CASE m = s.to
  <2>1. s.tgt \in DaysOf(m) /\ s.req \notin DaysOf(m)
    BY <1>1, <1>5 DEF DaysOf, Owns
  <2>2. DaysOf(m)' = (DaysOf(m) \ {s.tgt}) \cup {s.req}
    BY <1>1, <1>2, <1>5 DEF DaysOf, Owns
  <2> QED
    BY <1>3, <2>1, <2>2, ExchangeCounts
<1>6. CASE m # s.from /\ m # s.to
  <2>1. DaysOf(m)' = DaysOf(m)
    BY <1>1, <1>2, <1>6 DEF DaysOf, Owns
  <2> QED
    BY <2>1
<1> QED
  BY <1>4, <1>5, <1>6

(* With requests one at a time and before any repair, a step that moves    *)
(* days other than covers, and deletes none, leaves everybody with as many *)
(* days as before.                                                         *)
THEOREM SwapsConserveDays ==
  ASSUME \A g, h \in Handlers : g = h
  PROVE  Spec => DaysAreConserved
<1> DEFINE Conserved ==
             /\ repairs = 0 /\ rota' # rota
             /\ \A a \in Assignments : rota[a] # None => rota'[a] # None
             /\ \A a \in Covers : rota'[a] = rota[a]
             => \A m \in Members : Cardinality(DaysOf(m)') = Cardinality(DaysOf(m))
<1>1. LiveInv /\ [Next]_vars => [Conserved]_vars
  <2> SUFFICES ASSUME LiveInv, [Next]_vars, repairs = 0, rota' # rota,
                      \A a \in Assignments : rota[a] # None => rota'[a] # None,
                      \A a \in Covers : rota'[a] = rota[a]
               PROVE  \A m \in Members : Cardinality(DaysOf(m)') = Cardinality(DaysOf(m))
    OBVIOUS
  <2>0. TypeOK /\ TypeOK' /\ Captured
    BY TypeNext DEF LiveInv, SwapTableInv
  <2>1. CASE \A a \in Assignments : RowStays(a)
    <3>1. \A a \in Assignments : rota'[a] = rota[a]
      BY <2>1 DEF RowStays
    <3> QED
      BY <2>0, <3>1 DEF TypeOK
  <2>2. ASSUME NEW h \in Handlers, AcceptedBy(h)
        PROVE  \A m \in Members : Cardinality(DaysOf(m)') = Cardinality(DaysOf(m))
    <3>1. PICK n \in Swaps : Pending(n) /\ rota' = Flip(swaps[n])
      BY <2>0, <2>2, AcceptedRow
    <3>2. PICK s \in Swap : s = swaps[n]
      BY <2>0, <3>1, PendingIsSwap DEF Pending
    <3>3. /\ s.req # s.tgt /\ s.from # s.to /\ Held(s.from, s.req) /\ Held(s.to, s.tgt)
          /\ rota[s.req] # None /\ rota[s.tgt] # None
      BY <2>0, <3>1, <3>2 DEF Captured, PairHeld, LiveInv, Referenced, Pending
    <3>4. rota'[s.req].swapped /\ rota'[s.tgt].swapped
      <4>1. /\ rota'[s.req] = [owner |-> s.to, swapped |-> TRUE]
            /\ rota'[s.tgt] = [owner |-> s.from, swapped |-> TRUE]
        BY <2>0, <3>1, <3>2, <3>3, FlipRows
      <4> QED
        BY <4>1
    <3>5. Owns(s.from, s.req) /\ Owns(s.to, s.tgt)
      BY <3>3, <3>4 DEF Held, Owns
    <3> QED
      BY <2>0, <3>1, <3>2, <3>3, <3>5, FlipExchanges
  <2>3. cli.job = None
    BY <2>0 DEF Captured, Off
  <2> QED
    BY <2>0, <2>1, <2>2, <2>3, OwnerStep DEF LiveInv
<1>2. Spec => []LiveInv
  BY LiveInvariant DEF Alone
<1> QED
  BY <1>1, <1>2, PTL DEF Spec, DaysAreConserved

=============================================================================
