-------------------------------- MODULE Wfh --------------------------------
(***************************************************************************)
(* Working from home (src/internal/wfh): members ask for days, settlement  *)
(* approves or denies them against the on-site floor, the picker assigns   *)
(* days when the office has too few seats, administrators overrule, and    *)
(* members offer assigned days to each other.  No request runs in a        *)
(* transaction: what it has read may be stale when it writes.              *)
(*                                                                         *)
(* work[h] holds the statements the goroutine h has still to run, each     *)
(* with what was read for it.  UNIQUE(member_id, date) makes a request the *)
(* row of its member and day.                                              *)
(***************************************************************************)
EXTENDS Integers, FiniteSets, SequencesExt

CONSTANTS
  Members, Permanent, Exempt,  \* team members, and the flags of some
  Admins,                      \* accounts of administrators
  Contract,                    \* pairs of member and day: recurring weekdays
  LastDay,                     \* the calendar ends here
  Weekdays, Holidays,
  PeriodDays, MaxDaysPerPeriod, RequestHorizonDays, SettlementDays,
  MinOnsitePercentage, MinOnsiteAbsolute, SeatCap,   \* the configuration
  Handlers,                    \* goroutines that serve requests or settle
  Scheduler,                   \* those that belong to the settlement scheduler
  Jobs,                        \* kinds of requests an instance makes
  MaxBusy,                     \* goroutines that work at the same time
  MaxSwaps, MaxRequests, MaxFaults,
  None

Days == 0..LastDay
Kinds == {"ask", "cancel", "withdraw", "report", "mark", "reassign", "swap", "settle",
          "purge", "page", "feed", "team", "account", "leave"}

ASSUME WfhAssumption ==
  /\ IsFiniteSet(Members) /\ IsFiniteSet(Handlers)
  /\ Permanent \cup Exempt \subseteq Members /\ Contract \subseteq Members \X Days
  /\ LastDay \in Nat /\ Weekdays \cup Holidays \subseteq Days
  /\ PeriodDays \in Nat \ {0}
  /\ {MaxDaysPerPeriod, RequestHorizonDays, SettlementDays, MinOnsitePercentage,
      MinOnsiteAbsolute, SeatCap, MaxBusy, MaxSwaps, MaxRequests, MaxFaults} \subseteq Nat
  /\ Scheduler \subseteq Handlers /\ Jobs \subseteq Kinds
  /\ None \notin Members

VARIABLES
  today,
  member,    \* team_members: active, inactive or removed
  accounts,  \* users: the administrators' accounts that are left
  leave,     \* pairs of member and day on leave
  rows,      \* wfh_requests: by member and day, a row or None
  swaps,     \* wfh_assignment_swaps: by id, a row or None
  work, requests, faults

vars == <<today, member, accounts, leave, rows, swaps, work, requests, faults>>
tables == <<today, member, accounts, leave, rows, swaps>>
bounds == <<requests, faults>>

Statuses == {"pending", "approved", "denied", "cancelled", "withdrawn"}
Request == [status : Statuses, origin : {"ad_hoc", "recurring", "assigned"},
            recurring : BOOLEAN, marked : BOOLEAN, by : {None} \cup Admins]
Swap == [member : Members, day : Days, target : Members,
         status : {"pending", "accepted", "rejected", "cancelled"}]

ASSUME NoneAssumption == None \notin Request \cup Swap \cup Admins

\* What a goroutine has still to run.
Statement ==
  [do : {"quota", "create", "deny", "assign", "replace"}, k : Members \X Days]
    \cup [do : {"status"}, k : Members \X Days, s : {"approved", "cancelled"}]
    \cup [do : {"withdraw"}, k : Members \X Days, by : {None} \cup Admins]
    \cup [do : {"mark", "release"}, k : Members \X Days, by : Admins]
    \cup [do : {"deactivate"}, m : Members]
    \cup [do : {"materialize", "settle"}, left : SUBSET (Members \X Days)]
    \cup [do : {"load"}, from : Days, to : Nat]
    \cup [do : {"pass"}, left : SUBSET Days]
    \cup [do : {"expire", "purge"}]
    \cup [do : {"offer"}, k : Members \X Days, target : Members]
    \cup [do : {"answer"}, i : 1..MaxSwaps, s : {"accepted", "rejected", "cancelled"}]

-----------------------------------------------------------------------------
GetActiveTeamMembers == {m \in Members : member[m] = "active"}
Exists(m) == member[m] # "removed"
leaveMemberIDsForDate(d) == {m \in Members : <<m, d>> \in leave}

GetWFHRequestByMemberAndDate(m, d) == rows[m, d]
HasWFHRequestOnDate(m, d) == GetWFHRequestByMemberAndDate(m, d) # None
GetWFHRequestsByMember(m) == {k \in DOMAIN rows : k[1] = m /\ rows[k] # None}

IsStatus(m, d, s) == rows[m, d] # None /\ rows[m, d].status = s
GetWFHRequestsByDateAndStatus(d, s) == {m \in Members : IsStatus(m, d, s)}

ComputePeriodBounds(d) == {e \in Days : e \div PeriodDays = d \div PeriodDays}

\* Mutation: requests that are not decided yet are not counted.
OnlyApproved(r) == r.status = "approved" /\ r.origin # "assigned"

IsVoluntary(r) == r.status \in {"pending", "approved"} /\ r.origin # "assigned"

GetWFHRequestsVoluntaryInPeriod(m, period) ==
  {k \in GetWFHRequestsByMember(m) : k[2] \in period /\ IsVoluntary(rows[k])}

Used(m, d) == Cardinality(GetWFHRequestsVoluntaryInPeriod(m, ComputePeriodBounds(d)))

\* Mutation: rounded down.
RoundedDown(n) ==
  LET pctMin == (n * MinOnsitePercentage) \div 100
  IN IF pctMin < MinOnsiteAbsolute THEN MinOnsiteAbsolute ELSE pctMin

\* Rounded up, and at least the absolute floor.
MinOnsiteCount(n) ==
  LET pctMin == (n * MinOnsitePercentage + 99) \div 100
  IN IF pctMin < MinOnsiteAbsolute THEN MinOnsiteAbsolute ELSE pctMin

Unavailable(d) == leaveMemberIDsForDate(d) \cup GetWFHRequestsByDateAndStatus(d, "approved")

\* Requests that settlement may still approve for d.
AvailableSlots(d) ==
  LET n == Cardinality(GetActiveTeamMembers)
      free == n - Cardinality(Unavailable(d)) - MinOnsiteCount(n)
  IN IF free > 0 THEN free ELSE 0

\* Mutation: the flag is not read.
NoPermanent == {}

permanentWFHMemberIDs == Permanent \cap GetActiveTeamMembers

\* On site, for the picker: members working at home for good are away.
OnSite(d) ==
  Cardinality(GetActiveTeamMembers) - Cardinality(Unavailable(d) \cup permanentWFHMemberIDs)

EligibleSwapTargets(m, d) == GetActiveTeamMembers \ ({m} \cup Exempt \cup Unavailable(d))
assignCandidates(d) == GetActiveTeamMembers \ (Permanent \cup Exempt \cup Unavailable(d))

GetPendingWFHRequestsForSettlement(cutoff) ==
  {k \in Members \X Days : /\ IsStatus(k[1], k[2], "pending")
                           /\ ~rows[k].recurring /\ k[2] <= cutoff}

\* Mutation: whoever withdrew the row.
AnyWithdrawn(r) == r.status \in {"cancelled", "withdrawn"}

\* The member may take back what it cancelled or withdrew itself.
isUserResurrectable(r) == r.status = "cancelled" \/ (r.status = "withdrawn" /\ r.by = None)

CanWithdraw(d) == d >= today

previousPeriodStart == (today \div PeriodDays - 1) * PeriodDays

\* Sequences of ms, fewest voluntary days in the period of d first; ties fall
\* either way.
ByUsage(ms, d) ==
  {s \in SetToSeqs(ms) : \A i, j \in DOMAIN s : i < j => Used(s[i], d) <= Used(s[j], d)}

\* Ties go by the time of the request.
prioritisePending(ms, d) == ByUsage(ms, d)

\* The period is today's; ties go by co-presence and name.
orderByPickerPriority(candidates) == ByUsage(candidates, today)

NewRow(status, origin) ==
  [status |-> status, origin |-> origin, recurring |-> origin = "recurring",
   marked |-> FALSE, by |-> None]

-----------------------------------------------------------------------------
Free(h) == work[h] = <<>> /\ Cardinality({g \in Handlers : work[g] # <<>>}) < MaxBusy
Doing(h, step) == work[h] # <<>> /\ Head(work[h]).do = step
Now(h) == Head(work[h])
Then(h, steps) == work' = [work EXCEPT ![h] = steps \o Tail(@)]
Abort(h) == work' = [work EXCEPT ![h] = <<>>]

\* A request of some kind arrives; the scheduler serves none.
Serve(h, kind, steps) ==
  /\ h \notin Scheduler /\ Free(h) /\ kind \in Jobs /\ requests < MaxRequests
  /\ requests' = requests + 1
  /\ work' = [work EXCEPT ![h] = steps]

-----------------------------------------------------------------------------
(* Statements on a row that was read before: nothing happens if it is gone. *)
Set(k, row) == rows' = IF rows[k] = None THEN rows ELSE [rows EXCEPT ![k] = row]

UpdateWFHRequestStatus(k, s) == Set(k, [rows[k] EXCEPT !.status = s])

DenyWFHRequest(k) == Set(k, [rows[k] EXCEPT !.status = "denied"])

\* The foreign key of withdrawn_by refuses an account that is gone.
Refused(k, actor) == rows[k] # None /\ actor \notin accounts \cup {None}

UpdateWFHRequestWithdrawn(k, actor) ==
  IF Refused(k, actor) THEN UNCHANGED rows
  ELSE Set(k, [rows[k] EXCEPT !.status = "withdrawn", !.by = actor])

\* Mutation: a contractual day that is asked for again stays contractual.
StillRecurring(k) == Set(k, [rows[k] EXCEPT !.status = "pending", !.by = None])

ResurrectWFHRequest(k) ==
  Set(k, [rows[k] EXCEPT !.status = "pending", !.by = None, !.recurring = FALSE])

\* UNIQUE(member_id, date) and the foreign key refuse the others.
Insertable(k) == rows[k] = None /\ Exists(k[1])
Insert(k, row) == rows' = [rows EXCEPT ![k] = row]

CreateApprovedRecurringWFHRequest(k) ==
  IF Insertable(k) /\ k[2] >= today THEN Insert(k, NewRow("approved", "recurring"))
  ELSE UNCHANGED rows

\* A row that is there already, of any status, stays.
CreateApprovedAssignedWFHRequest(k) ==
  IF Insertable(k) /\ k[2] >= today THEN Insert(k, NewRow("approved", "assigned"))
  ELSE UNCHANGED rows

\* Mutation: the row is marked but not approved.
Unapproved(k, actor) ==
  IF Insertable(k) /\ actor \in accounts THEN Insert(k, [NewRow("marked", "ad_hoc") EXCEPT !.marked = TRUE])
  ELSE UNCHANGED rows

MarkAdminWFH(k, actor) ==
  IF Insertable(k) /\ actor \in accounts THEN Insert(k, [NewRow("approved", "ad_hoc") EXCEPT !.marked = TRUE])
  ELSE UNCHANGED rows

-----------------------------------------------------------------------------
(* Asking for a day: the quota is read, then the row is inserted or taken  *)
(* back.                                                                   *)
ValidateRequestDate(d) == d <= today + RequestHorizonDays

AskSteps(k) == <<[do |-> "quota", k |-> k], [do |-> "create", k |-> k]>>

handleWFHRequestPost(h) ==
  /\ \E m \in Members, d \in Days :
       Exists(m) /\ ValidateRequestDate(d) /\ Serve(h, "ask", AskSteps(<<m, d>>))
  /\ UNCHANGED <<tables, faults>>

\* The same request through the API.
handleRequestWFH(h) ==
  /\ \E m \in Members, d \in Days :
       Exists(m) /\ ValidateRequestDate(d) /\ Serve(h, "ask", AskSteps(<<m, d>>))
  /\ UNCHANGED <<tables, faults>>

\* The day itself is settled at once.
ReportToday(m) ==
  Append(AskSteps(<<m, today>>), [do |-> "settle", left |-> {<<m, today>>}])

reportTodayValidate == today \notin Holidays

handleWFHReportToday(h) ==
  /\ \E m \in Members : /\ reportTodayValidate
                        /\ Exists(m) /\ ~HasWFHRequestOnDate(m, today)
                        /\ Serve(h, "report", ReportToday(m))
  /\ UNCHANGED <<tables, faults>>

CheckQuota(h) ==
  /\ Doing(h, "quota")
  /\ LET k == Now(h).k
     IN IF k[2] \notin Holidays /\ Used(k[1], k[2]) < MaxDaysPerPeriod
        THEN Then(h, <<>>) ELSE Abort(h)
  /\ UNCHANGED <<tables, bounds>>

validateRequestDate(d) == d \notin Holidays /\ d >= today

resurrectOrDuplicate(h, k) ==
  IF isUserResurrectable(rows[k])
  THEN ResurrectWFHRequest(k) /\ Then(h, <<>>)
  ELSE UNCHANGED rows /\ Abort(h)

CreateWFHRequest(h) ==
  /\ Doing(h, "create")
  /\ LET k == Now(h).k
         valid == Exists(k[1]) /\ validateRequestDate(k[2])
     IN \/ valid /\ rows[k] = None /\ Insert(k, NewRow("pending", "ad_hoc")) /\ Then(h, <<>>)
        \/ valid /\ rows[k] # None /\ resurrectOrDuplicate(h, k)
        \/ ~valid /\ UNCHANGED rows /\ Abort(h)
  /\ UNCHANGED <<today, member, accounts, leave, swaps, bounds>>

-----------------------------------------------------------------------------
(* Taking a request back: what may be withdrawn is read, and written later *)
(* without another look.                                                   *)
CancelWFHRequest(h, m, d) ==
  IsStatus(m, d, "pending")
    /\ Serve(h, "cancel", <<[do |-> "status", k |-> <<m, d>>, s |-> "cancelled"]>>)

handleWFHCancel(h) ==
  /\ \E m \in Members, d \in Days : CancelWFHRequest(h, m, d)
  /\ UNCHANGED <<tables, faults>>

handleCancelWFH(h) ==
  /\ \E m \in Members, d \in Days : CancelWFHRequest(h, m, d)
  /\ UNCHANGED <<tables, faults>>

WithdrawSteps(m, d, actor) == <<[do |-> "withdraw", k |-> <<m, d>>, by |-> actor]>>

\* Mutation: the origin is not read.
AnyOrigin(h, kind, m, d, actor) ==
  /\ IsStatus(m, d, "approved") /\ CanWithdraw(d)
  /\ Serve(h, kind, WithdrawSteps(m, d, actor))

\* Days the picker assigned are not given up like this.
withdrawWFH(h, kind, m, d, actor) ==
  /\ IsStatus(m, d, "approved") /\ rows[m, d].origin # "assigned" /\ CanWithdraw(d)
  /\ Serve(h, kind, WithdrawSteps(m, d, actor))

handleWFHSelfWithdraw(h) ==
  /\ \E m \in Members, d \in Days : withdrawWFH(h, "withdraw", m, d, None)
  /\ UNCHANGED <<tables, faults>>

withdrawApprovedRowOnDate(h, m, d) ==
  \E k \in GetWFHRequestsByMember(m) : k[2] = d /\ withdrawWFH(h, "withdraw", m, d, None)

SignalOnSiteToday(h, m) == withdrawApprovedRowOnDate(h, m, today)

SignalOnSiteOnDate(h, m, d) == d >= today /\ withdrawApprovedRowOnDate(h, m, d)

handleWFHTodayOnSite(h) ==
  /\ \E m \in Members : SignalOnSiteToday(h, m)
  /\ UNCHANGED <<tables, faults>>

handleWFHOnSiteOnDate(h) ==
  /\ \E m \in Members, d \in Days : SignalOnSiteOnDate(h, m, d)
  /\ UNCHANGED <<tables, faults>>

handleWFHAdminWithdraw(h) ==
  /\ \E m \in Members, d \in Days, admin \in accounts : withdrawWFH(h, "withdraw", m, d, admin)
  /\ UNCHANGED <<tables, faults>>

handleWithdrawWFH(h) ==
  /\ \E m \in Members, d \in Days, admin \in accounts : withdrawWFH(h, "withdraw", m, d, admin)
  /\ UNCHANGED <<tables, faults>>

handleAdminMarkWFHUnmark(h) ==
  /\ \E m \in Members, d \in Days, admin \in accounts :
       rows[m, d] # None /\ rows[m, d].marked /\ withdrawWFH(h, "mark", m, d, admin)
  /\ UNCHANGED <<tables, faults>>

-----------------------------------------------------------------------------
(* Administrators overrule: somebody is at home today past the quota and   *)
(* the floor, or an assigned day goes to somebody else.                    *)
MarkWFH(h, m, actor) ==
  /\ today \notin Holidays /\ Exists(m)
  /\ Serve(h, "mark", <<[do |-> "mark", k |-> <<m, today>>, by |-> actor]>>)

handleAdminMarkWFH(h) ==
  /\ \E m \in Members, admin \in accounts : MarkWFH(h, m, admin)
  /\ UNCHANGED <<tables, faults>>

adminReassignTargetOK(m, d, replacement) == replacement \in EligibleSwapTargets(m, d)

AdminReassignWFH(h, m, d, replacement, actor) ==
  /\ IsStatus(m, d, "approved") /\ rows[m, d].origin = "assigned"
  /\ adminReassignTargetOK(m, d, replacement)
  /\ Serve(h, "reassign", <<[do |-> "release", k |-> <<m, d>>, by |-> actor],
                            [do |-> "replace", k |-> <<replacement, d>>]>>)

handleWFHAdminReassign(h) ==
  /\ \E m, replacement \in Members, d \in Days, admin \in accounts :
       AdminReassignWFH(h, m, d, replacement, admin)
  /\ UNCHANGED <<tables, faults>>

WithdrawAssignedWFHRequest(h) ==
  /\ Doing(h, "release")
  /\ LET k == Now(h).k
     IN IF IsStatus(k[1], k[2], "approved") /\ k[2] >= today
        THEN Then(h, WithdrawSteps(k[1], k[2], Now(h).by)) ELSE Abort(h)
  /\ UNCHANGED <<tables, bounds>>

\* The next statement of h on the row it has chosen.
Write(h) ==
  /\ \/ Doing(h, "status") /\ UpdateWFHRequestStatus(Now(h).k, Now(h).s)
     \/ Doing(h, "deny") /\ DenyWFHRequest(Now(h).k)
     \/ Doing(h, "withdraw") /\ UpdateWFHRequestWithdrawn(Now(h).k, Now(h).by)
     \/ Doing(h, "mark") /\ MarkAdminWFH(Now(h).k, Now(h).by)
     \/ Doing(h, "assign") /\ CreateApprovedAssignedWFHRequest(Now(h).k)
     \/ Doing(h, "replace") /\ CreateApprovedAssignedWFHRequest(Now(h).k)
  /\ IF Doing(h, "withdraw") /\ Refused(Now(h).k, Now(h).by) THEN Abort(h) ELSE Then(h, <<>>)
  /\ UNCHANGED <<today, member, accounts, leave, swaps, bounds>>

-----------------------------------------------------------------------------
(* Settlement: contractual days are inserted, the pending requests of the  *)
(* window are decided date by date, then the picker fills the seat cap.    *)
\* EnsureRecurringMaterialized and its variant for one member.
Materialize(ms, lo, hi) ==
  [do |-> "materialize",
   left |-> {k \in Contract : k[1] \in ms /\ today <= k[2] /\ lo <= k[2] /\ k[2] <= hi}]

EnsureRecurringMaterialized(lo, hi) == Materialize(GetActiveTeamMembers, lo, hi)

SettlePendingRequests ==
  <<EnsureRecurringMaterialized(today, today + SettlementDays),
    [do |-> "load", from |-> today, to |-> today + SettlementDays]>>

handleWFHAdminSettle(h) ==
  /\ Serve(h, "settle", SettlePendingRequests)
  /\ UNCHANGED <<tables, faults>>

handleSettleWFH(h) ==
  /\ Serve(h, "settle", SettlePendingRequests)
  /\ UNCHANGED <<tables, faults>>

\* A tick of the scheduler: settlement, then the purge.
runSettle(h) ==
  /\ h \in Scheduler /\ Free(h)
  /\ work' = [work EXCEPT ![h] = Append(SettlePendingRequests, [do |-> "purge"])]
  /\ UNCHANGED <<tables, bounds>>

\* The page of a member, active or not, inserts its contractual days of the period.
EnsureRecurringMaterializedForMember(m) ==
  LET period == ComputePeriodBounds(today)
  IN Materialize({m}, CHOOSE d \in period : \A e \in period : d <= e,
                      CHOOSE d \in period : \A e \in period : e <= d)

handleWFHList(h) ==
  /\ \E m \in Members :
       /\ Exists(m) /\ (\E k \in Contract : k[1] = m)
       /\ Serve(h, "page", <<EnsureRecurringMaterializedForMember(m)>>)
  /\ UNCHANGED <<tables, faults>>

Earliest(keys) == CHOOSE k \in keys : \A j \in keys : k[2] <= j[2]

\* Day by day; a date that has passed meanwhile ends the loop of its member.
materializeForMember(h) ==
  /\ Doing(h, "materialize")
  /\ IF Now(h).left = {} THEN Then(h, <<>>) /\ UNCHANGED rows
     ELSE LET k == Earliest(Now(h).left)
              passed == ~HasWFHRequestOnDate(k[1], k[2]) /\ k[2] < today
          IN /\ CreateApprovedRecurringWFHRequest(k)
             /\ Then(h, <<[Now(h) EXCEPT !.left =
                             IF passed THEN {j \in @ : j[1] # k[1]} ELSE @ \ {k}]>>)
  /\ UNCHANGED <<today, member, accounts, leave, swaps, bounds>>

settleAssignmentPass(lo, hi) ==
  [do |-> "pass", left |-> IF SeatCap = 0 THEN {} ELSE {d \in Weekdays : lo <= d /\ d <= hi}]

\* With nothing pending the pass over the seats is all that follows.
GetPendingForSettlement(h) ==
  /\ Doing(h, "load")
  /\ LET pending == GetPendingWFHRequestsForSettlement(Now(h).to)
         pass == <<settleAssignmentPass(Now(h).from, Now(h).to)>>
     IN Then(h, IF pending = {} THEN pass
                ELSE <<[do |-> "settle", left |-> pending]>> \o pass \o <<[do |-> "expire"]>>)
  /\ UNCHANGED <<tables, bounds>>

\* Approve as many as there are slots, deny the rest.
Decide(order, d, slots) ==
  [i \in DOMAIN order |-> IF i <= slots
                          THEN [do |-> "status", k |-> <<order[i], d>>, s |-> "approved"]
                          ELSE [do |-> "deny", k |-> <<order[i], d>>]]

\* The earliest date is decided on what is approved for it by now.
settleDate(h) ==
  /\ Doing(h, "settle")
  /\ IF Now(h).left = {} THEN Then(h, <<>>)
     ELSE LET d == Earliest(Now(h).left)[2]
              later == [Now(h) EXCEPT !.left = {k \in @ : k[2] # d}]
              pending == {m \in Members : <<m, d>> \in Now(h).left}
          IN IF GetActiveTeamMembers = {} THEN Then(h, <<later>>)
             ELSE \E prioritized \in prioritisePending(pending, d) :
                    Then(h, Append(Decide(prioritized, d, AvailableSlots(d)), later))
  /\ UNCHANGED <<tables, bounds>>

Least(a, b) == IF a < b THEN a ELSE b

isPickerActiveOnDate(d) == d \in Weekdays \ Holidays

AssignWFHForDate(d) == d >= today /\ isPickerActiveOnDate(d)

insertPicks(picks, d) == [i \in DOMAIN picks |-> [do |-> "assign", k |-> <<picks[i], d>>]]

\* The next date of the pass: as many members as are over the cap.
runPicker(h) ==
  /\ Doing(h, "pass")
  /\ IF Now(h).left = {} THEN Then(h, <<>>)
     ELSE LET d == CHOOSE d \in Now(h).left : \A e \in Now(h).left : d <= e
              later == [Now(h) EXCEPT !.left = @ \ {d}]
              excess == Least(OnSite(d) - SeatCap, Cardinality(assignCandidates(d)))
          IN IF ~AssignWFHForDate(d) \/ excess <= 0 THEN Then(h, <<later>>)
             ELSE \E ordered \in orderByPickerPriority(assignCandidates(d)) :
                    Then(h, Append(insertPicks(SubSeq(ordered, 1, excess), d), later))
  /\ UNCHANGED <<tables, bounds>>

\* A calendar feed refreshes the days it shows, one after the other.
RefreshFor(d) ==
  <<EnsureRecurringMaterialized(d, d), [do |-> "pass", left |-> IF SeatCap = 0 THEN {} ELSE {d}]>>

CalendarFeed(h) ==
  /\ \E lo \in Days :
       Serve(h, "feed", [i \in 1..2 * (LastDay - lo + 1) |->
                           RefreshFor(lo + (i - 1) \div 2)[((i - 1) % 2) + 1]])
  /\ UNCHANGED <<tables, faults>>

IsPendingSwap(i) == swaps[i] # None /\ swaps[i].status = "pending"

AutoCancelExpiredSwaps(h) ==
  /\ Doing(h, "expire")
  /\ swaps' = [i \in DOMAIN swaps |-> IF IsPendingSwap(i) /\ swaps[i].day < today
                                      THEN [swaps[i] EXCEPT !.status = "cancelled"]
                                      ELSE swaps[i]]
  /\ Then(h, <<>>)
  /\ UNCHANGED <<today, member, accounts, leave, rows, bounds>>

\* A swap goes with the request it is about.
PurgeWFHRequestsBefore(cutoff) ==
  /\ rows' = [k \in DOMAIN rows |-> IF k[2] < cutoff THEN None ELSE rows[k]]
  /\ swaps' = [i \in DOMAIN swaps |-> IF swaps[i] # None /\ swaps[i].day < cutoff
                                      THEN None ELSE swaps[i]]

PurgePastPeriods(h) ==
  /\ Doing(h, "purge")
  /\ PurgeWFHRequestsBefore(previousPeriodStart)
  /\ Then(h, <<>>)
  /\ UNCHANGED <<today, member, accounts, leave, bounds>>

handleWFHPurge(h) ==
  /\ Serve(h, "purge", <<[do |-> "purge"]>>)
  /\ UNCHANGED <<tables, faults>>

\* The command line deletes up to any day, here up to today.
runWFHPurge(h) ==
  /\ \E cutoff \in 0..today : PurgeWFHRequestsBefore(cutoff)
  /\ Serve(h, "purge", <<>>)
  /\ UNCHANGED <<today, member, accounts, leave, faults>>

-----------------------------------------------------------------------------
GetPendingWFHSwapForRequesterRow(m, d) ==
  {i \in DOMAIN swaps : IsPendingSwap(i) /\ swaps[i].member = m /\ swaps[i].day = d}

swapCreateValidate(m, d) == rows[m, d] # None /\ rows[m, d].origin = "assigned"

swapCreateCheckEligibility(m, d, target) == target \in EligibleSwapTargets(m, d)

handleWFHSwapCreate(h) ==
  /\ \E m, target \in Members, d \in Days :
       /\ swapCreateValidate(m, d)
       /\ GetPendingWFHSwapForRequesterRow(m, d) = {}
       /\ swapCreateCheckEligibility(m, d, target)
       /\ Serve(h, "swap", <<[do |-> "offer", k |-> <<m, d>>, target |-> target]>>)
  /\ UNCHANGED <<tables, faults>>

NewSwap(k, target) == [member |-> k[1], day |-> k[2], target |-> target, status |-> "pending"]

CreateWFHAssignmentSwap(h) ==
  /\ Doing(h, "offer")
  /\ LET k == Now(h).k
         target == Now(h).target
         free == {i \in DOMAIN swaps : swaps[i] = None}
     IN swaps' = IF rows[k] = None \/ ~Exists(target) \/ free = {} THEN swaps
                 ELSE [swaps EXCEPT ![CHOOSE i \in free : \A j \in free : i <= j] =
                         NewSwap(k, target)]
  /\ Then(h, <<>>)
  /\ UNCHANGED <<today, member, accounts, leave, rows, bounds>>

\* Only the status of the offer changes: no request moves.
transitionWFHSwap(h, i, s) ==
  IsPendingSwap(i) /\ Serve(h, "swap", <<[do |-> "answer", i |-> i, s |-> s]>>)

handleWFHSwapAnswer(h) ==
  /\ \E i \in DOMAIN swaps, s \in {"accepted", "rejected"} : transitionWFHSwap(h, i, s)
  /\ UNCHANGED <<tables, faults>>

handleWFHSwapCancel(h) ==
  /\ \E i \in DOMAIN swaps :
       IsPendingSwap(i) /\ Serve(h, "swap", <<[do |-> "answer", i |-> i, s |-> "cancelled"]>>)
  /\ UNCHANGED <<tables, faults>>

UpdateWFHAssignmentSwapStatus(h) ==
  /\ Doing(h, "answer")
  /\ LET i == Now(h).i
     IN swaps' = IF swaps[i] = None THEN swaps ELSE [swaps EXCEPT ![i].status = Now(h).s]
  /\ Then(h, <<>>)
  /\ UNCHANGED <<today, member, accounts, leave, rows, bounds>>

-----------------------------------------------------------------------------
(* The surroundings: leave, the team, days going by, failures, restarts.   *)
ReportLeave(h) ==
  /\ \E m \in GetActiveTeamMembers, d \in today..LastDay :
       leave' = IF <<m, d>> \in leave THEN leave \ {<<m, d>>} ELSE leave \cup {<<m, d>>}
  /\ Serve(h, "leave", <<>>)
  /\ UNCHANGED <<today, member, accounts, rows, swaps, faults>>

\* An account is disabled, or approved again.
SetActive(h) ==
  /\ \E m \in Members :
       /\ Exists(m)
       /\ member' = [member EXCEPT ![m] = IF @ = "active" THEN "inactive" ELSE "active"]
  /\ Serve(h, "team", <<>>)
  /\ UNCHANGED <<today, accounts, leave, rows, swaps, faults>>

\* An account is denied: it is deleted, whatever its role, and ON DELETE SET NULL
\* takes it out of the rows it withdrew.  A member with its email is disabled next.
handleUserDeny(h) ==
  /\ \E admin \in accounts :
       /\ accounts' = accounts \ {admin}
       /\ rows' = [k \in DOMAIN rows |-> IF rows[k] # None /\ rows[k].by = admin
                                        THEN [rows[k] EXCEPT !.by = None] ELSE rows[k]]
  /\ \/ Serve(h, "account", <<>>)
     \/ \E m \in Members : Serve(h, "account", <<[do |-> "deactivate", m |-> m]>>)
  /\ UNCHANGED <<today, member, leave, swaps, faults>>

DeactivateTeamMember(h) ==
  /\ Doing(h, "deactivate")
  /\ member' = [member EXCEPT ![Now(h).m] = IF @ = "removed" THEN @ ELSE "inactive"]
  /\ Then(h, <<>>)
  /\ UNCHANGED <<today, accounts, leave, rows, swaps, bounds>>

RemoveMember(h) ==
  /\ \E m \in Members :
       /\ Exists(m)
       /\ member' = [member EXCEPT ![m] = "removed"]
       /\ leave' = {l \in leave : l[1] # m}
       /\ rows' = [k \in DOMAIN rows |-> IF k[1] = m THEN None ELSE rows[k]]
       /\ swaps' = [i \in DOMAIN swaps |->
                      IF swaps[i] # None /\ m \in {swaps[i].member, swaps[i].target}
                      THEN None ELSE swaps[i]]
  /\ Serve(h, "team", <<>>)
  /\ UNCHANGED <<today, accounts, faults>>

Tick ==
  /\ today < LastDay
  /\ today' = today + 1
  /\ UNCHANGED <<member, accounts, leave, rows, swaps, work, bounds>>

\* A statement fails: a request gives up; settlement logs it and goes on with
\* the next request, date or member.
Fail(h) ==
  /\ work[h] # <<>> /\ faults < MaxFaults
  /\ faults' = faults + 1
  /\ LET w == Now(h)
     IN CASE w.do \in {"quota", "create", "release", "withdraw"} -> Abort(h)
          [] w.do \in {"materialize", "settle"} /\ w.left # {} ->
               LET k == Earliest(w.left)
                   same(j) == IF w.do = "settle" THEN j[2] = k[2] ELSE j[1] = k[1]
               IN Then(h, <<[w EXCEPT !.left = {j \in @ : ~same(j)}]>>)
          [] w.do = "pass" /\ w.left # {} ->
               Then(h, <<[w EXCEPT !.left = @ \ {CHOOSE d \in @ : \A e \in @ : d <= e}]>>)
          [] OTHER -> Then(h, <<>>)
  /\ UNCHANGED <<tables, requests>>

Restart ==
  /\ faults < MaxFaults
  /\ faults' = faults + 1
  /\ work' = [h \in Handlers |-> <<>>]
  /\ UNCHANGED <<tables, requests>>

-----------------------------------------------------------------------------
Init ==
  /\ today = 0
  /\ member = [m \in Members |-> "active"]
  /\ accounts = Admins
  /\ leave = {}
  /\ rows = [k \in Members \X Days |-> None]
  /\ swaps = [i \in 1..MaxSwaps |-> None]
  /\ work = [h \in Handlers |-> <<>>]
  /\ requests = 0 /\ faults = 0

Settlement(h) ==
  \/ runSettle(h) \/ materializeForMember(h) \/ GetPendingForSettlement(h) \/ settleDate(h)
  \/ runPicker(h) \/ Write(h) \/ AutoCancelExpiredSwaps(h) \/ PurgePastPeriods(h)

MemberRequests(h) ==
  \/ handleWFHRequestPost(h) \/ handleRequestWFH(h) \/ handleWFHReportToday(h)
  \/ CheckQuota(h) \/ CreateWFHRequest(h) \/ handleWFHCancel(h) \/ handleCancelWFH(h)
  \/ handleWFHSelfWithdraw(h) \/ handleWFHTodayOnSite(h) \/ handleWFHOnSiteOnDate(h)
  \/ handleWFHList(h) \/ CalendarFeed(h)

AdminRequests(h) ==
  \/ handleWFHAdminSettle(h) \/ handleSettleWFH(h) \/ handleWFHAdminWithdraw(h)
  \/ handleWithdrawWFH(h) \/ handleAdminMarkWFH(h) \/ handleAdminMarkWFHUnmark(h)
  \/ handleWFHAdminReassign(h) \/ WithdrawAssignedWFHRequest(h)
  \/ handleWFHPurge(h) \/ runWFHPurge(h) \/ handleUserDeny(h) \/ DeactivateTeamMember(h)

SwapRequests(h) ==
  \/ handleWFHSwapCreate(h) \/ CreateWFHAssignmentSwap(h) \/ handleWFHSwapAnswer(h)
  \/ handleWFHSwapCancel(h) \/ UpdateWFHAssignmentSwapStatus(h)

Next ==
  \/ \E h \in Handlers : \/ Settlement(h) \/ MemberRequests(h) \/ AdminRequests(h)
                         \/ SwapRequests(h) \/ ReportLeave(h) \/ SetActive(h)
                         \/ RemoveMember(h) \/ Fail(h)
  \/ Tick \/ Restart

\* The ticker fires for ever and its goroutine keeps running.
Spec == Init /\ [][Next]_vars /\ \A h \in Scheduler : WF_vars(Settlement(h))

-----------------------------------------------------------------------------
\* Every row and every statement still to run is of its type.
TypeOK ==
  /\ today \in Days
  /\ member \in [Members -> {"active", "inactive", "removed"}] /\ accounts \subseteq Admins
  /\ leave \subseteq Members \X Days
  /\ rows \in [Members \X Days -> Request \cup {None}]
  /\ swaps \in [1..MaxSwaps -> Swap \cup {None}]
  /\ work \in [Handlers -> Seq(Statement)]
  /\ requests \in 0..MaxRequests /\ faults \in 0..MaxFaults

\* service.go:471: settlement enforces the on-site minimum.  No approval leaves
\* fewer members than the floor, counting those on leave and at home once.
FloorHeld ==
  [][\A m \in Members, d \in Days :
       (rows[m, d] # None /\ ~IsStatus(m, d, "approved") /\ IsStatus(m, d, "approved")')
         => LET team == GetActiveTeamMembers
                onSite == {n \in team : <<n, d>> \notin leave /\ ~IsStatus(n, d, "approved")'}
            IN /\ Cardinality(onSite) >= MinOnsiteAbsolute
               /\ 100 * Cardinality(onSite) >= MinOnsitePercentage * Cardinality(team)]_vars

\* service.go:438 CheckQuota: a request never takes its member past the days of
\* the period, through withdrawals, re-requests, contractual and marked days.
QuotaHeld ==
  [][\A m \in Members, d \in Days :
       (~IsStatus(m, d, "pending") /\ IsStatus(m, d, "pending")')
         => Cardinality({e \in ComputePeriodBounds(d) :
                          /\ rows'[m, e] # None /\ rows'[m, e].origin # "assigned"
                          /\ rows'[m, e].status \in {"pending", "approved"}})
              <= MaxDaysPerPeriod]_vars

\* wfh_crud.go:105-116: what an administrator withdrew the member cannot get back
\* by asking again, as long as the administrator has an account; only a purge or a
\* removal takes the row away.  Deleting that account does no more than to take its
\* name out of the row, which then is the member's own.
AdminDecisionStands ==
  [][\A k \in DOMAIN rows :
       (rows[k] # None /\ rows[k].status = "withdrawn" /\ rows[k].by \in Admins)
         => \/ rows'[k] \in {None, rows[k]}
            \/ /\ rows[k].by \in accounts \ accounts'
               /\ rows'[k] = [rows[k] EXCEPT !.by = None]]_vars

\* service_picker.go:56 runPicker: the picker sends nobody home whose seat was
\* not needed.
PickerStopsAtTheCap ==
  [][\A h \in Handlers, d \in Days :
       (Doing(h, "assign") /\ Now(h).k[2] = d /\ work'[h] = Tail(work[h]) /\ rows' # rows)
         => Cardinality({n \in GetActiveTeamMembers \ Permanent :
                          <<n, d>> \notin leave /\ ~IsStatus(n, d, "approved")'})
              >= SeatCap]_vars

\* wfh_crud.go:700 withdrawWFH: while no administrator's account was deleted, an
\* assigned day is given up only through an administrator, whatever stale request,
\* settlement or swap is still running.
AssignedDaysStand ==
  accounts = Admins =>
    \A k \in DOMAIN rows :
      (rows[k] # None /\ rows[k].origin = "assigned")
        => \/ rows[k].status = "approved"
           \/ rows[k].status = "withdrawn" /\ rows[k].by \in Admins

\* A pending request whose day is inside the window is decided, or taken back, as
\* long as the team has an active member.
PendingIsSettled ==
  \A m \in Members, d \in Days :
    (IsStatus(m, d, "pending") /\ d <= today + SettlementDays)
      ~> (~IsStatus(m, d, "pending") \/ GetActiveTeamMembers = {})

=============================================================================
