-------------------------------- MODULE Rota --------------------------------
(***************************************************************************)
(* The rota engine and schedule maintenance (src/internal/rota): who has   *)
(* the hat (R1) on each working day and who covers for a holder on leave   *)
(* (R2).  Schedule, leave and team requests run as sequences of database   *)
(* statements with no transaction around them; requests of several         *)
(* handlers interleave between any two statements, one may fail halfway,   *)
(* and a restart runs ReassignCovers before the first request.             *)
(*                                                                         *)
(* A handler keeps in "todo" the statements still to run, each with what   *)
(* the request has read so far.  Members are the ranks of their names:     *)
(* GetActiveTeamMembers orders by name.                                    *)
(***************************************************************************)
EXTENDS Integers, FiniteSets, SequencesExt

CONSTANTS
  Members,         \* people who may be in the team
  Teams,           \* the teams to start from
  LastDay,         \* the calendar ends here
  Working,         \* the days that are neither weekend nor holiday
  Leaves,          \* ids of leave records, numbers
  Handlers,        \* requests served at the same time
  Ahead,           \* scheduleDaysAhead
  MaxRequests,     \* bound on requests, views of the dashboard aside
  MaxTeamChanges,  \* bound on members added or removed
  MaxFaults,       \* bound on failed statements and crashes
  None

ASSUME RotaAssumption ==
  /\ Members \cup Leaves \subseteq Nat /\ Teams \subseteq SUBSET Members
  /\ LastDay \in Nat /\ Working \subseteq 0..LastDay
  /\ Ahead \in Nat /\ {MaxRequests, MaxTeamChanges, MaxFaults} \subseteq Nat
  /\ None \notin Members \cup Leaves

ASSUME FiniteAssumption == IsFiniteSet(Members) /\ IsFiniteSet(Leaves) /\ IsFiniteSet(Handlers)

\* Nor is it a row of a table.
ASSUME NoneAssumption ==
  /\ None \notin [last : 0..LastDay, slot : Nat]
  /\ None \notin [member : Members, from : 0..LastDay, to : 0..LastDay, status : {"pending", "assigned"}]
  /\ None \notin [member : Members, swapped : BOOLEAN, id : Nat]
  /\ None \notin [member : Members, swapped : BOOLEAN, id : Nat, linked : BOOLEAN]

VARIABLES
  today,
  team,      \* team_members
  leaves,    \* leave_records: [Leaves -> record or None]
  orig,      \* rota_assignments with is_cover = 0, by date
  cover,     \* rota_assignments with is_cover = 1, by date
  r1,        \* the row GetR1RotationState returns, or None
  rotation,  \* cover_rotation_state: its row, or None
  work,      \* the request of each handler
  requests, changes, faults

vars == <<today, team, leaves, orig, cover, r1, rotation, work, requests, changes, faults>>
tables == <<today, team, leaves, orig, cover, r1, rotation>>
bounds == <<requests, changes, faults>>

-----------------------------------------------------------------------------
Days == 0..LastDay
DayRange(lo, hi) == {d \in Days : lo <= d /\ d <= hi}

Leave == [member : Members, from : Days, to : Days, status : {"pending", "assigned"}]
Position == [last : Days, slot : Nat]

OnLeave(d) ==
  {leaves[l].member : l \in {k \in Leaves : leaves[k] # None /\ d \in DayRange(leaves[k].from, leaves[k].to)}}

\* Mutant: the last day is counted as well.
WorkingDaysUpTo(d, e) == Cardinality({x \in Working : d <= x /\ x <= e})

\* Working days in [d, e).
WorkingDaysBetween(d, e) == Cardinality({x \in Working : d <= x /\ x < e})

\* A slot of a team is a position in its alphabetical order.
SlotOf(ms, m) == Cardinality({x \in ms : x < m})
At(ms, i) == CHOOSE m \in ms : SlotOf(ms, m) = i

\* The slot whose turn is day d, from the stored position.
Turn(pos, d, ms) ==
  LET steps == IF pos.last <= d THEN WorkingDaysBetween(pos.last, d)
                                ELSE -WorkingDaysBetween(d, pos.last)
  IN (pos.slot + steps) % Cardinality(ms)
TurnOf(pos, d, ms) == IF pos = None THEN 0 ELSE Turn(pos, d, ms)

\* Mutant: gives up after the second candidate.
SecondChoice(ms, away, slot) ==
  LET n == Cardinality(ms)
  IN IF ms \subseteq away THEN None
     ELSE IF At(ms, slot % n) \notin away THEN At(ms, slot % n) ELSE At(ms, (slot + 1) % n)

\* The first member from that slot on who is not away.
FindCover(ms, away, slot) ==
  LET n == Cardinality(ms)
      Free(k) == At(ms, (slot + k) % n) \notin away
  IN IF ms \subseteq away THEN None
     ELSE At(ms, (slot + CHOOSE k \in 0..n-1 : Free(k) /\ \A j \in 0..k-1 : ~Free(j)) % n)

-----------------------------------------------------------------------------
Idle == [job |-> "none", about |-> None, todo |-> <<>>, queue |-> <<>>, team |-> {},
         anchor |-> None, failed |-> FALSE]

Starting(h) == work[h].job = "boot"

\* Mutant: covers chosen by the command share the position of the others.
OnlyAtStartup(h) == work[h].job = "boot"

Reassigning(h) == work[h].job \in {"boot", "reassign"}

Doing(h, step) == work[h].todo # <<>> /\ Head(work[h].todo).do = step
Now(h) == Head(work[h].todo)
Then(h, steps) == work' = [work EXCEPT ![h].todo = steps \o Tail(@)]
Abort(h) == work' = [work EXCEPT ![h].todo = <<>>, ![h].failed = TRUE]

\* A set in order, where before[x] are the elements that come before x.
Ranked(S, before) == [i \in 1..Cardinality(S) |-> CHOOSE x \in S : Cardinality(before[x]) = i - 1]

\* The steps of a loop over dates, in calendar order.
PerDay(steps) == Ranked(steps, [s \in steps |-> {t \in steps : t.d < s.d}])

\* uuid.New(): an id that no row of the day has and no request remembers.
IdsInUse(d) ==
  {row.id : row \in {orig[d], cover[d]} \ {None}}
    \cup UNION {{t.id : t \in {s \in Range(work[h].todo) : "id" \in DOMAIN s /\ s.d = d}} : h \in Handlers}
NewId(d) == CHOOSE id \in 0..Cardinality(IdsInUse(d)) : id \notin IdsInUse(d)

-----------------------------------------------------------------------------
(* reconcileCoversForDateRange: the covers whose original member is not on *)
(* leave, by two reads, are deleted one by one.                            *)
Reconcile(lo, hi) == <<[do |-> "index", days |-> DayRange(lo, hi)]>>

BuildLeaveIndex(h) ==
  /\ Doing(h, "index")
  /\ LET days == Now(h).days
     IN Then(h, <<[do |-> "compare", days |-> days, away |-> [d \in days |-> OnLeave(d)]]>>)
  /\ UNCHANGED <<tables, bounds>>

IsStale(d, away) == cover[d] # None /\ cover[d].linked /\ orig[d].member \notin away[d]

FindStale(h) ==
  /\ Doing(h, "compare")
  /\ LET Drop(d) == [do |-> "drop", d |-> d, id |-> cover[d].id]
     IN Then(h, PerDay({Drop(d) : d \in {e \in Now(h).days : IsStale(e, Now(h).away)}}))
  /\ UNCHANGED <<tables, bounds>>

DropCover(h) ==
  /\ Doing(h, "drop")
  /\ LET t == Now(h)
     IN cover' = IF cover[t.d] # None /\ cover[t.d].id = t.id THEN [cover EXCEPT ![t.d] = None] ELSE cover
  /\ Then(h, <<>>)
  /\ UNCHANGED <<today, team, leaves, orig, r1, rotation, bounds>>

-----------------------------------------------------------------------------
(* GenerateMissingDays, GenerateSchedule, RegenerateSchedule: which days,  *)
(* then the team, then processDate for each day.                           *)
Fill(lo, hi) == <<[do |-> "dates", days |-> DayRange(lo, hi)]>>
Generate(lo, hi, wipe) == <<[do |-> "members", days |-> DayRange(lo, hi), wipe |-> wipe]>>

Unassigned(days) == {d \in days : orig[d] = None /\ cover[d] = None}

GetDatesWithAssignments(h) ==
  /\ Doing(h, "dates")
  /\ Then(h, <<[do |-> "members", days |-> Unassigned(Now(h).days), wipe |-> FALSE]>>)
  /\ UNCHANGED <<tables, bounds>>

GetMembers(h) ==
  /\ Doing(h, "members")
  /\ IF team = {}
     THEN Abort(h)
     ELSE LET t == Now(h)
              Date(d) == [do |-> "leaves", d |-> d]
              wipe == IF t.wipe THEN <<[do |-> "wipe", days |-> t.days]>> ELSE <<>>
          IN work' = [work EXCEPT ![h].team = team,
                                  ![h].todo = wipe \o PerDay({Date(d) : d \in t.days \cap Working}) \o Tail(@)]
  /\ UNCHANGED <<tables, bounds>>

DeleteAssignmentsInRange(h) ==
  /\ Doing(h, "wipe")
  /\ orig' = [d \in Days |-> IF d \in Now(h).days THEN None ELSE orig[d]]
  /\ cover' = [d \in Days |-> IF d \in Now(h).days THEN None ELSE cover[d]]
  /\ Then(h, <<>>)
  /\ UNCHANGED <<today, team, leaves, r1, rotation, bounds>>

\* processDate: who is on leave, whose turn it is, who covers.
ReadLeaves(h) ==
  /\ Doing(h, "leaves")
  /\ Then(h, <<[do |-> "r1", d |-> Now(h).d, away |-> OnLeave(Now(h).d)]>>)
  /\ UNCHANGED <<tables, bounds>>

PickOriginal(h) ==
  /\ Doing(h, "r1")
  /\ LET t == Now(h)
         m == At(work[h].team, TurnOf(r1, t.d, work[h].team))
     IN Then(h, IF m \in t.away
                THEN <<[do |-> "r2", d |-> t.d, away |-> t.away, m |-> m]>>
                ELSE <<[do |-> "original", d |-> t.d, m |-> m, c |-> m]>>)
  /\ UNCHANGED <<tables, bounds>>

DetermineCoveringMember(h) ==
  /\ Doing(h, "r2")
  /\ LET t == Now(h)
         c == FindCover(work[h].team, t.away, TurnOf(rotation, t.d, work[h].team))
     IN Then(h, IF c = None
                THEN <<[do |-> "original", d |-> t.d, m |-> t.m, c |-> t.m]>>
                ELSE <<[do |-> "slot", d |-> t.d, c |-> c],
                       [do |-> "original", d |-> t.d, m |-> t.m, c |-> c]>>)
  /\ UNCHANGED <<tables, bounds>>

\* recordActualCoverSlot.  A reassign run writes its own columns, of a row
\* that only this upsert creates, and remembers the position itself.
SlotPosition(h) == [last |-> Now(h).d, slot |-> SlotOf(work[h].team, Now(h).c)]

CommitCoverSlot(h) ==
  /\ Doing(h, "slot")
  /\ LET pos == SlotPosition(h)
     IN IF Reassigning(h)
        THEN /\ work' = [work EXCEPT ![h].anchor = pos, ![h].todo = Tail(@)]
             /\ rotation' = IF rotation = None THEN None ELSE [rotation EXCEPT !.reassign = pos]
        ELSE /\ Then(h, <<>>)
             /\ rotation' = [last |-> pos.last, slot |-> pos.slot,
                             reassign |-> IF rotation = None THEN None ELSE rotation.reassign]
  /\ UNCHANGED <<today, team, leaves, orig, cover, r1, bounds>>

\* createAssignment: original, R1 position and cover are three statements.
\* UNIQUE(date, is_cover) and the foreign keys make an INSERT fail.
InsertOriginal(h) ==
  /\ Doing(h, "original")
  /\ LET t == Now(h)
         id == NewId(t.d)
         advance == <<[do |-> "advance", d |-> t.d, m |-> t.m]>>
     IN IF orig[t.d] = None /\ t.m \in team
        THEN /\ orig' = [orig EXCEPT ![t.d] = [member |-> t.m, swapped |-> FALSE, id |-> id]]
             /\ Then(h, IF t.c = t.m THEN advance
                        ELSE advance \o <<[do |-> "cover", d |-> t.d, c |-> t.c, id |-> id]>>)
        ELSE Abort(h) /\ orig' = orig
  /\ UNCHANGED <<today, team, leaves, cover, r1, rotation, bounds>>

\* The table has no key: INSERT OR REPLACE appends and the read, which has
\* LIMIT 1 and no order, keeps returning the first row.
AdvanceR1(h) ==
  /\ Doing(h, "advance")
  /\ r1' = IF r1 = None
           THEN [last |-> Now(h).d, slot |-> SlotOf(work[h].team, Now(h).m)]
           ELSE r1
  /\ Then(h, <<>>)
  /\ UNCHANGED <<today, team, leaves, orig, cover, rotation, bounds>>

InsertCover(h) ==
  /\ Doing(h, "cover")
  /\ LET t == Now(h)
     IN IF cover[t.d] = None /\ t.c \in team /\ orig[t.d] # None /\ orig[t.d].id = t.id
        THEN /\ cover' = [cover EXCEPT ![t.d] =
                   [member |-> t.c, swapped |-> FALSE, id |-> NewId(t.d), linked |-> TRUE]]
             /\ Then(h, <<>>)
        ELSE Abort(h) /\ cover' = cover
  /\ UNCHANGED <<today, team, leaves, orig, r1, rotation, bounds>>

-----------------------------------------------------------------------------
(* assignCoversForLeave: for each day of a leave, find the duty the member *)
(* leaves, choose a cover, write or re-point the row of the date, mark the *)
(* leave assigned and remember the slot.                                   *)
LoadLeave(h) ==
  /\ Doing(h, "leave")
  /\ LET l == Now(h).l
     IN IF leaves[l] = None
        THEN Abort(h)
        ELSE Then(h, <<[do |-> "team", l |-> l, m |-> leaves[l].member,
                        days |-> DayRange(leaves[l].from, leaves[l].to) \cap Working]>>)
  /\ UNCHANGED <<tables, bounds>>

LoadTeam(h) ==
  /\ Doing(h, "team")
  /\ LET t == Now(h)
         Date(d) == [do |-> "duty", d |-> d, l |-> t.l, m |-> t.m]
     IN work' = [work EXCEPT ![h].team = team, ![h].todo = PerDay({Date(d) : d \in t.days}) \o Tail(@)]
  /\ UNCHANGED <<tables, bounds>>

\* ensureOriginalAssignment: the member holds the day, or covers it.
Scheduled(d, m) ==
  \/ orig[d] # None /\ orig[d].member = m
  \/ cover[d] # None /\ cover[d].member = m /\ cover[d].linked

EnsureOriginalAssignment(h) ==
  /\ Doing(h, "duty")
  /\ LET t == Now(h)
     IN Then(h, IF Scheduled(t.d, t.m)
                THEN <<[do |-> "away", d |-> t.d, l |-> t.l, id |-> orig[t.d].id]>>
                ELSE <<>>)
  /\ UNCHANGED <<tables, bounds>>

ReadOtherLeaves(h) ==
  /\ Doing(h, "away")
  /\ LET t == Now(h)
     IN Then(h, <<[do |-> "turn", d |-> t.d, l |-> t.l, id |-> t.id, away |-> OnLeave(t.d)]>>)
  /\ UNCHANGED <<tables, bounds>>

PickLeaveCover(h) ==
  /\ Doing(h, "turn")
  /\ LET t == Now(h)
         pos == IF Reassigning(h) THEN work[h].anchor ELSE rotation
         c == FindCover(work[h].team, t.away, TurnOf(pos, t.d, work[h].team))
     IN Then(h, IF c = None THEN <<>>
                ELSE <<[do |-> "look", d |-> t.d, id |-> t.id, c |-> c],
                       [do |-> "status", l |-> t.l],
                       [do |-> "slot", d |-> t.d, c |-> c]>>)
  /\ UNCHANGED <<tables, bounds>>

\* createCoverAssignment reads the date, then inserts, re-points or leaves be.
CreateCoverAssignment(h) ==
  /\ Doing(h, "look")
  /\ LET t == Now(h)
     IN Then(h, IF cover[t.d] = None
                THEN <<[do |-> "cover", d |-> t.d, c |-> t.c, id |-> t.id]>>
                ELSE IF cover[t.d].swapped \/ cover[t.d].member = t.c
                THEN <<>>
                ELSE <<[do |-> "repoint", d |-> t.d, c |-> t.c]>>)
  /\ UNCHANGED <<tables, bounds>>

RepointCover(h) ==
  /\ Doing(h, "repoint")
  /\ LET t == Now(h)
         hit == cover[t.d] # None /\ ~cover[t.d].swapped
     IN IF hit /\ t.c \notin team
        THEN Abort(h) /\ cover' = cover
        ELSE /\ Then(h, <<>>)
             /\ cover' = IF hit THEN [cover EXCEPT ![t.d].member = t.c] ELSE cover
  /\ UNCHANGED <<today, team, leaves, orig, r1, rotation, bounds>>

UpdateLeaveStatus(h) ==
  /\ Doing(h, "status")
  /\ LET l == Now(h).l
     IN leaves' = IF leaves[l] = None THEN leaves ELSE [leaves EXCEPT ![l].status = "assigned"]
  /\ Then(h, <<>>)
  /\ UNCHANGED <<today, team, orig, cover, r1, rotation, bounds>>

\* HandleLeaveChange: the dates as stored now, reconcile, then assign.
HandleLeaveChange(h) ==
  /\ Doing(h, "change")
  /\ LET l == Now(h).l
     IN IF leaves[l] = None
        THEN Abort(h)
        ELSE Then(h, Reconcile(leaves[l].from, leaves[l].to) \o <<[do |-> "leave", l |-> l]>>)
  /\ UNCHANGED <<tables, bounds>>

UpdateLeaveRecord(h) ==
  /\ Doing(h, "edit")
  /\ LET t == Now(h)
     IN IF t.row.member \notin team
        THEN Abort(h) /\ leaves' = leaves
        ELSE /\ Then(h, <<>>)
             /\ leaves' = IF leaves[t.l] = None THEN leaves ELSE [leaves EXCEPT ![t.l] = t.row]
  /\ UNCHANGED <<today, team, orig, cover, r1, rotation, bounds>>

DeleteLeaveRecord(h) ==
  /\ Doing(h, "delete")
  /\ leaves' = [leaves EXCEPT ![Now(h).l] = None]
  /\ Then(h, <<>>)
  /\ UNCHANGED <<today, team, orig, cover, r1, rotation, bounds>>

\* ReassignCovers: the next leave of the list, and past failures.
ReassignNext(h) ==
  /\ work[h].todo = <<>> /\ work[h].queue # <<>>
  /\ LET l == Head(work[h].queue)
     IN work' = [work EXCEPT ![h].queue = Tail(@),
                             ![h].todo = Reconcile(l.from, l.to) \o <<[do |-> "leave", l |-> l.l]>>]
  /\ UNCHANGED <<tables, bounds>>

-----------------------------------------------------------------------------
(* Requests.  None is served before the startup reassignment has ended.    *)
Begin(h, job, about, todo, queue) ==
  /\ work[h] = Idle
  /\ \A g \in Handlers : ~Starting(g)
  /\ work' = [work EXCEPT ![h] = [Idle EXCEPT !.job = job, !.about = about,
                                              !.todo = todo, !.queue = queue]]

\* EnsureSchedule
Window(d) == DayRange(d, d + Ahead)
\* Mutant: the last day of the window is left out.
ShortEnsureSteps == Reconcile(today, today + Ahead) \o Fill(today, today + Ahead - 1)

EnsureSteps == Reconcile(today, today + Ahead) \o Fill(today, today + Ahead)

ViewDashboard(h) ==
  /\ Begin(h, "ensure", today, EnsureSteps, <<>>)
  /\ UNCHANGED <<tables, bounds>>

GenerateDays(h, lo, hi) ==
  /\ lo <= hi
  /\ \/ Begin(h, "fill", None, Fill(lo, hi), <<>>)
     \/ \E wipe \in BOOLEAN : Begin(h, "generate", None, Generate(lo, hi, wipe), <<>>)
  /\ UNCHANGED <<tables, changes, faults>>

CreateLeaveRecord(l, m, lo, hi) ==
  /\ lo <= hi /\ m \in team /\ leaves[l] = None
  /\ leaves' = [leaves EXCEPT ![l] = [member |-> m, from |-> lo, to |-> hi, status |-> "pending"]]
  /\ UNCHANGED <<today, team, orig, cover, r1, rotation, changes, faults>>

\* The web form reconciles before it assigns; the API and the CLI only assign.
handleLeaveReportPost(h, l, m, lo, hi) ==
  CreateLeaveRecord(l, m, lo, hi) /\ Begin(h, "leave", l, <<[do |-> "change", l |-> l]>>, <<>>)

handleReportLeave(h, l, m, lo, hi) ==
  CreateLeaveRecord(l, m, lo, hi) /\ Begin(h, "leave", l, <<[do |-> "leave", l |-> l]>>, <<>>)

\* The status is read before the row is written back.
EditLeave(h, l, m, lo, hi) ==
  /\ lo <= hi /\ leaves[l] # None
  /\ LET row == [member |-> m, from |-> lo, to |-> hi, status |-> leaves[l].status]
     IN Begin(h, "leave", l, <<[do |-> "edit", l |-> l, row |-> row], [do |-> "change", l |-> l]>>, <<>>)
  /\ UNCHANGED <<tables, changes, faults>>

DeleteLeave(h, l) ==
  /\ leaves[l] # None
  /\ LET r == leaves[l]
     IN Begin(h, "delete", None,
              <<[do |-> "delete", l |-> l]>> \o Reconcile(r.from, r.to) \o Fill(r.from, r.to), <<>>)
  /\ UNCHANGED <<tables, changes, faults>>

AddTeamMember(m) ==
  /\ m \notin team /\ changes < MaxTeamChanges
  /\ team' = team \cup {m}
  /\ changes' = changes + 1
  /\ UNCHANGED <<today, leaves, orig, cover, r1, rotation, faults>>

\* The team page refreshes the schedule afterwards, the API does not.
handleTeamPost(h, m) == AddTeamMember(m) /\ Begin(h, "ensure", today, EnsureSteps, <<>>)

handleAddTeam(h, m) == AddTeamMember(m) /\ Begin(h, "add", today, <<>>, <<>>)

\* Leaves and assignments go with the member; a cover whose original goes
\* stays, and its original_assignment_id becomes NULL.
DeleteMember(h, m) ==
  /\ m \in team /\ changes < MaxTeamChanges
  /\ team' = team \ {m}
  /\ leaves' = [l \in Leaves |-> IF leaves[l] # None /\ leaves[l].member = m THEN None ELSE leaves[l]]
  /\ orig' = [d \in Days |-> IF orig[d] # None /\ orig[d].member = m THEN None ELSE orig[d]]
  /\ cover' = [d \in Days |-> IF cover[d] = None \/ cover[d].member = m THEN None
                              ELSE [cover[d] EXCEPT !.linked = @ /\ orig'[d] # None]]
  /\ changes' = changes + 1
  /\ Begin(h, "ensure", today, EnsureSteps, <<>>)
  /\ UNCHANGED <<today, r1, rotation, faults>>

\* Mutant: leaves already marked assigned are skipped.
PendingChronological ==
  LET live == {l \in Leaves : leaves[l] # None /\ leaves[l].status = "pending"}
      Before(k, l) == leaves[k].from < leaves[l].from \/ (leaves[k].from = leaves[l].from /\ k < l)
      order == Ranked(live, [l \in live |-> {k \in live : Before(k, l)}])
  IN [i \in DOMAIN order |-> [l |-> order[i], from |-> leaves[order[i]].from, to |-> leaves[order[i]].to]]

\* The leaves by start date.  The sort of equal dates is unspecified, but the
\* same table gives the same order: that of the ids stands for it.
Chronological ==
  LET live == {l \in Leaves : leaves[l] # None}
      Before(k, l) == leaves[k].from < leaves[l].from \/ (leaves[k].from = leaves[l].from /\ k < l)
      order == Ranked(live, [l \in live |-> {k \in live : Before(k, l)}])
  IN [i \in DOMAIN order |-> [l |-> order[i], from |-> leaves[order[i]].from, to |-> leaves[order[i]].to]]

Reassign(h) ==
  /\ Begin(h, "reassign", None, <<>>, Chronological)
  /\ UNCHANGED <<tables, changes, faults>>

\* A swap accepted between two rows of the rota, originals or covers (HatSwap).
SwapDays(h, d, e) ==
  /\ Begin(h, "swap", None, <<>>, <<>>)
  /\ \/ /\ orig[d] # None /\ orig[e] # None /\ orig[e].member # orig[d].member
        /\ orig' = [orig EXCEPT ![d].member = orig[e].member, ![d].swapped = TRUE,
                                ![e].member = orig[d].member, ![e].swapped = TRUE]
        /\ cover' = cover
     \/ /\ orig[d] # None /\ cover[e] # None /\ cover[e].member # orig[d].member
        /\ orig' = [orig EXCEPT ![d].member = cover[e].member, ![d].swapped = TRUE]
        /\ cover' = [cover EXCEPT ![e].member = orig[d].member, ![e].swapped = TRUE]
     \/ /\ cover[d] # None /\ cover[e] # None /\ cover[e].member # cover[d].member
        /\ cover' = [cover EXCEPT ![d].member = cover[e].member, ![d].swapped = TRUE,
                                  ![e].member = cover[d].member, ![e].swapped = TRUE]
        /\ orig' = orig
  /\ UNCHANGED <<today, team, leaves, r1, rotation, changes, faults>>

Reply(h) ==
  /\ work[h].job # "none" /\ work[h].todo = <<>> /\ work[h].queue = <<>>
  /\ work' = [work EXCEPT ![h] = Idle]
  /\ UNCHANGED <<tables, bounds>>

-----------------------------------------------------------------------------
\* A statement fails; only recordActualCoverSlot carries on regardless, and
\* a reassign run then still remembers the position.
Fail(h) ==
  /\ work[h].todo # <<>> /\ faults < MaxFaults
  /\ faults' = faults + 1
  /\ IF Now(h).do = "slot"
     THEN work' = [work EXCEPT ![h].todo = Tail(@),
                               ![h].anchor = IF Reassigning(h) THEN SlotPosition(h) ELSE @]
     ELSE Abort(h)
  /\ UNCHANGED <<tables, requests, changes>>

\* The server stops between two statements and starts again.
Restart(h) ==
  /\ faults < MaxFaults
  /\ faults' = faults + 1
  /\ work' = [g \in Handlers |->
                IF g = h THEN [Idle EXCEPT !.job = "boot", !.queue = Chronological] ELSE Idle]
  /\ UNCHANGED <<tables, requests, changes>>

\* startLeaveCleanup, once a day.
Tick ==
  /\ today < LastDay
  /\ today' = today + 1
  /\ leaves' = [l \in Leaves |-> IF leaves[l] # None /\ leaves[l].to < today' THEN None ELSE leaves[l]]
  /\ UNCHANGED <<team, orig, cover, r1, rotation, work, bounds>>

Init ==
  /\ today = 0 /\ team \in Teams
  /\ leaves = [l \in Leaves |-> None]
  /\ orig = [d \in Days |-> None] /\ cover = [d \in Days |-> None]
  /\ r1 = None /\ rotation = None
  /\ work = [h \in Handlers |-> Idle]
  /\ requests = 0 /\ changes = 0 /\ faults = 0

Request(h) ==
  /\ requests < MaxRequests /\ requests' = requests + 1
  /\ \/ Reassign(h)
     \/ \E lo, hi \in Days :
          \/ GenerateDays(h, lo, hi) \/ SwapDays(h, lo, hi)
          \/ \E l \in Leaves, m \in Members :
               \/ handleLeaveReportPost(h, l, m, lo, hi) \/ handleReportLeave(h, l, m, lo, hi)
               \/ EditLeave(h, l, m, lo, hi)
     \/ \E l \in Leaves : DeleteLeave(h, l)
     \/ \E m \in Members : handleTeamPost(h, m) \/ handleAddTeam(h, m) \/ DeleteMember(h, m)

Statement(h) ==
  \/ BuildLeaveIndex(h) \/ FindStale(h) \/ DropCover(h)
  \/ GetDatesWithAssignments(h) \/ GetMembers(h) \/ DeleteAssignmentsInRange(h)
  \/ ReadLeaves(h) \/ PickOriginal(h) \/ DetermineCoveringMember(h)
  \/ CommitCoverSlot(h) \/ InsertOriginal(h) \/ AdvanceR1(h) \/ InsertCover(h)
  \/ LoadLeave(h) \/ LoadTeam(h) \/ EnsureOriginalAssignment(h) \/ ReadOtherLeaves(h)
  \/ PickLeaveCover(h) \/ CreateCoverAssignment(h) \/ RepointCover(h) \/ UpdateLeaveStatus(h)
  \/ HandleLeaveChange(h) \/ UpdateLeaveRecord(h) \/ DeleteLeaveRecord(h)
  \/ ReassignNext(h) \/ Reply(h)

Next ==
  \/ \E h \in Handlers : ViewDashboard(h) \/ Request(h) \/ Statement(h) \/ Fail(h) \/ Restart(h)
  \/ Tick

Spec == Init /\ [][Next]_vars

-----------------------------------------------------------------------------
\* The request has run its last statement without an error.
Done(h, jobs) ==
  work[h].job \in jobs /\ work[h].todo = <<>> /\ work[h].queue = <<>> /\ ~work[h].failed

\* The day has a cover who is at work, unless nobody is or a swap decided it.
IsCovered(d) ==
  \/ team \subseteq OnLeave(d)
  \/ cover[d] # None /\ (cover[d].swapped \/ cover[d].member \notin OnLeave(d))

LeaveIsCovered(l) ==
  \A d \in Working :
    /\ today <= d
    /\ leaves[l] # None /\ d \in DayRange(leaves[l].from, leaves[l].to)
    /\ Scheduled(d, leaves[l].member)
    => IsCovered(d)

(* When a leave was reported or edited, nobody is left holding or covering *)
(* a day of it, although the cover may be away too, or have to be found by *)
(* walking past members on leave (HandleLeaveChange).                      *)
ReportedLeaveIsCovered ==
  \A h \in Handlers : Done(h, {"leave"}) => LeaveIsCovered(work[h].about)

(* After the startup reassignment every leave is covered, whatever request *)
(* the crash cut short (the comment on createAssignment relies on this).   *)
RestartHeals ==
  \A h \in Handlers : Done(h, {"boot"}) => \A l \in Leaves : LeaveIsCovered(l)

(* EnsureSchedule leaves no day of the window unassigned and no cover for  *)
(* a member who is not on leave.                                           *)
EnsureRepairs ==
  \A h \in Handlers : Done(h, {"ensure"}) =>
    \A d \in Window(work[h].about) \cap Working : today <= d =>
      Unassigned({d}) = {} /\ ~IsStale(d, [e \in Days |-> OnLeave(e)])

(* The hat goes round: with an unchanged team and no failed statement, the *)
(* originals of any two dates are as many slots apart as there are working *)
(* days between them, however the generation of the dates was split up.    *)
FairRotation ==
  changes = 0 /\ faults = 0 =>
    \A d, e \in Working :
      d < e /\ orig[d] # None /\ orig[e] # None /\ ~orig[d].swapped /\ ~orig[e].swapped =>
        SlotOf(team, orig[e].member) =
          (SlotOf(team, orig[d].member) + Cardinality({x \in Working : d < x /\ x <= e})) % Cardinality(team)

=============================================================================
