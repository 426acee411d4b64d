----------------------------- MODULE WfhProofs -----------------------------
(***************************************************************************)
(* Theorems about Wfh, for all values of its constants.                    *)
(*                                                                         *)
(* The steps of a goroutine come in two sorts: a request starts and fixes  *)
(* its statements (RequestStep says which), or the first statement runs    *)
(* and may put others in its place (Continued says what is left then).     *)
(***************************************************************************)
EXTENDS Wfh, FiniteSetTheorems, SequenceTheorems, TLAPS

Keys == Members \X Days

-----------------------------------------------------------------------------
(* Statements and sequences of them. *)

LEMMA StatementTypes ==
  ASSUME NEW w \in Statement
  PROVE  /\ w.do \in {"quota", "create", "deny", "mark", "assign", "release", "replace",
                      "status", "withdraw", "offer"} => w.k \in Keys
         /\ w.do = "status" => w.s \in {"approved", "cancelled"}
         /\ w.do = "withdraw" => w.by \in {None} \cup Admins
         /\ w.do \in {"mark", "release"} => w.by \in Admins
         /\ w.do = "deactivate" => w.m \in Members
         /\ w.do \in {"materialize", "settle"} =>
              w \in [do : {"materialize", "settle"}, left : SUBSET Keys]
         /\ w.do = "pass" => w \in [do : {"pass"}, left : SUBSET Days]
         /\ w.do = "load" => w.from \in Days /\ w.to \in Nat
         /\ w.do = "offer" => w.target \in Members
         /\ w.do = "answer" => /\ w.i \in 1..MaxSwaps
                               /\ w.s \in {"accepted", "rejected", "cancelled"}
BY DEF Statement, Keys

\* What goes on with other statements in place of the first.
LEMMA Continued ==
  ASSUME NEW h \in Handlers, NEW steps \in Seq(Statement),
         work \in [Handlers -> Seq(Statement)], work[h] # <<>>, Then(h, steps)
  PROVE  /\ work' \in [Handlers -> Seq(Statement)]
         /\ work' = [work EXCEPT ![h] = work'[h]]
         /\ work'[h] = steps \o Tail(work[h])
         /\ Len(steps) \in Nat /\ Len(work[h]) \in Nat \ {0}
         /\ Len(work'[h]) = Len(steps) + Len(work[h]) - 1
         /\ \A i \in 1..Len(steps) : work'[h][i] = steps[i]
         /\ \A i \in 1..Len(work'[h]) : i > Len(steps) =>
              work'[h][i] = work[h][i - Len(steps) + 1]
<1> DEFINE w == work[h]
<1>1. /\ w \in Seq(Statement) /\ Tail(w) \in Seq(Statement)
      /\ Len(w) \in Nat \ {0} /\ Len(Tail(w)) = Len(w) - 1
      /\ \A i \in 1..Len(Tail(w)) : Tail(w)[i] = w[i + 1]
  BY HeadTailProperties, LenProperties, EmptySeq
<1>2. /\ work' = [work EXCEPT ![h] = steps \o Tail(w)]
      /\ work'[h] = steps \o Tail(w)
  BY DEF Then
<1>3. /\ steps \o Tail(w) \in Seq(Statement) /\ Len(steps) \in Nat
      /\ Len(steps \o Tail(w)) = Len(steps) + Len(Tail(w))
      /\ \A i \in 1..Len(steps) + Len(Tail(w)) :
           (steps \o Tail(w))[i] = IF i <= Len(steps) THEN steps[i] ELSE Tail(w)[i - Len(steps)]
  BY <1>1, ConcatProperties, LenProperties
<1> HIDE DEF w
<1>4. \A i \in 1..Len(steps) + Len(Tail(w)) : i > Len(steps) =>
        (steps \o Tail(w))[i] = w[i - Len(steps) + 1]
  BY <1>1, <1>3
<1>5. work' \in [Handlers -> Seq(Statement)]
  BY <1>2, <1>3
<1> QED
  BY <1>1, <1>2, <1>3, <1>4, <1>5 DEF w

\* Nothing in its place: the first statement is done.
LEMMA DoneWith ==
  ASSUME NEW h \in Handlers, work \in [Handlers -> Seq(Statement)], work[h] # <<>>,
         Then(h, <<>>)
  PROVE  /\ work' \in [Handlers -> Seq(Statement)]
         /\ work' = [work EXCEPT ![h] = work'[h]]
         /\ Len(work[h]) \in Nat \ {0} /\ Len(work'[h]) = Len(work[h]) - 1
         /\ \A i \in 1..Len(work'[h]) : work'[h][i] = work[h][i + 1]
<1>1. <<>> \in Seq(Statement) /\ Len(<<>>) = 0
  BY EmptySeq
<1>2. /\ work' \in [Handlers -> Seq(Statement)]
      /\ work' = [work EXCEPT ![h] = work'[h]]
      /\ Len(work[h]) \in Nat \ {0}
      /\ Len(work'[h]) = Len(<<>>) + Len(work[h]) - 1
      /\ \A i \in 1..Len(work'[h]) : i > Len(<<>>) =>
           work'[h][i] = work[h][i - Len(<<>>) + 1]
  BY <1>1, Continued
<1> QED
  BY <1>1, <1>2

LEMMA Aborted ==
  ASSUME NEW h \in Handlers, work \in [Handlers -> Seq(Statement)], Abort(h)
  PROVE  /\ work' \in [Handlers -> Seq(Statement)]
         /\ work' = [work EXCEPT ![h] = work'[h]] /\ work'[h] = <<>> /\ Len(work'[h]) = 0
BY EmptySeq DEF Abort

LEMMA Appended ==
  ASSUME NEW a \in Seq(Statement), NEW z \in Statement
  PROVE  /\ Append(a, z) \in Seq(Statement) /\ Len(Append(a, z)) = Len(a) + 1
         /\ \A i \in 1..Len(a) : Append(a, z)[i] = a[i]
         /\ Append(a, z)[Len(a) + 1] = z
BY AppendProperties

LEMMA FirstStatement ==
  ASSUME NEW h \in Handlers, work \in [Handlers -> Seq(Statement)], work[h] # <<>>
  PROVE  /\ Len(work[h]) \in Nat \ {0} /\ Now(h) = work[h][1] /\ Now(h) \in Statement
         /\ \A i \in 1..Len(work[h]) : work[h][i] \in Statement
BY EmptySeq, ElementOfSeq, HeadTailProperties DEF Now

-----------------------------------------------------------------------------
(* Requests: the statements each of them starts with. *)

Ask(k) == [do |-> "quota", k |-> k]
Create(k) == [do |-> "create", k |-> k]
Settle(k) == [do |-> "settle", left |-> {k}]

\* A report of today that has not inserted its row yet.
Reporting(w) ==
  \E k \in Keys : \/ Len(w) = 3 /\ w[1] = Ask(k) /\ w[2] = Create(k) /\ w[3] = Settle(k)
                  \/ Len(w) = 2 /\ w[1] = Create(k) /\ w[2] = Settle(k)

IsPending(k) == rows[k] # None /\ rows[k].status = "pending"

Approved(k, origins) == /\ rows[k] # None
                        /\ rows[k].status = "approved" /\ rows[k].origin \in origins

\* The statements of a new request, and what it saw of the row they are about.
Plan(steps) ==
  \/ \E k \in Keys : Len(steps) = 2 /\ steps[1] = Ask(k) /\ steps[2] = Create(k)
  \/ Reporting(steps) /\ Len(steps) = 3
  \/ \E k \in Keys : /\ IsPending(k) /\ Len(steps) = 1
                     /\ steps[1] = [do |-> "status", k |-> k, s |-> "cancelled"]
  \/ \E k \in Keys, by \in {None} \cup Admins :
       /\ Approved(k, {"ad_hoc", "recurring"}) /\ Len(steps) = 1
       /\ steps[1] = [do |-> "withdraw", k |-> k, by |-> by]
  \/ Len(steps) = 2 /\ steps[1].do = "release" /\ steps[2].do = "replace"
  \/ \A i \in 1..Len(steps) :
       steps[i].do \in {"mark", "materialize", "load", "pass", "purge", "offer", "answer",
                       "deactivate"}

MemberRequest(h) ==
  \/ handleWFHRequestPost(h) \/ handleRequestWFH(h) \/ handleWFHReportToday(h)
  \/ handleWFHCancel(h) \/ handleCancelWFH(h) \/ handleWFHSelfWithdraw(h)
  \/ handleWFHTodayOnSite(h) \/ handleWFHOnSiteOnDate(h) \/ handleWFHList(h) \/ CalendarFeed(h)

AdminRequest(h) ==
  \/ runSettle(h) \/ handleWFHAdminSettle(h) \/ handleSettleWFH(h) \/ handleWFHAdminWithdraw(h)
  \/ handleWithdrawWFH(h) \/ handleAdminMarkWFH(h) \/ handleAdminMarkWFHUnmark(h)
  \/ handleWFHAdminReassign(h) \/ handleWFHPurge(h) \/ handleWFHSwapCreate(h)
  \/ handleWFHSwapAnswer(h) \/ handleWFHSwapCancel(h)

LEMMA OneOrTwo ==
  ASSUME NEW S, NEW x \in S, NEW y \in S
  PROVE  /\ <<x>> \in Seq(S) /\ Len(<<x>>) = 1 /\ <<x>>[1] = x
         /\ <<x, y>> \in Seq(S) /\ Len(<<x, y>>) = 2 /\ <<x, y>>[1] = x /\ <<x, y>>[2] = y
OBVIOUS

LEMMA Three ==
  ASSUME NEW S, NEW x \in S, NEW y \in S, NEW z \in S
  PROVE  LET t == <<x>> \o <<y>> \o <<z>>
         IN  t \in Seq(S) /\ Len(t) = 3 /\ t[1] = x /\ t[2] = y /\ t[3] = z
<1> DEFINE u == <<x>> \o <<y>>
<1>1. u \in Seq(S) /\ Len(u) = 2 /\ u[1] = x /\ u[2] = y
  BY ConcatProperties, OneOrTwo
<1> HIDE DEF u
<1> DEFINE v == <<z>>
           t == u \o v
<1>2. v \in Seq(S) /\ Len(v) = 1 /\ v[1] = z
  BY OneOrTwo
<1> HIDE DEF v
<1>3. /\ t \in Seq(S) /\ Len(t) = Len(u) + Len(v)
      /\ \A i \in 1..Len(u) + Len(v) : t[i] = IF i <= Len(u) THEN u[i] ELSE v[i - Len(u)]
  BY <1>1, <1>2, ConcatProperties
<1> HIDE DEF t
<1>4. t \in Seq(S) /\ Len(t) = 3 /\ t[1] = x /\ t[2] = y /\ t[3] = z
  BY <1>1, <1>2, <1>3
<1> QED
  BY <1>4 DEF t, u, v

LEMMA AskPlan ==
  ASSUME NEW k \in Keys
  PROVE  AskSteps(k) \in Seq(Statement) /\ Plan(AskSteps(k))
<1>1. Ask(k) \in Statement /\ Create(k) \in Statement
  BY DEF Ask, Create, Statement, Keys
<1> QED
  BY <1>1, OneOrTwo DEF AskSteps, Plan, Ask, Create

LEMMA ReportPlan ==
  ASSUME TypeOK, NEW m \in Members
  PROVE  ReportToday(m) \in Seq(Statement) /\ Plan(ReportToday(m))
<1> DEFINE k == <<m, today>>
<1>1. k \in Keys
  BY DEF TypeOK, Keys
<1>2. Ask(k) \in Statement /\ Create(k) \in Statement /\ Settle(k) \in Statement
  BY <1>1 DEF Ask, Create, Settle, Statement, Keys
<1>3. /\ AskSteps(k) \in Seq(Statement) /\ Len(AskSteps(k)) = 2
      /\ AskSteps(k)[1] = Ask(k) /\ AskSteps(k)[2] = Create(k)
  BY <1>2, OneOrTwo DEF AskSteps, Ask, Create
<1>4. ReportToday(m) = Append(AskSteps(k), Settle(k))
  BY DEF ReportToday, Settle
<1> HIDE DEF k
<1>5. /\ ReportToday(m) \in Seq(Statement) /\ Len(ReportToday(m)) = 3
      /\ ReportToday(m)[1] = Ask(k) /\ ReportToday(m)[2] = Create(k)
      /\ ReportToday(m)[3] = Settle(k)
  <2> DEFINE a == AskSteps(k)
             s == Settle(k)
  <2>1. a \in Seq(Statement) /\ s \in Statement
    BY <1>2, <1>3
  <2>2. Len(a) = 2 /\ a[1] = Ask(k) /\ a[2] = Create(k)
    BY <1>3
  <2> HIDE DEF a, s
  <2>4. /\ Append(a, s) \in Seq(Statement) /\ Len(Append(a, s)) = Len(a) + 1
        /\ \A i \in 1..Len(a) : Append(a, s)[i] = a[i]
        /\ Append(a, s)[Len(a) + 1] = s
    BY <2>1, Appended
  <2>3. /\ Len(Append(a, s)) = 3 /\ Append(a, s)[3] = s
        /\ Append(a, s)[1] = Ask(k) /\ Append(a, s)[2] = Create(k)
    BY <2>2, <2>4
  <2> QED
    BY <1>4, <2>3, <2>4 DEF a, s
<1> QED
  BY <1>1, <1>5 DEF Plan, Reporting


LEMMA RowTypes ==
  ASSUME TypeOK, NEW k \in Keys, rows[k] # None
  PROVE  /\ rows[k] \in Request
         /\ rows[k].status \in Statuses /\ rows[k].origin \in {"ad_hoc", "recurring", "assigned"}
<1>1. rows[k] \in Request
  BY DEF TypeOK, Keys
<1> QED
  BY <1>1 DEF Request

LEMMA CancelPlan ==
  ASSUME NEW m \in Members, NEW d \in Days, IsStatus(m, d, "pending")
  PROVE  LET steps == <<[do |-> "status", k |-> <<m, d>>, s |-> "cancelled"]>>
         IN  steps \in Seq(Statement) /\ Plan(steps)
<1> DEFINE x == [do |-> "status", k |-> <<m, d>>, s |-> "cancelled"]
<1>1. <<m, d>> \in Keys /\ IsPending(<<m, d>>)
  BY DEF Keys, IsPending, IsStatus
<1>2. x \in Statement
  BY DEF Statement
<1>3. <<x>> \in Seq(Statement) /\ Len(<<x>>) = 1 /\ <<x>>[1] = x
  BY <1>2, OneOrTwo
<1> QED
  BY <1>1, <1>3 DEF Plan

LEMMA WithdrawPlan ==
  ASSUME TypeOK, NEW m \in Members, NEW d \in Days, NEW actor \in {None} \cup Admins,
         IsStatus(m, d, "approved"), rows[m, d].origin # "assigned"
  PROVE  WithdrawSteps(m, d, actor) \in Seq(Statement) /\ Plan(WithdrawSteps(m, d, actor))
<1> DEFINE x == [do |-> "withdraw", k |-> <<m, d>>, by |-> actor]
<1>1. <<m, d>> \in Keys
  BY DEF Keys
<1>2. Approved(<<m, d>>, {"ad_hoc", "recurring"})
  BY <1>1, RowTypes DEF Approved, IsStatus
<1>3. x \in Statement
  BY DEF Statement
<1>4. <<x>> \in Seq(Statement) /\ Len(<<x>>) = 1 /\ <<x>>[1] = x
  BY <1>3, OneOrTwo
<1> QED
  BY <1>1, <1>2, <1>4 DEF Plan, WithdrawSteps

LEMMA SinglePlan ==
  ASSUME NEW x \in Statement,
         x.do \in {"mark", "materialize", "load", "pass", "purge", "offer", "answer",
                  "deactivate"}
  PROVE  <<x>> \in Seq(Statement) /\ Plan(<<x>>)
<1>1. <<x>> \in Seq(Statement) /\ Len(<<x>>) = 1 /\ <<x>>[1] = x
  BY OneOrTwo
<1>2. \A i \in 1..Len(<<x>>) : <<x>>[i].do = x.do
  BY <1>1
<1> QED
  BY <1>1, <1>2 DEF Plan

LEMMA MaterializeType ==
  ASSUME NEW ms, NEW lo, NEW hi
  PROVE  Materialize(ms, lo, hi) \in Statement /\ Materialize(ms, lo, hi).do = "materialize"
BY WfhAssumption DEF Materialize, Statement

LEMMA PassType ==
  ASSUME NEW days \in SUBSET Days
  PROVE  [do |-> "pass", left |-> days] \in Statement
BY DEF Statement

LEMMA SettlePlan ==
  ASSUME TypeOK
  PROVE  /\ SettlePendingRequests \in Seq(Statement) /\ Plan(SettlePendingRequests)
         /\ Append(SettlePendingRequests, [do |-> "purge"]) \in Seq(Statement)
         /\ Plan(Append(SettlePendingRequests, [do |-> "purge"]))
<1> DEFINE x == EnsureRecurringMaterialized(today, today + SettlementDays)
           y == [do |-> "load", from |-> today, to |-> today + SettlementDays]
           z == [do |-> "purge"]
           s == SettlePendingRequests
<1>1. x \in Statement /\ x.do = "materialize"
  BY MaterializeType DEF EnsureRecurringMaterialized
<1>2. y \in Statement /\ y.do = "load"
  BY WfhAssumption DEF TypeOK, Statement, Days
<1>3. z \in Statement /\ z.do = "purge"
  BY DEF Statement
<1>4. s = <<x, y>>
  BY DEF SettlePendingRequests
<1> HIDE DEF x, y, z, s
<1>5. s \in Seq(Statement) /\ Len(s) = 2 /\ s[1] = x /\ s[2] = y
  BY <1>1, <1>2, <1>4, OneOrTwo
<1>6. /\ Append(s, z) \in Seq(Statement) /\ Len(Append(s, z)) = Len(s) + 1
      /\ \A i \in 1..Len(s) : Append(s, z)[i] = s[i]
      /\ Append(s, z)[Len(s) + 1] = z
  BY <1>3, <1>5, Appended
<1>7. \A i \in 1..Len(s) : s[i].do \in {"materialize", "load"}
  BY <1>1, <1>2, <1>5
<1>8. \A i \in 1..Len(Append(s, z)) : Append(s, z)[i].do \in {"materialize", "load", "purge"}
  BY <1>3, <1>5, <1>6, <1>7
<1>9. Plan(s) /\ Plan(Append(s, z))
  BY <1>7, <1>8 DEF Plan
<1> QED
  BY <1>5, <1>6, <1>9 DEF s, z

LEMMA FeedPlan ==
  ASSUME NEW lo \in Days
  PROVE  LET steps == [i \in 1..2 * (LastDay - lo + 1) |->
                         RefreshFor(lo + (i - 1) \div 2)[((i - 1) % 2) + 1]]
         IN  steps \in Seq(Statement) /\ Plan(steps)
<1> DEFINE n == 2 * (LastDay - lo + 1)
           step(i) == RefreshFor(lo + (i - 1) \div 2)[((i - 1) % 2) + 1]
           steps == [i \in 1..n |-> step(i)]
<1>1. n \in Nat
  BY WfhAssumption DEF Days
<1>2. ASSUME NEW i \in 1..n
      PROVE  step(i) \in Statement /\ step(i).do \in {"materialize", "pass"}
  <2> DEFINE d == lo + (i - 1) \div 2
  <2>1. d \in Days /\ ((i - 1) % 2 = 0 \/ (i - 1) % 2 = 1)
    BY <1>1, WfhAssumption DEF Days
  <2> HIDE DEF d
  <2>2. /\ EnsureRecurringMaterialized(d, d) \in Statement
        /\ EnsureRecurringMaterialized(d, d).do = "materialize"
    BY MaterializeType DEF EnsureRecurringMaterialized
  <2>3. [do |-> "pass", left |-> IF SeatCap = 0 THEN {} ELSE {d}] \in Statement
    BY <2>1, PassType
  <2>4. \A j \in {1, 2} : /\ RefreshFor(d)[j] \in Statement
                          /\ RefreshFor(d)[j].do \in {"materialize", "pass"}
    BY <2>2, <2>3 DEF RefreshFor
  <2>5. ((i - 1) % 2) + 1 \in {1, 2}
    BY <2>1
  <2>6. RefreshFor(d)[((i - 1) % 2) + 1] = step(i)
    BY DEF d
  <2> QED
    BY <2>4, <2>5, <2>6
<1> HIDE DEF n, step
<1>3. steps \in Seq(Statement) /\ Len(steps) = n /\ \A i \in 1..n : steps[i] = step(i)
  BY <1>1, <1>2
<1>4. Plan(steps)
  BY <1>2, <1>3 DEF Plan
<1> QED
  BY <1>3, <1>4 DEF n, step

\* A request that starts finds its goroutine free and changes no table.
Started(h, steps) == /\ Free(h) /\ h \in Handlers
                     /\ work' = [work EXCEPT ![h] = steps] /\ UNCHANGED <<tables, faults>>
                     /\ \/ requests' = requests
                        \/ requests < MaxRequests /\ requests' = requests + 1

LEMMA ServeStarts ==
  ASSUME NEW h \in Handlers, NEW kind, NEW steps, Serve(h, kind, steps),
         UNCHANGED <<tables, faults>>
  PROVE  Started(h, steps)
BY DEF Serve, Started

LEMMA MemberRequestStep ==
  ASSUME TypeOK, NEW h \in Handlers, MemberRequest(h)
  PROVE  \E steps \in Seq(Statement) : Plan(steps) /\ Started(h, steps)
<1>1. CASE handleWFHRequestPost(h) \/ handleRequestWFH(h)
  <2>1. PICK m \in Members, d \in Days : Serve(h, "ask", AskSteps(<<m, d>>))
    BY <1>1 DEF handleWFHRequestPost, handleRequestWFH
  <2>2. <<m, d>> \in Keys
    BY DEF Keys
  <2> QED
    BY <1>1, <2>1, <2>2, AskPlan, ServeStarts DEF handleWFHRequestPost, handleRequestWFH
<1>2. CASE handleWFHReportToday(h)
  <2>1. PICK m \in Members : Serve(h, "report", ReportToday(m))
    BY <1>2 DEF handleWFHReportToday
  <2> QED
    BY <1>2, <2>1, ReportPlan, ServeStarts DEF handleWFHReportToday
<1>3. CASE handleWFHCancel(h) \/ handleCancelWFH(h)
  <2>1. PICK m \in Members, d \in Days : CancelWFHRequest(h, m, d)
    BY <1>3 DEF handleWFHCancel, handleCancelWFH
  <2> QED
    BY <1>3, <2>1, CancelPlan, ServeStarts DEF CancelWFHRequest, handleWFHCancel, handleCancelWFH
<1>4. CASE handleWFHSelfWithdraw(h) \/ handleWFHTodayOnSite(h) \/ handleWFHOnSiteOnDate(h)
  <2>1. \E m \in Members, d \in Days : withdrawWFH(h, "withdraw", m, d, None)
    <3>1. CASE handleWFHSelfWithdraw(h)
      BY <3>1 DEF handleWFHSelfWithdraw
    <3>2. CASE handleWFHTodayOnSite(h)
      BY <3>2 DEF handleWFHTodayOnSite, SignalOnSiteToday, withdrawApprovedRowOnDate, TypeOK
    <3>3. CASE handleWFHOnSiteOnDate(h)
      BY <3>3 DEF handleWFHOnSiteOnDate, SignalOnSiteOnDate, withdrawApprovedRowOnDate
    <3> QED
      BY <1>4, <3>1, <3>2, <3>3
  <2>2. UNCHANGED <<tables, faults>>
    BY <1>4 DEF handleWFHSelfWithdraw, handleWFHTodayOnSite, handleWFHOnSiteOnDate
  <2> QED
    BY <2>1, <2>2, WithdrawPlan, ServeStarts DEF withdrawWFH
<1>5. CASE handleWFHList(h)
  <2>1. PICK m \in Members : Serve(h, "page", <<EnsureRecurringMaterializedForMember(m)>>)
    BY <1>5 DEF handleWFHList
  <2>2. /\ EnsureRecurringMaterializedForMember(m) \in Statement
        /\ EnsureRecurringMaterializedForMember(m).do = "materialize"
    BY MaterializeType DEF EnsureRecurringMaterializedForMember
  <2> QED
    BY <1>5, <2>1, <2>2, SinglePlan, ServeStarts DEF handleWFHList
<1>6. CASE CalendarFeed(h)
  BY <1>6, FeedPlan, ServeStarts DEF CalendarFeed
<1> QED
  BY <1>1, <1>2, <1>3, <1>4, <1>5, <1>6 DEF MemberRequest

LEMMA AdminRequestStep ==
  ASSUME TypeOK, NEW h \in Handlers, AdminRequest(h)
  PROVE  \E steps \in Seq(Statement) : Plan(steps) /\ Started(h, steps)
<1>1. CASE runSettle(h) \/ handleWFHAdminSettle(h) \/ handleSettleWFH(h)
  <2>1. CASE runSettle(h)
    <3>1. Started(h, Append(SettlePendingRequests, [do |-> "purge"]))
      BY <2>1 DEF runSettle, Started, bounds
    <3> QED
      BY <3>1, SettlePlan
  <2>2. CASE handleWFHAdminSettle(h) \/ handleSettleWFH(h)
    BY <2>2, SettlePlan, ServeStarts DEF handleWFHAdminSettle, handleSettleWFH
  <2> QED
    BY <1>1, <2>1, <2>2
<1>2. CASE handleWFHAdminWithdraw(h) \/ handleWithdrawWFH(h) \/ handleAdminMarkWFHUnmark(h)
  <2>1. \E m \in Members, d \in Days, kind \in {"withdraw", "mark"}, admin \in Admins :
          withdrawWFH(h, kind, m, d, admin)
    BY <1>2 DEF handleWFHAdminWithdraw, handleWithdrawWFH, handleAdminMarkWFHUnmark, TypeOK
  <2>2. UNCHANGED <<tables, faults>>
    BY <1>2 DEF handleWFHAdminWithdraw, handleWithdrawWFH, handleAdminMarkWFHUnmark
  <2> QED
    BY <2>1, <2>2, WithdrawPlan, ServeStarts DEF withdrawWFH
<1>3. CASE handleAdminMarkWFH(h)
  <2>1. PICK m \in Members, admin \in Admins :
          Serve(h, "mark", <<[do |-> "mark", k |-> <<m, today>>, by |-> admin]>>)
    BY <1>3 DEF handleAdminMarkWFH, MarkWFH, TypeOK
  <2>2. [do |-> "mark", k |-> <<m, today>>, by |-> admin] \in Statement
    BY DEF TypeOK, Statement
  <2> QED
    BY <1>3, <2>1, <2>2, SinglePlan, ServeStarts DEF handleAdminMarkWFH
<1>4. CASE handleWFHAdminReassign(h)
  <2>1. PICK m \in Members, r \in Members, d \in Days, admin \in Admins :
          Serve(h, "reassign", <<[do |-> "release", k |-> <<m, d>>, by |-> admin],
                                 [do |-> "replace", k |-> <<r, d>>]>>)
    BY <1>4 DEF handleWFHAdminReassign, AdminReassignWFH, TypeOK
  <2> DEFINE x == [do |-> "release", k |-> <<m, d>>, by |-> admin]
             y == [do |-> "replace", k |-> <<r, d>>]
  <2>2. x \in Statement /\ y \in Statement
    BY DEF Statement
  <2>3. <<x, y>> \in Seq(Statement) /\ Plan(<<x, y>>)
    BY <2>2, OneOrTwo DEF Plan
  <2> QED
    BY <1>4, <2>1, <2>3, ServeStarts DEF handleWFHAdminReassign
<1>5. CASE handleWFHPurge(h)
  <2>1. [do |-> "purge"] \in Statement
    BY DEF Statement
  <2> QED
    BY <1>5, <2>1, SinglePlan, ServeStarts DEF handleWFHPurge
<1>6. CASE handleWFHSwapCreate(h)
  <2>1. PICK m \in Members, target \in Members, d \in Days :
          Serve(h, "swap", <<[do |-> "offer", k |-> <<m, d>>, target |-> target]>>)
    BY <1>6 DEF handleWFHSwapCreate
  <2>2. [do |-> "offer", k |-> <<m, d>>, target |-> target] \in Statement
    BY DEF Statement
  <2> QED
    BY <1>6, <2>1, <2>2, SinglePlan, ServeStarts DEF handleWFHSwapCreate
<1>7. CASE handleWFHSwapAnswer(h) \/ handleWFHSwapCancel(h)
  <2>1. PICK i \in 1..MaxSwaps, s \in {"accepted", "rejected", "cancelled"} :
          Serve(h, "swap", <<[do |-> "answer", i |-> i, s |-> s]>>)
    BY <1>7 DEF handleWFHSwapAnswer, handleWFHSwapCancel, transitionWFHSwap, TypeOK
  <2>2. [do |-> "answer", i |-> i, s |-> s] \in Statement
    BY DEF Statement
  <2> QED
    BY <1>7, <2>1, <2>2, SinglePlan, ServeStarts DEF handleWFHSwapAnswer, handleWFHSwapCancel
<1> QED
  BY <1>1, <1>2, <1>3, <1>4, <1>5, <1>6, <1>7 DEF AdminRequest

-----------------------------------------------------------------------------
(* Type correctness, and what the statements do to the rows. *)

LEMMA NewRowType ==
  ASSUME NEW s \in Statuses, NEW o \in {"ad_hoc", "recurring", "assigned"}
  PROVE  /\ NewRow(s, o) \in Request
         /\ NewRow(s, o).status = s /\ NewRow(s, o).origin = o /\ NewRow(s, o).by = None
BY DEF NewRow, Request

LEMMA Changed ==
  ASSUME NEW r \in Request, NEW s \in Statuses, NEW by \in {None} \cup Admins
  PROVE  LET x == [r EXCEPT !.status = s]
             y == [r EXCEPT !.status = s, !.by = by]
             z == [r EXCEPT !.status = s, !.by = by, !.recurring = FALSE]
         IN  /\ x \in Request /\ x.status = s /\ x.origin = r.origin /\ x.by = r.by
             /\ y \in Request /\ y.status = s /\ y.origin = r.origin /\ y.by = by
             /\ z \in Request /\ z.status = s /\ z.origin = r.origin /\ z.by = by
BY DEF Request

LEMMA Marked ==
  ASSUME NEW r \in Request
  PROVE  LET x == [r EXCEPT !.marked = TRUE]
         IN  x \in Request /\ x.status = r.status /\ x.origin = r.origin /\ x.by = r.by
BY DEF Request

\* A row that is written keeps its origin, and one that is gone stays so.
Written(k, status, by) ==
  /\ rows' \in [Keys -> Request \cup {None}]
  /\ \A j \in Keys : j # k => rows'[j] = rows[j]
  /\ rows[k] = None => rows'[k] = None
  /\ rows[k] # None => /\ rows'[k] \in Request /\ rows'[k].origin = rows[k].origin
                       /\ rows'[k].status = status /\ rows'[k].by = by

LEMMA SetRow ==
  ASSUME TypeOK, NEW k \in Keys, NEW r, Set(k, r),
         rows[k] # None => r \in Request /\ r.origin = rows[k].origin
  PROVE  Written(k, r.status, r.by)
<1>1. CASE rows[k] = None
  BY <1>1 DEF Set, Written, TypeOK, Keys
<1>2. CASE rows[k] # None
  BY <1>2 DEF Set, Written, TypeOK, Keys
<1> QED
  BY <1>1, <1>2

LEMMA StatusRow ==
  ASSUME TypeOK, NEW k \in Keys, NEW s \in Statuses, Set(k, [rows[k] EXCEPT !.status = s])
  PROVE  Written(k, s, rows[k].by)
<1> DEFINE r == [rows[k] EXCEPT !.status = s]
<1>1. CASE rows[k] = None
  BY <1>1 DEF Set, Written, TypeOK, Keys
<1>2. CASE rows[k] # None
  <2>1. r \in Request /\ r.origin = rows[k].origin /\ r.status = s /\ r.by = rows[k].by
    <3>1. rows[k] \in Request
      BY <1>2, RowTypes
    <3> QED
      BY <3>1, Changed
  <2> HIDE DEF r
  <2>2. Written(k, r.status, r.by)
    BY <2>1, SetRow DEF r
  <2> QED
    BY <2>1, <2>2
<1> QED
  BY <1>1, <1>2

LEMMA WithdrawnRow ==
  ASSUME TypeOK, NEW k \in Keys, NEW by \in {None} \cup Admins, UpdateWFHRequestWithdrawn(k, by),
         ~Refused(k, by)
  PROVE  Written(k, "withdrawn", by)
<1> DEFINE r == [rows[k] EXCEPT !.status = "withdrawn", !.by = by]
<1>1. CASE rows[k] = None
  BY <1>1 DEF UpdateWFHRequestWithdrawn, Set, Written, TypeOK, Keys
<1>2. CASE rows[k] # None
  <2>1. r \in Request /\ r.origin = rows[k].origin /\ r.status = "withdrawn" /\ r.by = by
    <3>1. rows[k] \in Request
      BY <1>2, RowTypes
    <3>2. "withdrawn" \in Statuses /\ "pending" \in Statuses /\ None \in {None} \cup Admins
      BY DEF Statuses
    <3> QED
      BY <3>1, <3>2 DEF Request
  <2> HIDE DEF r
  <2>2. Written(k, r.status, r.by)
    BY <2>1, SetRow DEF UpdateWFHRequestWithdrawn, r
  <2> QED
    BY <2>1, <2>2
<1> QED
  BY <1>1, <1>2

LEMMA ResurrectedRow ==
  ASSUME TypeOK, NEW k \in Keys, ResurrectWFHRequest(k)
  PROVE  Written(k, "pending", None)
<1> DEFINE r == [rows[k] EXCEPT !.status = "pending", !.by = None, !.recurring = FALSE]
<1>1. CASE rows[k] = None
  BY <1>1 DEF ResurrectWFHRequest, Set, Written, TypeOK, Keys
<1>2. CASE rows[k] # None
  <2>1. r \in Request /\ r.origin = rows[k].origin /\ r.status = "pending" /\ r.by = None
    <3>1. rows[k] \in Request
      BY <1>2, RowTypes
    <3>2. "withdrawn" \in Statuses /\ "pending" \in Statuses /\ None \in {None} \cup Admins
      BY DEF Statuses
    <3> QED
      BY <3>1, <3>2 DEF Request
  <2> HIDE DEF r
  <2>2. Written(k, r.status, r.by)
    BY <2>1, SetRow DEF ResurrectWFHRequest, r
  <2> QED
    BY <2>1, <2>2
<1> QED
  BY <1>1, <1>2

Inserted(k, status, origin) ==
  /\ rows[k] = None /\ Exists(k[1])
  /\ rows' = [rows EXCEPT ![k] = rows'[k]]
  /\ rows'[k] \in Request
  /\ rows'[k].status = status /\ rows'[k].origin = origin /\ rows'[k].by = None

LEMMA InsertType ==
  ASSUME TypeOK, NEW k, NEW s, NEW o, Inserted(k, s, o)
  PROVE  rows' \in [Keys -> Request \cup {None}]
BY DEF Inserted, TypeOK, Keys

\* Statements that insert: the row is there already, or it is new.
LEMMA CreateRecurring ==
  ASSUME TypeOK, NEW k \in Keys, CreateApprovedRecurringWFHRequest(k)
  PROVE  UNCHANGED rows \/ (Inserted(k, "approved", "recurring") /\ k[2] >= today)
BY NewRowType DEF CreateApprovedRecurringWFHRequest, Insert, Insertable, Inserted, Statuses, TypeOK, Keys

LEMMA CreateAssigned ==
  ASSUME TypeOK, NEW k \in Keys, CreateApprovedAssignedWFHRequest(k)
  PROVE  UNCHANGED rows \/ (Inserted(k, "approved", "assigned") /\ k[2] >= today)
BY NewRowType DEF CreateApprovedAssignedWFHRequest, Insert, Insertable, Inserted, Statuses, TypeOK, Keys

LEMMA MarkRow ==
  ASSUME TypeOK, NEW k \in Keys, NEW actor, MarkAdminWFH(k, actor)
  PROVE  UNCHANGED rows \/ Inserted(k, "approved", "ad_hoc")
<1> DEFINE r == [NewRow("approved", "ad_hoc") EXCEPT !.marked = TRUE]
<1>1. r \in Request /\ r.status = "approved" /\ r.origin = "ad_hoc" /\ r.by = None
  <2>1. /\ NewRow("approved", "ad_hoc") \in Request
        /\ NewRow("approved", "ad_hoc").status = "approved"
        /\ NewRow("approved", "ad_hoc").origin = "ad_hoc"
        /\ NewRow("approved", "ad_hoc").by = None
    BY NewRowType DEF Statuses
  <2> QED
    BY <2>1, Marked
<1>2. UNCHANGED rows \/ (rows[k] = None /\ Exists(k[1]) /\ rows' = [rows EXCEPT ![k] = r])
  BY DEF MarkAdminWFH, Insert, Insertable
<1> HIDE DEF r
<1> QED
  BY <1>1, <1>2 DEF Inserted, TypeOK, Keys

\* A withdrawal that the foreign key refuses ends its request.
Denied(h) == Now(h).do = "withdraw" /\ Abort(h) /\ UNCHANGED rows

LEMMA WriteStep ==
  ASSUME TypeOK, NEW h \in Handlers, Write(h)
  PROVE  /\ work[h] # <<>> /\ UNCHANGED <<today, member, accounts, leave, swaps, bounds>>
         /\ Then(h, <<>>) \/ Denied(h)
         /\ Now(h).k \in Keys
         /\ rows' \in [Keys -> Request \cup {None}]
         /\ \/ Denied(h)
            \/ Now(h).do = "status" /\ Now(h).s \in {"approved", "cancelled"}
                 /\ Written(Now(h).k, Now(h).s, rows[Now(h).k].by)
            \/ Now(h).do = "deny" /\ Written(Now(h).k, "denied", rows[Now(h).k].by)
            \/ Now(h).do = "withdraw" /\ Written(Now(h).k, "withdrawn", Now(h).by)
            \/ Now(h).do = "mark" /\ (UNCHANGED rows \/ Inserted(Now(h).k, "approved", "ad_hoc"))
            \/ /\ Now(h).do \in {"assign", "replace"}
               /\ \/ UNCHANGED rows
                  \/ Inserted(Now(h).k, "approved", "assigned") /\ Now(h).k[2] >= today
<1>1. /\ work[h] # <<>> /\ UNCHANGED <<today, member, accounts, leave, swaps, bounds>>
      /\ Now(h).do \in {"status", "deny", "withdraw", "mark", "assign", "replace"}
      /\ ~(Now(h).do = "withdraw" /\ Refused(Now(h).k, Now(h).by)) => Then(h, <<>>)
  BY DEF Write, Doing, Now
<1>2. /\ Now(h).k \in Keys
      /\ Now(h).do = "status" => Now(h).s \in {"approved", "cancelled"}
      /\ Now(h).do = "withdraw" => Now(h).by \in {None} \cup Admins
  BY <1>1, FirstStatement, StatementTypes DEF TypeOK
<1>3. CASE Now(h).do = "status"
  <2>1. Set(Now(h).k, [rows[Now(h).k] EXCEPT !.status = Now(h).s]) /\ Now(h).s \in Statuses
    BY <1>2, <1>3 DEF Write, Doing, Now, UpdateWFHRequestStatus, Statuses
  <2>2. Written(Now(h).k, Now(h).s, rows[Now(h).k].by)
    BY <1>2, <2>1, StatusRow
  <2> QED
    BY <1>1, <1>2, <1>3, <2>2 DEF Written
<1>4. CASE Now(h).do = "deny"
  <2>1. Set(Now(h).k, [rows[Now(h).k] EXCEPT !.status = "denied"])
    BY <1>4 DEF Write, Doing, Now, DenyWFHRequest
  <2>2. Written(Now(h).k, "denied", rows[Now(h).k].by)
    BY <1>2, <2>1, StatusRow DEF Statuses
  <2> QED
    BY <1>1, <1>2, <1>4, <2>2 DEF Written
<1>5. CASE Now(h).do = "withdraw"
  <2>1. UpdateWFHRequestWithdrawn(Now(h).k, Now(h).by)
    BY <1>5 DEF Write, Doing, Now
  <2>2. CASE Refused(Now(h).k, Now(h).by)
    <3>1. Denied(h)
      BY <1>1, <1>5, <2>1, <2>2 DEF Write, Doing, Now, UpdateWFHRequestWithdrawn, Denied
    <3> QED
      BY <1>1, <1>2, <3>1 DEF Denied, TypeOK, Keys
  <2>3. CASE ~Refused(Now(h).k, Now(h).by)
    <3>1. Written(Now(h).k, "withdrawn", Now(h).by)
      BY <1>2, <1>5, <2>1, <2>3, WithdrawnRow
    <3> QED
      BY <1>1, <1>2, <1>5, <2>3, <3>1 DEF Written
  <2> QED
    BY <2>2, <2>3
<1>6. CASE Now(h).do = "mark"
  <2>1. MarkAdminWFH(Now(h).k, Now(h).by)
    BY <1>6 DEF Write, Doing, Now
  <2>2. UNCHANGED rows \/ Inserted(Now(h).k, "approved", "ad_hoc")
    BY <1>2, <2>1, MarkRow
  <2>3. rows' \in [Keys -> Request \cup {None}]
    BY <2>2, InsertType DEF TypeOK, Keys
  <2> QED
    BY <1>1, <1>2, <1>6, <2>2, <2>3
<1>7. CASE Now(h).do \in {"assign", "replace"}
  <2>1. CreateApprovedAssignedWFHRequest(Now(h).k)
    BY <1>7 DEF Write, Doing, Now
  <2>2. UNCHANGED rows \/ (Inserted(Now(h).k, "approved", "assigned") /\ Now(h).k[2] >= today)
    BY <1>2, <2>1, CreateAssigned
  <2>3. rows' \in [Keys -> Request \cup {None}]
    BY <2>2, InsertType DEF TypeOK, Keys
  <2> QED
    BY <1>1, <1>2, <1>7, <2>2, <2>3
<1> QED
  BY <1>1, <1>3, <1>4, <1>5, <1>6, <1>7

LEMMA QuotaStep ==
  ASSUME TypeOK, NEW h \in Handlers, CheckQuota(h)
  PROVE  /\ work[h] # <<>> /\ Now(h).do = "quota" /\ Now(h).k \in Keys
         /\ UNCHANGED <<tables, bounds>>
         /\ \/ Then(h, <<>>) /\ Used(Now(h).k[1], Now(h).k[2]) < MaxDaysPerPeriod
            \/ Abort(h)
<1>1. work[h] # <<>> /\ Now(h).do = "quota" /\ UNCHANGED <<tables, bounds>>
  BY DEF CheckQuota, Doing, Now
<1>2. Now(h).k \in Keys
  BY <1>1, FirstStatement, StatementTypes DEF TypeOK
<1> QED
  BY <1>1, <1>2 DEF CheckQuota

LEMMA CreateStep ==
  ASSUME TypeOK, NEW h \in Handlers, CreateWFHRequest(h)
  PROVE  LET k == Now(h).k
         IN  /\ work[h] # <<>> /\ Now(h).do = "create" /\ k \in Keys
             /\ UNCHANGED <<today, member, accounts, leave, swaps, bounds>>
             /\ rows' \in [Keys -> Request \cup {None}]
             /\ \/ Then(h, <<>>) /\ Inserted(k, "pending", "ad_hoc")
                \/ /\ Then(h, <<>>) /\ rows[k] # None /\ isUserResurrectable(rows[k])
                   /\ Written(k, "pending", None)
                \/ Abort(h) /\ UNCHANGED rows
<1> DEFINE k == Now(h).k
<1>1. work[h] # <<>> /\ Now(h).do = "create" /\ UNCHANGED <<today, member, accounts, leave, swaps, bounds>>
  BY DEF CreateWFHRequest, Doing, Now
<1>2. k \in Keys
  BY <1>1, FirstStatement, StatementTypes DEF TypeOK
<1>3. \/ Exists(k[1]) /\ rows[k] = None /\ Insert(k, NewRow("pending", "ad_hoc")) /\ Then(h, <<>>)
      \/ rows[k] # None /\ resurrectOrDuplicate(h, k)
      \/ UNCHANGED rows /\ Abort(h)
  BY DEF CreateWFHRequest
<1> HIDE DEF k
<1>4. CASE Exists(k[1]) /\ rows[k] = None /\ Insert(k, NewRow("pending", "ad_hoc")) /\ Then(h, <<>>)
  <2>1. Inserted(k, "pending", "ad_hoc")
    BY <1>2, <1>4, NewRowType DEF Inserted, Insert, Statuses, TypeOK, Keys
  <2> QED
    BY <1>1, <1>2, <1>4, <2>1, InsertType DEF k
<1>5. CASE rows[k] # None /\ resurrectOrDuplicate(h, k)
  <2>1. CASE isUserResurrectable(rows[k])
    <3>1. Written(k, "pending", None) /\ Then(h, <<>>)
      BY <1>2, <1>5, <2>1, ResurrectedRow DEF resurrectOrDuplicate
    <3> QED
      BY <1>1, <1>2, <1>5, <2>1, <3>1 DEF Written, k
  <2>2. CASE ~isUserResurrectable(rows[k])
    BY <1>1, <1>2, <1>5, <2>2 DEF resurrectOrDuplicate, k, TypeOK, Keys
  <2> QED
    BY <2>1, <2>2
<1>6. CASE UNCHANGED rows /\ Abort(h)
  BY <1>1, <1>2, <1>6 DEF k, TypeOK, Keys
<1> QED
  BY <1>3, <1>4, <1>5, <1>6

LEMMA ReleaseStep ==
  ASSUME TypeOK, NEW h \in Handlers, WithdrawAssignedWFHRequest(h)
  PROVE  /\ work[h] # <<>> /\ Now(h).do = "release" /\ UNCHANGED <<tables, bounds>>
         /\ \/ \E k \in Keys, by \in Admins :
                 /\ rows[k] # None /\ rows[k].status = "approved"
                 /\ Then(h, <<[do |-> "withdraw", k |-> k, by |-> by]>>)
                 /\ [do |-> "withdraw", k |-> k, by |-> by] \in Statement
            \/ Abort(h)
<1> DEFINE k == Now(h).k
           by == Now(h).by
<1>1. work[h] # <<>> /\ Now(h).do = "release" /\ UNCHANGED <<tables, bounds>>
  BY DEF WithdrawAssignedWFHRequest, Doing, Now
<1>2. k \in Keys /\ by \in Admins
  BY <1>1, FirstStatement, StatementTypes DEF TypeOK
<1>3. [do |-> "withdraw", k |-> k, by |-> by] \in Statement
  BY <1>2 DEF Statement, Keys
<1>4. k = <<k[1], k[2]>>
  BY <1>2 DEF Keys
<1> HIDE DEF k, by
<1>5. \/ /\ IsStatus(k[1], k[2], "approved")
         /\ Then(h, <<[do |-> "withdraw", k |-> k, by |-> by]>>)
      \/ Abort(h)
  BY <1>4 DEF WithdrawAssignedWFHRequest, WithdrawSteps, k, by
<1> QED
  BY <1>1, <1>2, <1>3, <1>4, <1>5 DEF IsStatus

LEMMA MaterializeStep ==
  ASSUME TypeOK, NEW h \in Handlers, materializeForMember(h)
  PROVE  /\ work[h] # <<>> /\ Now(h).do = "materialize"
         /\ UNCHANGED <<today, member, accounts, leave, swaps, bounds>>
         /\ \/ UNCHANGED rows
            \/ \E k \in Keys : Inserted(k, "approved", "recurring") /\ k[2] >= today
         /\ \/ Then(h, <<>>)
            \/ \E x \in Statement : x.do = "materialize" /\ Then(h, <<x>>)
<1>1. /\ work[h] # <<>> /\ Now(h).do = "materialize"
      /\ UNCHANGED <<today, member, accounts, leave, swaps, bounds>>
  BY DEF materializeForMember, Doing, Now
<1>2. Now(h) \in [do : {"materialize", "settle"}, left : SUBSET Keys]
  BY <1>1, FirstStatement, StatementTypes DEF TypeOK
<1>3. CASE Now(h).left = {}
  BY <1>1, <1>3 DEF materializeForMember
<1>4. CASE Now(h).left # {}
  <2> DEFINE k == Earliest(Now(h).left)
  <2>1. PICK left \in SUBSET Keys :
          /\ CreateApprovedRecurringWFHRequest(k)
          /\ Then(h, <<[Now(h) EXCEPT !.left = left]>>)
    <3> DEFINE passed == ~HasWFHRequestOnDate(k[1], k[2]) /\ k[2] < today
               left == IF passed THEN {j \in Now(h).left : j[1] # k[1]} ELSE Now(h).left \ {k}
    <3>1. left \in SUBSET Keys
      BY <1>2
    <3>2. /\ CreateApprovedRecurringWFHRequest(k)
          /\ Then(h, <<[Now(h) EXCEPT !.left = left]>>)
      BY <1>2, <1>4 DEF materializeForMember
    <3> QED
      BY <3>1, <3>2
  <2> HIDE DEF k
  <2>2. /\ [Now(h) EXCEPT !.left = left] \in Statement
        /\ [Now(h) EXCEPT !.left = left].do = "materialize"
    BY <1>1, <1>2 DEF Statement, Keys
  <2>3. CASE k \in Keys
    BY <1>1, <2>1, <2>2, <2>3, CreateRecurring
  <2>4. CASE k \notin Keys
    <3>1. UNCHANGED rows
      BY <2>1, <2>4 DEF CreateApprovedRecurringWFHRequest, Insert, TypeOK, Keys
    <3> QED
      BY <1>1, <2>1, <2>2, <3>1
  <2> QED
    BY <2>3, <2>4
<1> QED
  BY <1>3, <1>4

\* Only pending requests are loaded for settlement.
LEMMA LoadStep ==
  ASSUME TypeOK, NEW h \in Handlers, GetPendingForSettlement(h)
  PROVE  /\ work[h] # <<>> /\ Now(h).do = "load" /\ UNCHANGED <<tables, bounds>>
         /\ \E steps \in Seq(Statement) :
              /\ Then(h, steps)
              /\ \A i \in 1..Len(steps) :
                   \/ steps[i].do \in {"pass", "expire"}
                   \/ steps[i].do = "settle" /\ \A k \in steps[i].left : k \in Keys /\ IsPending(k)
<1>1. work[h] # <<>> /\ Now(h).do = "load" /\ UNCHANGED <<tables, bounds>>
  BY DEF GetPendingForSettlement, Doing, Now
<1> DEFINE pending == GetPendingWFHRequestsForSettlement(Now(h).to)
           s == [do |-> "settle", left |-> pending]
           p == settleAssignmentPass(Now(h).from, Now(h).to)
           e == [do |-> "expire"]
<1>2. pending \in SUBSET Keys /\ \A k \in pending : IsPending(k)
  <2>1. ASSUME NEW k \in pending PROVE k \in Keys /\ IsPending(k)
    <3>1. k \in Members \X Days /\ IsStatus(k[1], k[2], "pending")
      BY DEF GetPendingWFHRequestsForSettlement
    <3>2. k = <<k[1], k[2]>>
      BY <3>1
    <3> QED
      BY <3>1, <3>2 DEF IsStatus, IsPending, Keys
  <2> QED
    BY <2>1
<1>3. s \in Statement /\ s.do = "settle" /\ s.left = pending
  BY <1>2 DEF Statement, Keys
<1>4. p \in Statement /\ p.do = "pass"
  BY WfhAssumption DEF settleAssignmentPass, Statement
<1>5. e \in Statement /\ e.do = "expire"
  BY DEF Statement
<1>6. Then(h, IF pending = {} THEN <<p>> ELSE <<s>> \o <<p>> \o <<e>>)
  BY DEF GetPendingForSettlement
<1> HIDE DEF pending, s, p, e
<1>7. <<p>> \in Seq(Statement) /\ Len(<<p>>) = 1 /\ <<p>>[1] = p
  BY <1>4, OneOrTwo
<1> DEFINE t == <<s>> \o <<p>> \o <<e>>
<1>8. t \in Seq(Statement) /\ Len(t) = 3 /\ t[1] = s /\ t[2] = p /\ t[3] = e
  BY <1>3, <1>4, <1>5, Three
<1> HIDE DEF t
<1>9. \A i \in 1..Len(t) : t[i].do \in {"pass", "expire"} \/ t[i] = s
  BY <1>4, <1>5, <1>8
<1>10. CASE pending = {}
  BY <1>1, <1>4, <1>6, <1>7, <1>10
<1>11. CASE pending # {}
  <2>1. Then(h, t)
    BY <1>6, <1>11 DEF t
  <2> QED
    BY <1>1, <1>2, <1>3, <1>8, <1>9, <2>1
<1> QED
  BY <1>10, <1>11

LEMMA Sizes ==
  ASSUME NEW S \in SUBSET Members
  PROVE  IsFiniteSet(S) /\ Cardinality(S) \in Nat
BY WfhAssumption, FS_Subset, FS_CardinalityType

LEMMA MinOnsiteType ==
  ASSUME NEW n \in Nat
  PROVE  /\ MinOnsiteCount(n) \in Nat /\ MinOnsiteCount(n) >= MinOnsiteAbsolute
         /\ 100 * MinOnsiteCount(n) >= MinOnsitePercentage * n
<1>1. MinOnsitePercentage \in Nat /\ MinOnsiteAbsolute \in Nat
  BY WfhAssumption
<1> DEFINE x == n * MinOnsitePercentage
<1>2. x \in Nat /\ x = MinOnsitePercentage * n
  BY <1>1
<1> HIDE DEF x
<1>3. /\ (x + 99) \div 100 \in Nat /\ 100 * ((x + 99) \div 100) >= x
  BY <1>2
<1> QED
  BY <1>1, <1>2, <1>3 DEF MinOnsiteCount, x

LEMMA SlotsType ==
  ASSUME NEW d
  PROVE  /\ AvailableSlots(d) \in Nat
         /\ LET n == Cardinality(GetActiveTeamMembers)
            IN  AvailableSlots(d) > 0 =>
                  Cardinality(Unavailable(d)) + AvailableSlots(d) + MinOnsiteCount(n) = n
<1>1. /\ Cardinality(GetActiveTeamMembers) \in Nat /\ Cardinality(Unavailable(d)) \in Nat
  BY Sizes DEF GetActiveTeamMembers, Unavailable, leaveMemberIDsForDate,
               GetWFHRequestsByDateAndStatus
<1>2. MinOnsiteCount(Cardinality(GetActiveTeamMembers)) \in Nat
  BY <1>1, MinOnsiteType
<1> QED
  BY <1>1, <1>2 DEF AvailableSlots

LEMMA Ordered ==
  ASSUME NEW S, IsFiniteSet(S), NEW order \in SetToSeqs(S)
  PROVE  /\ Cardinality(S) \in Nat /\ order \in Seq(S) /\ Len(order) = Cardinality(S)
         /\ order \in [1..Cardinality(S) -> S]
<1>1. order \in [1..Cardinality(S) -> S]
  BY DEF SetToSeqs
<1> QED
  BY <1>1, FS_CardinalityType

\* The first j of a sequence are at most j.
LEMMA FirstFew ==
  ASSUME NEW S, NEW n \in Nat, NEW order \in [1..n -> S], NEW j \in 0..n
  PROVE  /\ {order[i] : i \in 1..j} \subseteq S /\ IsFiniteSet({order[i] : i \in 1..j})
         /\ Cardinality({order[i] : i \in 1..j}) <= j
<1> DEFINE picks == {order[i] : i \in 1..j}
           f == [i \in 1..j |-> order[i]]
<1>1. f \in Surjection(1..j, picks)
  BY DEF Surjection
<1>2. IsFiniteSet(1..j) /\ Cardinality(1..j) = j
  BY FS_Interval
<1> HIDE DEF f
<1>3. IsFiniteSet(picks) /\ Cardinality(picks) <= Cardinality(1..j)
  BY <1>1, <1>2, FS_Surjection
<1> QED
  BY <1>2, <1>3

\* The decisions on one date: approvals for at most as many members as there
\* are slots, and the dates that are left.
LEMMA SettleStep ==
  ASSUME TypeOK, NEW h \in Handlers, settleDate(h)
  PROVE  /\ work[h] # <<>> /\ Now(h).do = "settle" /\ UNCHANGED <<tables, bounds>>
         /\ Now(h).left \in SUBSET Keys
         /\ \/ Then(h, <<>>)
            \/ \E steps \in Seq(Statement), d \in Days, picks \in SUBSET Members :
                 /\ Then(h, steps) /\ Len(steps) > 0
                 /\ steps[Len(steps)].do = "settle" /\ steps[Len(steps)].left \subseteq Now(h).left
                 /\ \A i \in 1..Len(steps) - 1 :
                      /\ steps[i].do \in {"status", "deny"} /\ steps[i].k \in Now(h).left
                      /\ steps[i].do = "status" => /\ steps[i].s = "approved"
                                                   /\ \E m \in picks : steps[i].k = <<m, d>>
                 /\ Cardinality(picks) <= AvailableSlots(d)
<1>1. work[h] # <<>> /\ Now(h).do = "settle" /\ UNCHANGED <<tables, bounds>>
  BY DEF settleDate, Doing, Now
<1>2. Now(h) \in [do : {"materialize", "settle"}, left : SUBSET Keys]
  BY <1>1, FirstStatement, StatementTypes DEF TypeOK
<1>3. CASE Now(h).left = {}
  BY <1>1, <1>2, <1>3 DEF settleDate
<1>4. CASE Now(h).left # {}
  <2> DEFINE d == Earliest(Now(h).left)[2]
             rest == {k \in Now(h).left : k[2] # d}
             later == [Now(h) EXCEPT !.left = rest]
             pending == {m \in Members : <<m, d>> \in Now(h).left}
  <2>1. later \in Statement /\ later.do = "settle" /\ later.left = rest /\ rest \subseteq Now(h).left
    BY <1>1, <1>2 DEF Statement, Keys
  <2>2. \/ Then(h, <<later>>)
        \/ \E order \in SetToSeqs(pending) :
             Then(h, Append(Decide(order, d, AvailableSlots(d)), later))
    BY <1>4 DEF settleDate, prioritisePending, ByUsage
  <2>3. pending \in SUBSET Members /\ \A m \in pending : <<m, d>> \in Now(h).left
    OBVIOUS
  <2> HIDE DEF d, rest, later, pending
  <2>4. CASE Then(h, <<later>>)
    <3>1. <<later>> \in Seq(Statement) /\ Len(<<later>>) = 1 /\ <<later>>[1] = later
      BY <2>1, OneOrTwo
    <3>2. 0 \in Days /\ {} \in SUBSET Members /\ Cardinality({}) = 0
      BY WfhAssumption, FS_EmptySet DEF Days
    <3>3. AvailableSlots(0) \in Nat
      BY SlotsType
    <3>4. /\ Cardinality({}) <= AvailableSlots(0)
          /\ Len(<<later>>) > 0 /\ <<later>>[Len(<<later>>)] = later
          /\ \A i \in 1..Len(<<later>>) - 1 : FALSE
      BY <3>1, <3>2, <3>3
    <3> HIDE DEF later
    <3> QED
      BY <1>1, <1>2, <2>1, <2>4, <3>1, <3>2, <3>4
  <2>5. ASSUME NEW order \in SetToSeqs(pending),
               Then(h, Append(Decide(order, d, AvailableSlots(d)), later))
        PROVE  \E steps \in Seq(Statement), e \in Days, picks \in SUBSET Members :
                 /\ Then(h, steps) /\ Len(steps) > 0
                 /\ steps[Len(steps)].do = "settle" /\ steps[Len(steps)].left \subseteq Now(h).left
                 /\ \A i \in 1..Len(steps) - 1 :
                      /\ steps[i].do \in {"status", "deny"} /\ steps[i].k \in Now(h).left
                      /\ steps[i].do = "status" => /\ steps[i].s = "approved"
                                                   /\ \E m \in picks : steps[i].k = <<m, e>>
                 /\ Cardinality(picks) <= AvailableSlots(e)
    <3> DEFINE n == Cardinality(pending)
               slots == AvailableSlots(d)
               a == Decide(order, d, slots)
    <3>1. n \in Nat /\ order \in [1..n -> pending] /\ Len(order) = n
      BY <2>3, Sizes, Ordered
    <3>2. slots \in Nat
      BY SlotsType
    <3> HIDE DEF n, slots
    <3>3. PICK j \in 0..n : j = IF slots <= n THEN slots ELSE n
      BY <3>1, <3>2
    <3> DEFINE picks == {order[i] : i \in 1..j}
    <3>4. picks \subseteq pending /\ Cardinality(picks) <= slots
      <4>1. picks \subseteq pending /\ IsFiniteSet(picks) /\ Cardinality(picks) <= j
        BY <3>1, FirstFew
      <4> HIDE DEF picks
      <4>2. Cardinality(picks) \in Nat
        BY <4>1, FS_CardinalityType
      <4> QED
        BY <3>1, <3>2, <3>3, <4>1, <4>2
    <3>5. a = [i \in 1..n |-> IF i <= slots
                              THEN [do |-> "status", k |-> <<order[i], d>>, s |-> "approved"]
                              ELSE [do |-> "deny", k |-> <<order[i], d>>]]
      BY <3>1 DEF Decide
    <3>6. ASSUME NEW i \in 1..n
          PROVE  /\ a[i] \in Statement
                 /\ a[i].do \in {"status", "deny"} /\ a[i].k \in Now(h).left
                 /\ a[i].do = "status" => /\ a[i].s = "approved"
                                          /\ \E m \in picks : a[i].k = <<m, d>>
      <4>1. <<order[i], d>> \in Now(h).left /\ <<order[i], d>> \in Keys
        BY <1>2, <2>3, <3>1
      <4>2. CASE i <= slots
        <5>1. a[i] = [do |-> "status", k |-> <<order[i], d>>, s |-> "approved"]
          BY <3>5, <4>2
        <5>2. order[i] \in picks
          BY <3>1, <3>2, <3>3, <4>2
        <5> QED
          BY <4>1, <5>1, <5>2 DEF Statement, Keys
      <4>3. CASE ~(i <= slots)
        <5>1. a[i] = [do |-> "deny", k |-> <<order[i], d>>]
          BY <3>5, <4>3
        <5> QED
          BY <4>1, <5>1 DEF Statement, Keys
      <4> QED
        BY <4>2, <4>3
    <3>7. a \in Seq(Statement) /\ Len(a) = n
      <4>1. a \in [1..n -> Statement]
        BY <3>5, <3>6
      <4> QED
        BY <3>1, <4>1
    <3> DEFINE steps == Append(a, later)
    <3> HIDE DEF a, picks
    <3>8. /\ steps \in Seq(Statement) /\ Len(steps) = n + 1 /\ steps[n + 1] = later
          /\ \A i \in 1..n : steps[i] = a[i]
      BY <2>1, <3>7, Appended
    <3>9. Then(h, steps)
      BY <2>5 DEF a, slots
    <3> HIDE DEF steps
    <3>10. Len(steps) > 0 /\ Len(steps) - 1 = n /\ steps[Len(steps)] = later
      BY <3>1, <3>8
    <3>11. CASE d \in Days
      BY <2>1, <2>3, <3>4, <3>6, <3>8, <3>9, <3>10, <3>11 DEF slots
    <3>12. CASE d \notin Days
      <4>1. pending = {}
        BY <1>2, <2>3, <3>12 DEF Keys
      <4>2. n = 0
        BY <4>1, FS_EmptySet DEF n
      <4>3. 0 \in Days /\ {} \in SUBSET Members /\ Cardinality({}) = 0 /\ AvailableSlots(0) \in Nat
        BY WfhAssumption, FS_EmptySet, SlotsType DEF Days
      <4>4. Cardinality({}) <= AvailableSlots(0)
        BY <4>3
      <4>5. Len(steps) = 1
        BY <3>8, <4>2
      <4>6. \A i \in 1..Len(steps) - 1 : FALSE
        BY <4>5
      <4> QED
        BY <2>1, <3>8, <3>9, <3>10, <4>3, <4>4, <4>6
    <3> QED
      BY <3>11, <3>12
  <2> QED
    BY <1>1, <1>2, <2>2, <2>4, <2>5
<1> QED
  BY <1>3, <1>4

\* The picks for one date: no more than there are members over the cap.
LEMMA PickerStep ==
  ASSUME TypeOK, NEW h \in Handlers, runPicker(h)
  PROVE  /\ work[h] # <<>> /\ Now(h).do = "pass" /\ UNCHANGED <<tables, bounds>>
         /\ \/ Then(h, <<>>)
            \/ \E x \in Statement : x.do = "pass" /\ Then(h, <<x>>)
            \/ \E steps \in Seq(Statement), d \in Days, picks \in SUBSET Members :
                 /\ Then(h, steps) /\ Len(steps) > 0 /\ steps[Len(steps)].do = "pass"
                 /\ \A i \in 1..Len(steps) - 1 :
                      steps[i].do = "assign" /\ \E m \in picks : steps[i].k = <<m, d>>
                 /\ Cardinality(picks) + SeatCap <= OnSite(d)
<1>1. work[h] # <<>> /\ Now(h).do = "pass" /\ UNCHANGED <<tables, bounds>>
  BY DEF runPicker, Doing, Now
<1>2. Now(h) \in [do : {"pass"}, left : SUBSET Days]
  BY <1>1, FirstStatement, StatementTypes DEF TypeOK
<1>3. CASE Now(h).left = {}
  BY <1>1, <1>3 DEF runPicker
<1>4. CASE Now(h).left # {}
  <2> DEFINE d == CHOOSE d \in Now(h).left : \A e \in Now(h).left : d <= e
             later == [Now(h) EXCEPT !.left = @ \ {d}]
             candidates == assignCandidates(d)
             excess == Least(OnSite(d) - SeatCap, Cardinality(candidates))
  <2>1. later \in Statement /\ later.do = "pass"
    BY <1>2 DEF Statement
  <2>2. \/ Then(h, <<later>>)
        \/ /\ AssignWFHForDate(d) /\ ~(excess <= 0)
           /\ \E order \in SetToSeqs(candidates) :
                Then(h, Append(insertPicks(SubSeq(order, 1, excess), d), later))
    BY <1>4 DEF runPicker, orderByPickerPriority, ByUsage
  <2>3. /\ candidates \in SUBSET Members
        /\ AssignWFHForDate(d) => d \in Days
    BY WfhAssumption DEF assignCandidates, GetActiveTeamMembers, AssignWFHForDate,
                         isPickerActiveOnDate
  <2>4. /\ OnSite(d) \in Int /\ SeatCap \in Nat
        /\ excess \in Int /\ excess <= OnSite(d) - SeatCap /\ excess <= Cardinality(candidates)
    <3>1. /\ Cardinality(GetActiveTeamMembers) \in Nat /\ Cardinality(candidates) \in Nat
          /\ Cardinality(Unavailable(d) \cup permanentWFHMemberIDs) \in Nat
      <4>1. /\ GetActiveTeamMembers \in SUBSET Members
            /\ Unavailable(d) \cup permanentWFHMemberIDs \in SUBSET Members
        BY DEF GetActiveTeamMembers, Unavailable, leaveMemberIDsForDate,
               GetWFHRequestsByDateAndStatus, permanentWFHMemberIDs
      <4> QED
        BY <2>3, <4>1, Sizes
    <3> QED
      BY <3>1, WfhAssumption DEF OnSite, Least
  <2> HIDE DEF d, later, candidates, excess
  <2>5. CASE Then(h, <<later>>)
    BY <1>1, <2>1, <2>5
  <2>6. ASSUME AssignWFHForDate(d), ~(excess <= 0), NEW order \in SetToSeqs(candidates),
               Then(h, Append(insertPicks(SubSeq(order, 1, excess), d), later))
        PROVE  \E steps \in Seq(Statement), e \in Days, picks \in SUBSET Members :
                 /\ Then(h, steps) /\ Len(steps) > 0 /\ steps[Len(steps)].do = "pass"
                 /\ \A i \in 1..Len(steps) - 1 :
                      steps[i].do = "assign" /\ \E m \in picks : steps[i].k = <<m, e>>
                 /\ Cardinality(picks) + SeatCap <= OnSite(e)
    <3> DEFINE n == Cardinality(candidates)
               few == SubSeq(order, 1, excess)
               a == insertPicks(few, d)
               picks == {order[i] : i \in 1..excess}
    <3>1. n \in Nat /\ order \in [1..n -> candidates]
      BY <2>3, Sizes, Ordered
    <3>2. excess \in 1..n /\ excess \in 0..n
      BY <2>4, <2>6, <3>1
    <3>3. /\ few \in Seq(candidates) /\ Len(few) = excess
          /\ \A i \in 1..excess : few[i] = order[i]
      <4>1. \A i \in 1..excess : order[i] \in candidates
        BY <3>1, <3>2
      <4> HIDE DEF n
      <4>2. /\ SubSeq(order, 1, excess) \in Seq(candidates)
            /\ Len(SubSeq(order, 1, excess)) = excess - 1 + 1
            /\ \A i \in 1..excess - 1 + 1 : SubSeq(order, 1, excess)[i] = order[1 + i - 1]
        BY <2>4, <3>2, <4>1, SubSeqProperties
      <4> QED
        BY <2>4, <4>2
    <3>4. picks \subseteq candidates /\ Cardinality(picks) <= excess /\ Cardinality(picks) \in Nat
      <4> HIDE DEF n
      <4>1. picks \subseteq candidates /\ IsFiniteSet(picks) /\ Cardinality(picks) <= excess
        BY <3>1, <3>2, FirstFew
      <4> QED
        BY <4>1, FS_CardinalityType
    <3> HIDE DEF n, few
    <3>5. a = [i \in 1..excess |-> [do |-> "assign", k |-> <<few[i], d>>]]
      BY <2>4, <3>3, LenProperties DEF insertPicks
    <3>6. ASSUME NEW i \in 1..excess
          PROVE  /\ a[i] \in Statement /\ a[i].do = "assign"
                 /\ \E m \in picks : a[i].k = <<m, d>>
      <4>1. a[i] = [do |-> "assign", k |-> <<few[i], d>>]
        BY <3>5
      <4>2. few[i] \in picks /\ few[i] \in Members /\ d \in Days
        BY <2>3, <2>6, <3>3, <3>4
      <4> HIDE DEF picks, a
      <4> QED
        BY <4>1, <4>2 DEF Statement
    <3>7. a \in Seq(Statement) /\ Len(a) = excess
      <4>1. a \in [1..excess -> Statement]
        BY <3>5, <3>6
      <4> QED
        BY <3>2, <4>1
    <3> DEFINE steps == Append(a, later)
    <3>8. Then(h, steps)
      BY <2>6 DEF few
    <3> HIDE DEF a, picks
    <3>9. /\ steps \in Seq(Statement) /\ Len(steps) = excess + 1 /\ steps[excess + 1] = later
          /\ \A i \in 1..excess : steps[i] = a[i]
      BY <2>1, <3>7, Appended
    <3> HIDE DEF steps
    <3>10. Len(steps) > 0 /\ Len(steps) - 1 = excess /\ steps[Len(steps)] = later
      BY <2>4, <3>2, <3>9
    <3>11. Cardinality(picks) + SeatCap <= OnSite(d)
      BY <2>4, <3>4
    <3>12. d \in Days /\ picks \in SUBSET Members
      BY <2>3, <2>6, <3>4
    <3>13. \A i \in 1..Len(steps) - 1 :
             steps[i].do = "assign" /\ \E m \in picks : steps[i].k = <<m, d>>
      BY <3>6, <3>9, <3>10
    <3> QED
      BY <2>1, <3>8, <3>9, <3>10, <3>11, <3>12, <3>13
  <2> QED
    BY <1>1, <2>2, <2>5, <2>6
<1> QED
  BY <1>3, <1>4

\* Statements after which nothing is left to decide.
LEMMA FinalSteps ==
  ASSUME TypeOK, NEW h \in Handlers,
         \/ AutoCancelExpiredSwaps(h) \/ PurgePastPeriods(h)
         \/ CreateWFHAssignmentSwap(h) \/ UpdateWFHAssignmentSwapStatus(h)
  PROVE  /\ work[h] # <<>> /\ Now(h).do \in {"expire", "purge", "offer", "answer"}
         /\ Then(h, <<>>) /\ UNCHANGED <<today, member, accounts, leave, bounds>>
         /\ swaps' \in [1..MaxSwaps -> Swap \cup {None}]
         /\ \/ UNCHANGED rows
            \/ rows' = [k \in Keys |-> IF k[2] < previousPeriodStart THEN None ELSE rows[k]]
<1>1. CASE AutoCancelExpiredSwaps(h)
  <2>1. /\ work[h] # <<>> /\ Now(h).do = "expire" /\ Then(h, <<>>)
        /\ UNCHANGED <<today, member, accounts, leave, rows, bounds>>
    BY <1>1 DEF AutoCancelExpiredSwaps, Doing, Now
  <2>2. swaps' \in [1..MaxSwaps -> Swap \cup {None}]
    BY <1>1 DEF AutoCancelExpiredSwaps, IsPendingSwap, TypeOK, Swap
  <2> QED
    BY <2>1, <2>2
<1>2. CASE PurgePastPeriods(h)
  <2>1. /\ work[h] # <<>> /\ Now(h).do = "purge" /\ Then(h, <<>>)
        /\ UNCHANGED <<today, member, accounts, leave, bounds>>
        /\ PurgeWFHRequestsBefore(previousPeriodStart)
    BY <1>2 DEF PurgePastPeriods, Doing, Now
  <2>2. DOMAIN rows = Keys /\ DOMAIN swaps = 1..MaxSwaps
    BY DEF TypeOK, Keys
  <2>3. /\ rows' = [k \in Keys |-> IF k[2] < previousPeriodStart THEN None ELSE rows[k]]
        /\ swaps' = [i \in 1..MaxSwaps |->
                       IF swaps[i] # None /\ swaps[i].day < previousPeriodStart
                       THEN None ELSE swaps[i]]
    BY <2>1, <2>2 DEF PurgeWFHRequestsBefore
  <2>4. swaps' \in [1..MaxSwaps -> Swap \cup {None}]
    BY <2>3 DEF TypeOK
  <2> QED
    BY <2>1, <2>3, <2>4
<1>3. CASE CreateWFHAssignmentSwap(h)
  <2>1. /\ work[h] # <<>> /\ Now(h).do = "offer" /\ Then(h, <<>>)
        /\ UNCHANGED <<today, member, accounts, leave, rows, bounds>>
    BY <1>3 DEF CreateWFHAssignmentSwap, Doing, Now
  <2>2. Now(h).k \in Keys /\ Now(h).target \in Members
    BY <2>1, FirstStatement, StatementTypes DEF TypeOK
  <2>3. NewSwap(Now(h).k, Now(h).target) \in Swap
    BY <2>2 DEF NewSwap, Swap, Keys
  <2>4. swaps' \in [1..MaxSwaps -> Swap \cup {None}]
    <3> DEFINE i == CHOOSE i \in {x \in DOMAIN swaps : swaps[x] = None} :
                      \A j \in {x \in DOMAIN swaps : swaps[x] = None} : i <= j
    <3>1. swaps' = swaps \/ swaps' = [swaps EXCEPT ![i] = NewSwap(Now(h).k, Now(h).target)]
      BY <1>3 DEF CreateWFHAssignmentSwap
    <3> HIDE DEF i
    <3> QED
      BY <2>3, <3>1 DEF TypeOK
  <2> QED
    BY <2>1, <2>4
<1>4. CASE UpdateWFHAssignmentSwapStatus(h)
  <2>1. /\ work[h] # <<>> /\ Now(h).do = "answer" /\ Then(h, <<>>)
        /\ UNCHANGED <<today, member, accounts, leave, rows, bounds>>
    BY <1>4 DEF UpdateWFHAssignmentSwapStatus, Doing, Now
  <2>2. Now(h).i \in 1..MaxSwaps /\ Now(h).s \in {"accepted", "rejected", "cancelled"}
    BY <2>1, FirstStatement, StatementTypes DEF TypeOK
  <2>3. swaps' \in [1..MaxSwaps -> Swap \cup {None}]
    <3>1. CASE swaps[Now(h).i] = None
      BY <1>4, <3>1 DEF UpdateWFHAssignmentSwapStatus, TypeOK
    <3>2. CASE swaps[Now(h).i] # None
      <4> DEFINE r == [swaps[Now(h).i] EXCEPT !.status = Now(h).s]
      <4>1. swaps[Now(h).i] \in Swap
        BY <2>2, <3>2 DEF TypeOK
      <4>2. r \in Swap
        BY <2>2, <4>1 DEF Swap
      <4>3. swaps' = [swaps EXCEPT ![Now(h).i] = r]
        BY <1>4, <3>2 DEF UpdateWFHAssignmentSwapStatus
      <4> HIDE DEF r
      <4> QED
        BY <4>2, <4>3 DEF TypeOK
    <3> QED
      BY <3>1, <3>2
  <2> QED
    BY <2>1, <2>3
<1> QED
  BY <1>1, <1>2, <1>3, <1>4

\* A failure drops the request, the statement, or a part of a settlement.
LEMMA FailStep ==
  ASSUME TypeOK, NEW h \in Handlers, Fail(h)
  PROVE  /\ work[h] # <<>> /\ UNCHANGED tables
         /\ requests' \in 0..MaxRequests /\ faults' \in 0..MaxFaults
         /\ \/ Abort(h)
            \/ Then(h, <<>>) /\ Now(h).do \notin {"quota", "create", "release", "withdraw"}
            \/ \E x \in Statement :
                 /\ x.do = Now(h).do /\ x.do \in {"materialize", "settle", "pass"}
                 /\ x.left \subseteq Now(h).left /\ Then(h, <<x>>)
<1>1. /\ work[h] # <<>> /\ UNCHANGED tables
      /\ requests' \in 0..MaxRequests /\ faults' \in 0..MaxFaults
  <2>1. MaxFaults \in Nat /\ faults \in 0..MaxFaults /\ requests \in 0..MaxRequests
    BY WfhAssumption DEF TypeOK
  <2>2. work[h] # <<>> /\ UNCHANGED tables /\ faults < MaxFaults /\ faults' = faults + 1
        /\ requests' = requests
    BY DEF Fail
  <2> QED
    BY <2>1, <2>2
<1>2. Now(h) \in Statement
  BY <1>1, FirstStatement DEF TypeOK
<1> DEFINE w == Now(h)
<1>3. CASE w.do \in {"quota", "create", "release", "withdraw"}
  <2>1. Abort(h)
    BY <1>3 DEF Fail
  <2> QED
    BY <1>1, <2>1
<1>4. CASE w.do \in {"materialize", "settle"} /\ w.left # {}
  <2> DEFINE k == Earliest(w.left)
             same(j) == IF w.do = "settle" THEN j[2] = k[2] ELSE j[1] = k[1]
             left == {j \in w.left : ~same(j)}
             x == [w EXCEPT !.left = left]
  <2>1. w \in [do : {"materialize", "settle"}, left : SUBSET Keys]
    BY <1>2, <1>4, StatementTypes
  <2>2. Then(h, <<x>>)
    BY <1>4, <2>1 DEF Fail
  <2>3. left \subseteq w.left
    OBVIOUS
  <2> HIDE DEF left
  <2>4. x \in Statement /\ x.do = w.do /\ x.left = left
    BY <2>1, <2>3 DEF Statement, Keys
  <2> HIDE DEF x
  <2> QED
    BY <1>1, <1>4, <2>2, <2>3, <2>4
<1>5. CASE w.do = "pass" /\ w.left # {}
  <2> DEFINE left == w.left \ {CHOOSE d \in w.left : \A e \in w.left : d <= e}
             x == [w EXCEPT !.left = left]
  <2>1. w \in [do : {"pass"}, left : SUBSET Days]
    BY <1>2, <1>5, StatementTypes
  <2>2. Then(h, <<x>>)
    BY <1>5, <2>1 DEF Fail
  <2>3. left \subseteq w.left
    OBVIOUS
  <2> HIDE DEF left
  <2>4. x \in Statement /\ x.do = w.do /\ x.left = left
    BY <2>1, <2>3 DEF Statement
  <2> HIDE DEF x
  <2> QED
    BY <1>1, <1>5, <2>2, <2>3, <2>4
<1>6. CASE /\ w.do \notin {"quota", "create", "release", "withdraw"}
           /\ ~(w.do \in {"materialize", "settle"} /\ w.left # {})
           /\ ~(w.do = "pass" /\ w.left # {})
  <2>1. Then(h, <<>>)
    BY <1>6 DEF Fail
  <2> QED
    BY <1>1, <1>6, <2>1
<1> QED
  BY <1>3, <1>4, <1>5, <1>6

\* What goes on around the requests: rows go, none comes or changes.
Surroundings(h) == runWFHPurge(h) \/ ReportLeave(h) \/ SetActive(h) \/ RemoveMember(h)

LEMMA SurroundingsStep ==
  ASSUME TypeOK, NEW h \in Handlers, Surroundings(h)
  PROVE  /\ Free(h) /\ work' = work /\ UNCHANGED <<today, accounts, faults>>
         /\ requests' \in 0..MaxRequests
         /\ member' \in [Members -> {"active", "inactive", "removed"}]
         /\ leave' \subseteq Members \X Days
         /\ rows' \in [Keys -> Request \cup {None}]
         /\ swaps' \in [1..MaxSwaps -> Swap \cup {None}]
         /\ \A m \in Members : ~Exists(m) => ~Exists(m)'
         /\ \A k \in Keys : \/ rows'[k] = rows[k]
                            \/ rows'[k] = None /\ (k[2] < today \/ ~Exists(k[1])')
<1>1. ASSUME NEW kind, Serve(h, kind, <<>>)
      PROVE  Free(h) /\ work' = work /\ requests' \in 0..MaxRequests
  <2>1. Free(h) /\ work' = [work EXCEPT ![h] = <<>>] /\ work[h] = <<>>
    BY <1>1 DEF Serve, Free
  <2>2. requests' = requests + 1 /\ requests < MaxRequests /\ requests \in 0..MaxRequests
        /\ MaxRequests \in Nat
    BY <1>1, WfhAssumption DEF Serve, TypeOK
  <2> QED
    BY <2>1, <2>2 DEF TypeOK
<1>2. CASE runWFHPurge(h)
  <2>1. PICK cutoff \in 0..today : PurgeWFHRequestsBefore(cutoff)
    BY <1>2 DEF runWFHPurge
  <2>2. DOMAIN rows = Keys /\ DOMAIN swaps = 1..MaxSwaps /\ today \in Nat
    BY WfhAssumption DEF TypeOK, Keys, Days
  <2>3. /\ rows' = [k \in Keys |-> IF k[2] < cutoff THEN None ELSE rows[k]]
        /\ swaps' = [i \in 1..MaxSwaps |-> IF swaps[i] # None /\ swaps[i].day < cutoff
                                           THEN None ELSE swaps[i]]
    BY <2>1, <2>2 DEF PurgeWFHRequestsBefore
  <2>4. /\ rows' \in [Keys -> Request \cup {None}]
        /\ swaps' \in [1..MaxSwaps -> Swap \cup {None}]
    BY <2>3 DEF TypeOK, Keys
  <2>5. \A k \in Keys : rows'[k] = rows[k] \/ (rows'[k] = None /\ k[2] < today)
    <3>1. \A k \in Keys : k[2] \in Nat
      BY WfhAssumption DEF Keys, Days
    <3> QED
      BY <2>2, <2>3, <3>1
  <2> QED
    BY <1>1, <1>2, <2>4, <2>5 DEF runWFHPurge, TypeOK, Exists
<1>3. CASE ReportLeave(h)
  <2>1. leave' \subseteq Members \X Days
    <3>1. PICK m \in GetActiveTeamMembers, d \in today..LastDay :
            leave' = IF <<m, d>> \in leave THEN leave \ {<<m, d>>} ELSE leave \cup {<<m, d>>}
      BY <1>3 DEF ReportLeave
    <3>2. <<m, d>> \in Members \X Days
      BY WfhAssumption DEF GetActiveTeamMembers, TypeOK, Days
    <3> QED
      BY <3>1, <3>2 DEF TypeOK
  <2> QED
    BY <1>1, <1>3, <2>1 DEF ReportLeave, TypeOK, Exists, Keys
<1>4. CASE SetActive(h)
  <2>1. PICK m \in Members :
          /\ Exists(m)
          /\ member' = [member EXCEPT ![m] = IF @ = "active" THEN "inactive" ELSE "active"]
    BY <1>4 DEF SetActive
  <2>2. /\ member' \in [Members -> {"active", "inactive", "removed"}]
        /\ \A n \in Members : ~Exists(n) => ~Exists(n)'
    BY <2>1 DEF TypeOK, Exists
  <2> QED
    BY <1>1, <1>4, <2>2 DEF SetActive, TypeOK, Keys
<1>5. CASE RemoveMember(h)
  <2>1. PICK m \in Members :
          /\ member' = [member EXCEPT ![m] = "removed"]
          /\ leave' = {l \in leave : l[1] # m}
          /\ rows' = [k \in DOMAIN rows |-> IF k[1] = m THEN None ELSE rows[k]]
          /\ swaps' = [i \in DOMAIN swaps |->
                         IF swaps[i] # None /\ m \in {swaps[i].member, swaps[i].target}
                         THEN None ELSE swaps[i]]
    BY <1>5 DEF RemoveMember
  <2>2. /\ member' \in [Members -> {"active", "inactive", "removed"}]
        /\ \A n \in Members : ~Exists(n) => ~Exists(n)'
        /\ ~Exists(m)'
    BY <2>1 DEF TypeOK, Exists
  <2>3. DOMAIN rows = Keys /\ DOMAIN swaps = 1..MaxSwaps
    BY DEF TypeOK, Keys
  <2>4. /\ rows' \in [Keys -> Request \cup {None}]
        /\ \A k \in Keys : rows'[k] = rows[k] \/ (rows'[k] = None /\ ~Exists(k[1])')
    BY <2>1, <2>2, <2>3 DEF TypeOK, Keys
  <2>5. swaps' \in [1..MaxSwaps -> Swap \cup {None}]
    BY <2>1, <2>3 DEF TypeOK
  <2>6. leave' \subseteq Members \X Days
    BY <2>1 DEF TypeOK
  <2> QED
    BY <1>1, <1>5, <2>2, <2>4, <2>5, <2>6 DEF RemoveMember
<1> QED
  BY <1>2, <1>3, <1>4, <1>5 DEF Surroundings

\* The account of an administrator is deleted: rows it withdrew lose its name.
Cleared(k) == /\ rows[k] # None /\ rows[k].by \in accounts \ accounts'
              /\ rows'[k] = [rows[k] EXCEPT !.by = None]

LEMMA ClearedRow ==
  ASSUME TypeOK, NEW k \in Keys, Cleared(k)
  PROVE  /\ rows[k] \in Request /\ rows'[k] \in Request /\ rows'[k].by = None
         /\ rows'[k].status = rows[k].status /\ rows'[k].origin = rows[k].origin
<1>1. rows[k] \in Request
  BY RowTypes DEF Cleared
<1> QED
  BY <1>1 DEF Cleared, Request

Deactivating(steps) == \A i \in 1..Len(steps) : steps[i].do = "deactivate"

LEMMA DenyStep ==
  ASSUME TypeOK, NEW h \in Handlers, handleUserDeny(h)
  PROVE  /\ Free(h) /\ UNCHANGED <<today, member, leave, swaps, faults>>
         /\ requests' \in 0..MaxRequests
         /\ accounts' \subseteq accounts /\ accounts' # accounts
         /\ rows' \in [Keys -> Request \cup {None}]
         /\ \A k \in Keys : rows'[k] = rows[k] \/ Cleared(k)
         /\ \E steps \in Seq(Statement) :
              Deactivating(steps) /\ work' = [work EXCEPT ![h] = steps]
<1>1. PICK admin \in accounts :
        /\ accounts' = accounts \ {admin}
        /\ rows' = [k \in DOMAIN rows |-> IF rows[k] # None /\ rows[k].by = admin
                                         THEN [rows[k] EXCEPT !.by = None] ELSE rows[k]]
  BY DEF handleUserDeny
<1>2. DOMAIN rows = Keys /\ rows \in [Keys -> Request \cup {None}]
  BY DEF TypeOK, Keys
<1>3. ASSUME NEW k \in Keys PROVE rows'[k] = rows[k] \/ Cleared(k)
  BY <1>1, <1>2 DEF Cleared
<1>4. ASSUME NEW k \in Keys PROVE rows'[k] \in Request \cup {None}
  BY <1>2, <1>3, ClearedRow
<1>5. rows' \in [Keys -> Request \cup {None}]
  BY <1>1, <1>2, <1>4
<1>6. ASSUME NEW kind, NEW steps, Serve(h, kind, steps)
      PROVE  Free(h) /\ work' = [work EXCEPT ![h] = steps] /\ requests' \in 0..MaxRequests
  BY <1>6, WfhAssumption DEF Serve, TypeOK
<1>7. <<>> \in Seq(Statement) /\ Deactivating(<<>>)
  BY EmptySeq DEF Deactivating
<1>8. ASSUME NEW m \in Members
      PROVE  <<[do |-> "deactivate", m |-> m]>> \in Seq(Statement)
             /\ Deactivating(<<[do |-> "deactivate", m |-> m]>>)
  <2>1. PICK x \in Statement : x = [do |-> "deactivate", m |-> m]
    BY DEF Statement
  <2>2. <<x>> \in Seq(Statement) /\ Len(<<x>>) = 1 /\ <<x>>[1] = x
    BY OneOrTwo
  <2>3. x.do = "deactivate"
    BY <2>1
  <2>4. Deactivating(<<x>>)
    BY <2>2, <2>3 DEF Deactivating
  <2> QED
    BY <2>1, <2>2, <2>4
<1>9. \/ Serve(h, "account", <<>>)
      \/ \E m \in Members : Serve(h, "account", <<[do |-> "deactivate", m |-> m]>>)
  BY DEF handleUserDeny
<1>10. /\ Free(h) /\ requests' \in 0..MaxRequests
       /\ \E steps \in Seq(Statement) :
            Deactivating(steps) /\ work' = [work EXCEPT ![h] = steps]
  BY <1>6, <1>7, <1>8, <1>9
<1>11. UNCHANGED <<today, member, leave, swaps, faults>>
  BY DEF handleUserDeny
<1> QED
  BY <1>1, <1>3, <1>5, <1>10, <1>11

LEMMA DeactivateStep ==
  ASSUME TypeOK, NEW h \in Handlers, DeactivateTeamMember(h)
  PROVE  /\ work[h] # <<>> /\ Now(h).do = "deactivate" /\ Then(h, <<>>)
         /\ UNCHANGED <<today, accounts, leave, rows, swaps, bounds>>
         /\ member' \in [Members -> {"active", "inactive", "removed"}]
         /\ \A m \in Members : ~Exists(m) => ~Exists(m)'
<1>1. /\ work[h] # <<>> /\ Now(h).do = "deactivate" /\ Then(h, <<>>)
      /\ UNCHANGED <<today, accounts, leave, rows, swaps, bounds>>
  BY DEF DeactivateTeamMember, Doing, Now
<1>2. PICK n \in Members : n = Now(h).m
  BY <1>1, FirstStatement, StatementTypes DEF TypeOK
<1>3. member' = [member EXCEPT ![n] = IF @ = "removed" THEN @ ELSE "inactive"]
  BY <1>2 DEF DeactivateTeamMember
<1> QED
  BY <1>1, <1>3 DEF TypeOK, Exists

-----------------------------------------------------------------------------
LEMMA NextCases ==
  ASSUME Next
  PROVE  \/ \E h \in Handlers :
              \/ MemberRequest(h) \/ AdminRequest(h) \/ CheckQuota(h) \/ CreateWFHRequest(h)
              \/ WithdrawAssignedWFHRequest(h) \/ Write(h) \/ materializeForMember(h)
              \/ GetPendingForSettlement(h) \/ settleDate(h) \/ runPicker(h)
              \/ AutoCancelExpiredSwaps(h) \/ PurgePastPeriods(h) \/ CreateWFHAssignmentSwap(h)
              \/ UpdateWFHAssignmentSwapStatus(h) \/ Fail(h) \/ Surroundings(h)
              \/ handleUserDeny(h) \/ DeactivateTeamMember(h)
         \/ Tick \/ Restart
BY DEF Next, Settlement, MemberRequests, AdminRequests, SwapRequests, MemberRequest,
       AdminRequest, Surroundings

LEMMA InitType == Init => TypeOK
<1> SUFFICES ASSUME Init PROVE TypeOK
  OBVIOUS
<1>1. work \in [Handlers -> Seq(Statement)]
  BY EmptySeq DEF Init
<1>2. /\ today \in Days /\ member \in [Members -> {"active", "inactive", "removed"}]
      /\ accounts \subseteq Admins
      /\ leave \subseteq Members \X Days /\ rows \in [Members \X Days -> Request \cup {None}]
      /\ swaps \in [1..MaxSwaps -> Swap \cup {None}]
      /\ requests \in 0..MaxRequests /\ faults \in 0..MaxFaults
  BY WfhAssumption DEF Init, Days
<1> QED
  BY <1>1, <1>2 DEF TypeOK

LEMMA StartedType ==
  ASSUME TypeOK, NEW h, NEW steps \in Seq(Statement), Started(h, steps)
  PROVE  TypeOK'
<1>1. work' \in [Handlers -> Seq(Statement)]
  BY DEF Started, TypeOK
<1>2. requests' \in 0..MaxRequests
  BY WfhAssumption DEF Started, TypeOK
<1> QED
  BY <1>1, <1>2 DEF Started, TypeOK, tables

\* The rows, and the swaps, may change with a statement that runs.
LEMMA StatementType ==
  ASSUME TypeOK, NEW h \in Handlers, work[h] # <<>>,
         Abort(h) \/ \E steps \in Seq(Statement) : Then(h, steps),
         UNCHANGED <<today, member, accounts, leave>>,
         rows' \in [Keys -> Request \cup {None}],
         swaps' \in [1..MaxSwaps -> Swap \cup {None}],
         requests' \in 0..MaxRequests, faults' \in 0..MaxFaults
  PROVE  TypeOK'
<1>1. work \in [Handlers -> Seq(Statement)]
  BY DEF TypeOK
<1>2. work' \in [Handlers -> Seq(Statement)]
  BY <1>1, Continued, Aborted
<1> QED
  BY <1>2 DEF TypeOK, Keys

LEMMA TypeNext == TypeOK /\ [Next]_vars => TypeOK'
<1> SUFFICES ASSUME TypeOK, [Next]_vars PROVE TypeOK'
  OBVIOUS
<1>0. <<>> \in Seq(Statement) /\ \A x \in Statement : <<x>> \in Seq(Statement)
  BY EmptySeq, OneOrTwo
<1>t. /\ rows \in [Keys -> Request \cup {None}] /\ swaps \in [1..MaxSwaps -> Swap \cup {None}]
      /\ requests \in 0..MaxRequests /\ faults \in 0..MaxFaults
  BY DEF TypeOK, Keys
<1>1. ASSUME NEW h \in Handlers, MemberRequest(h) \/ AdminRequest(h) PROVE TypeOK'
  BY <1>1, MemberRequestStep, AdminRequestStep, StartedType
<1>2. ASSUME NEW h \in Handlers, CheckQuota(h) PROVE TypeOK'
  BY <1>0, <1>t, <1>2, QuotaStep, StatementType DEF tables, bounds
<1>3. ASSUME NEW h \in Handlers, CreateWFHRequest(h) PROVE TypeOK'
  BY <1>0, <1>t, <1>3, CreateStep, StatementType DEF bounds
<1>4. ASSUME NEW h \in Handlers, WithdrawAssignedWFHRequest(h) PROVE TypeOK'
  BY <1>0, <1>t, <1>4, ReleaseStep, StatementType DEF tables, bounds
<1>5. ASSUME NEW h \in Handlers, Write(h) PROVE TypeOK'
  <2>1. /\ work[h] # <<>>
        /\ Then(h, <<>>) \/ Abort(h)
        /\ UNCHANGED <<today, member, accounts, leave, swaps, bounds>>
        /\ rows' \in [Keys -> Request \cup {None}]
    BY <1>5, WriteStep DEF Denied
  <2> QED
    BY <1>0, <1>t, <2>1, StatementType DEF bounds
<1>6. ASSUME NEW h \in Handlers, materializeForMember(h) PROVE TypeOK'
  <2>1. rows' \in [Keys -> Request \cup {None}]
    BY <1>t, <1>6, MaterializeStep, InsertType
  <2> QED
    BY <1>0, <1>t, <1>6, <2>1, MaterializeStep, StatementType DEF bounds
<1>7. ASSUME NEW h \in Handlers, GetPendingForSettlement(h) PROVE TypeOK'
  BY <1>t, <1>7, LoadStep, StatementType DEF tables, bounds
<1>8. ASSUME NEW h \in Handlers, settleDate(h) PROVE TypeOK'
  <2>1. /\ work[h] # <<>> /\ UNCHANGED <<tables, bounds>>
        /\ \E steps \in Seq(Statement) : Then(h, steps)
    BY <1>0, <1>8, SettleStep
  <2> QED
    BY <1>t, <2>1, StatementType DEF tables, bounds
<1>9. ASSUME NEW h \in Handlers, runPicker(h) PROVE TypeOK'
  <2>1. /\ work[h] # <<>> /\ UNCHANGED <<tables, bounds>>
        /\ \E steps \in Seq(Statement) : Then(h, steps)
    BY <1>0, <1>9, PickerStep
  <2> QED
    BY <1>t, <2>1, StatementType DEF tables, bounds
<1>10. ASSUME NEW h \in Handlers,
              \/ AutoCancelExpiredSwaps(h) \/ PurgePastPeriods(h)
              \/ CreateWFHAssignmentSwap(h) \/ UpdateWFHAssignmentSwapStatus(h)
       PROVE  TypeOK'
  <2>1. /\ work[h] # <<>> /\ Then(h, <<>>) /\ UNCHANGED <<today, member, accounts, leave, bounds>>
        /\ swaps' \in [1..MaxSwaps -> Swap \cup {None}]
        /\ \/ UNCHANGED rows
           \/ rows' = [k \in Keys |-> IF k[2] < previousPeriodStart THEN None ELSE rows[k]]
    BY <1>10, FinalSteps
  <2>2. rows' \in [Keys -> Request \cup {None}]
    BY <1>t, <2>1
  <2> QED
    BY <1>0, <1>t, <2>1, <2>2, StatementType DEF bounds
<1>11. ASSUME NEW h \in Handlers, Fail(h) PROVE TypeOK'
  <2>1. /\ work[h] # <<>> /\ UNCHANGED tables
        /\ requests' \in 0..MaxRequests /\ faults' \in 0..MaxFaults
        /\ Abort(h) \/ \E steps \in Seq(Statement) : Then(h, steps)
    BY <1>0, <1>11, FailStep
  <2> QED
    BY <1>t, <2>1, StatementType DEF tables
<1>12. ASSUME NEW h \in Handlers, Surroundings(h) PROVE TypeOK'
  BY <1>12, SurroundingsStep DEF TypeOK, Keys
<1>13. CASE Tick
  <2>1. today' \in Days
    BY <1>13, WfhAssumption DEF Tick, TypeOK, Days
  <2> QED
    BY <1>13, <2>1 DEF Tick, TypeOK, bounds
<1>14. CASE Restart
  <2>1. work' \in [Handlers -> Seq(Statement)]
    BY <1>0, <1>14 DEF Restart
  <2>2. faults' \in 0..MaxFaults /\ UNCHANGED <<tables, requests>>
    BY <1>14, WfhAssumption DEF Restart, TypeOK
  <2> QED
    BY <2>1, <2>2 DEF TypeOK, tables
<1>15. CASE UNCHANGED vars
  BY <1>15 DEF vars, TypeOK
<1>16. ASSUME NEW h \in Handlers, handleUserDeny(h) PROVE TypeOK'
  BY <1>16, DenyStep DEF TypeOK, Keys
<1>17. ASSUME NEW h \in Handlers, DeactivateTeamMember(h) PROVE TypeOK'
  <2>1. work' \in [Handlers -> Seq(Statement)]
    BY <1>17, DeactivateStep, DoneWith DEF TypeOK
  <2> QED
    BY <1>17, <2>1, DeactivateStep DEF TypeOK, bounds
<1> QED
  BY <1>1, <1>2, <1>3, <1>4, <1>5, <1>6, <1>7, <1>8, <1>9, <1>10, <1>11, <1>12, <1>13,
     <1>14, <1>15, <1>16, <1>17, NextCases

\* Rows, swaps and the statements still to run keep their types, for any team,
\* calendar, configuration and number of goroutines.
THEOREM TypeCorrect == Spec => []TypeOK
BY InitType, TypeNext, PTL DEF Spec

-----------------------------------------------------------------------------
(* Assigned days.  A statement that was decided before may run late; what   *)
(* keeps it off an assigned day is that its day can never become one.       *)

LEMMA NotNone == None \notin Request
BY NoneAssumption

LEMMA PurgedIsPast ==
  ASSUME TypeOK, NEW d \in Days, d < previousPeriodStart
  PROVE  d < today
<1>1. today \in Nat /\ PeriodDays \in Nat \ {0} /\ d \in Nat
  BY WfhAssumption DEF TypeOK, Days
<1> DEFINE q == today \div PeriodDays
<1>2. q \in Nat /\ q * PeriodDays <= today
  BY <1>1
<1> HIDE DEF q
<1>3. (q - 1) * PeriodDays = q * PeriodDays - PeriodDays /\ q * PeriodDays \in Nat
  BY <1>1, <1>2
<1>4. previousPeriodStart = (q - 1) * PeriodDays
  BY DEF previousPeriodStart, q
<1> QED
  BY <1>1, <1>2, <1>3, <1>4

\* What a step does to the row of k: nothing, delete it, insert it, or write it.
Deleted(k) == rows'[k] = None /\ (k[2] < today \/ ~Exists(k[1])')
Appeared(k) == /\ rows[k] = None /\ Exists(k[1]) /\ rows'[k] \in Request
               /\ rows'[k].status \in {"pending", "approved"} /\ rows'[k].by = None
               /\ rows'[k].origin = "assigned" => rows'[k].status = "approved" /\ k[2] >= today
Rewritten(k) == rows[k] # None /\ rows'[k] \in Request /\ rows'[k].origin = rows[k].origin

LEMMA InsertedRow ==
  ASSUME TypeOK, NEW k \in Keys, NEW s \in {"pending", "approved"}, NEW o, Inserted(k, s, o),
         o = "assigned" => s = "approved" /\ k[2] >= today
  PROVE  Appeared(k) /\ \A j \in Keys : j # k => rows'[j] = rows[j]
BY DEF Inserted, Appeared, TypeOK, Keys

\* Only CreateWFHRequest and Write write a row that is there.
LEMMA OtherRows ==
  ASSUME TypeOK, [Next]_vars, NEW k \in Keys,
         ~(\E h \in Handlers : CreateWFHRequest(h) \/ Write(h))
  PROVE  rows'[k] = rows[k] \/ Deleted(k) \/ Cleared(k)
           \/ (Appeared(k) /\ rows'[k].status = "approved")
<1>1. ASSUME NEW h \in Handlers, MemberRequest(h) \/ AdminRequest(h) PROVE rows'[k] = rows[k]
  BY <1>1, MemberRequestStep, AdminRequestStep DEF Started, tables
<1>2. ASSUME NEW h \in Handlers, materializeForMember(h)
      PROVE  rows'[k] = rows[k] \/ (Appeared(k) /\ rows'[k].status = "approved")
  <2>1. CASE UNCHANGED rows
    BY <2>1
  <2>2. ASSUME NEW j \in Keys, Inserted(j, "approved", "recurring")
        PROVE  rows'[k] = rows[k] \/ (Appeared(k) /\ rows'[k].status = "approved")
    BY <2>2, InsertedRow DEF Inserted
  <2> QED
    BY <1>2, <2>1, <2>2, MaterializeStep
<1>3. ASSUME NEW h \in Handlers,
             \/ CheckQuota(h) \/ WithdrawAssignedWFHRequest(h) \/ GetPendingForSettlement(h)
             \/ settleDate(h) \/ runPicker(h) \/ Fail(h)
      PROVE  rows'[k] = rows[k]
  BY <1>3 DEF CheckQuota, WithdrawAssignedWFHRequest, GetPendingForSettlement, settleDate,
              runPicker, Fail, tables
<1>4. ASSUME NEW h \in Handlers,
             \/ AutoCancelExpiredSwaps(h) \/ PurgePastPeriods(h)
             \/ CreateWFHAssignmentSwap(h) \/ UpdateWFHAssignmentSwapStatus(h)
      PROVE  rows'[k] = rows[k] \/ Deleted(k)
  <2>1. \/ rows'[k] = rows[k]
        \/ rows'[k] = None /\ k[2] < previousPeriodStart
    BY <1>4, FinalSteps
  <2>2. k[2] \in Days
    BY DEF Keys
  <2> QED
    BY <2>1, <2>2, PurgedIsPast DEF Deleted
<1>5. ASSUME NEW h \in Handlers, Surroundings(h) PROVE rows'[k] = rows[k] \/ Deleted(k)
  BY <1>5, SurroundingsStep DEF Deleted
<1>6. CASE Tick \/ Restart \/ UNCHANGED vars
  BY <1>6 DEF Tick, Restart, vars, tables
<1>7. ASSUME NEW h \in Handlers, handleUserDeny(h) \/ DeactivateTeamMember(h)
      PROVE  rows'[k] = rows[k] \/ Cleared(k)
  BY <1>7, DenyStep, DeactivateStep
<1> QED
  BY <1>1, <1>2, <1>3, <1>4, <1>5, <1>6, <1>7, NextCases

LEMMA RowStep ==
  ASSUME TypeOK, [Next]_vars, NEW k \in Keys
  PROVE  rows'[k] = rows[k] \/ Deleted(k) \/ Appeared(k) \/ Rewritten(k)
<1>1. ASSUME NEW h \in Handlers, CreateWFHRequest(h)
      PROVE  rows'[k] = rows[k] \/ Appeared(k) \/ Rewritten(k)
  <2>1. CASE Inserted(Now(h).k, "pending", "ad_hoc")
    BY <1>1, <2>1, CreateStep, InsertedRow
  <2>2. CASE rows[Now(h).k] # None /\ Written(Now(h).k, "pending", None)
    BY <2>2 DEF Written, Rewritten
  <2> QED
    BY <1>1, <2>1, <2>2, CreateStep
<1>2. ASSUME NEW h \in Handlers, Write(h)
      PROVE  rows'[k] = rows[k] \/ Appeared(k) \/ Rewritten(k)
  <2> DEFINE j == Now(h).k
  <2>1. ASSUME NEW s, NEW by, Written(j, s, by) PROVE rows'[k] = rows[k] \/ Rewritten(k)
    BY <2>1 DEF Written, Rewritten
  <2>2. CASE Inserted(j, "approved", "ad_hoc")
    BY <1>2, <2>2, WriteStep, InsertedRow
  <2>3. CASE Inserted(j, "approved", "assigned") /\ j[2] >= today
    BY <1>2, <2>3, WriteStep, InsertedRow
  <2> QED
    BY <1>2, <2>1, <2>2, <2>3, WriteStep DEF Denied
<1>3. Cleared(k) => Rewritten(k)
  BY ClearedRow DEF Cleared, Rewritten
<1> QED
  BY <1>1, <1>2, <1>3, OtherRows

LEMMA TimeAndTeam ==
  ASSUME TypeOK, [Next]_vars
  PROVE  /\ today \in Nat /\ today' \in Nat /\ today' >= today
         /\ \A m \in Members : ~Exists(m) => ~Exists(m)'
<1>1. today \in Nat
  BY WfhAssumption DEF TypeOK, Days
<1>2. ASSUME NEW h \in Handlers, Surroundings(h)
      PROVE  today' = today /\ \A m \in Members : ~Exists(m) => ~Exists(m)'
  BY <1>2, SurroundingsStep
<1>3. CASE Tick
  BY <1>1, <1>3 DEF Tick, Exists
<1>4. CASE Restart \/ UNCHANGED vars
  BY <1>1, <1>4 DEF Restart, vars, tables, Exists
<1>5. ASSUME NEW h \in Handlers, MemberRequest(h) \/ AdminRequest(h)
      PROVE  UNCHANGED <<today, member>>
  BY <1>5, MemberRequestStep, AdminRequestStep DEF Started, tables
<1>6. ASSUME NEW h \in Handlers,
             \/ CheckQuota(h) \/ CreateWFHRequest(h) \/ WithdrawAssignedWFHRequest(h) \/ Write(h)
             \/ materializeForMember(h) \/ GetPendingForSettlement(h) \/ settleDate(h)
             \/ runPicker(h) \/ AutoCancelExpiredSwaps(h) \/ PurgePastPeriods(h)
             \/ CreateWFHAssignmentSwap(h) \/ UpdateWFHAssignmentSwapStatus(h) \/ Fail(h)
      PROVE  UNCHANGED <<today, member>>
  BY <1>6 DEF CheckQuota, CreateWFHRequest, WithdrawAssignedWFHRequest, Write,
       materializeForMember, GetPendingForSettlement, settleDate, runPicker,
       AutoCancelExpiredSwaps, PurgePastPeriods, CreateWFHAssignmentSwap,
       UpdateWFHAssignmentSwapStatus, Fail, tables
<1>7. ASSUME NEW h \in Handlers, handleUserDeny(h) \/ DeactivateTeamMember(h)
      PROVE  today' = today /\ \A m \in Members : ~Exists(m) => ~Exists(m)'
  BY <1>7, DenyStep, DeactivateStep DEF Exists
<1> QED
  BY <1>1, <1>2, <1>3, <1>4, <1>5, <1>6, <1>7, NextCases DEF Exists

\* Accounts only go, and one goes with every denial.
LEMMA AccountsGo ==
  ASSUME TypeOK, [Next]_vars
  PROVE  /\ accounts' \subseteq accounts
         /\ accounts' = Admins => accounts = Admins /\ \A h \in Handlers : ~handleUserDeny(h)
<1>1. ASSUME NEW h \in Handlers, MemberRequest(h) \/ AdminRequest(h) PROVE UNCHANGED accounts
  BY <1>1, MemberRequestStep, AdminRequestStep DEF Started, tables
<1>2. ASSUME NEW h \in Handlers,
             \/ CheckQuota(h) \/ CreateWFHRequest(h) \/ WithdrawAssignedWFHRequest(h) \/ Write(h)
             \/ materializeForMember(h) \/ GetPendingForSettlement(h) \/ settleDate(h)
             \/ runPicker(h) \/ AutoCancelExpiredSwaps(h) \/ PurgePastPeriods(h)
             \/ CreateWFHAssignmentSwap(h) \/ UpdateWFHAssignmentSwapStatus(h) \/ Fail(h)
             \/ DeactivateTeamMember(h) \/ Surroundings(h)
      PROVE  UNCHANGED accounts
  BY <1>2 DEF CheckQuota, CreateWFHRequest, WithdrawAssignedWFHRequest, Write,
       materializeForMember, GetPendingForSettlement, settleDate, runPicker,
       AutoCancelExpiredSwaps, PurgePastPeriods, CreateWFHAssignmentSwap,
       UpdateWFHAssignmentSwapStatus, Fail, DeactivateTeamMember, Surroundings, runWFHPurge,
       ReportLeave, SetActive, RemoveMember, tables
<1>3. ASSUME Tick \/ Restart \/ UNCHANGED vars PROVE UNCHANGED accounts
  BY <1>3 DEF Tick, Restart, vars, tables
<1>4. ASSUME NEW h \in Handlers, handleUserDeny(h)
      PROVE  accounts' \subseteq accounts /\ accounts' # accounts
  BY <1>4, DenyStep
<1>5. accounts' \subseteq accounts
  BY <1>1, <1>2, <1>3, <1>4, NextCases
<1> QED
  BY <1>4, <1>5 DEF TypeOK

\* The day of k is not assigned and never will be.
NeverAssigned(k) == IF rows[k] = None THEN ~Exists(k[1]) \/ k[2] < today
                    ELSE rows[k].origin # "assigned"

LEMMA NeverAssignedStays ==
  ASSUME TypeOK, [Next]_vars, NEW k \in Keys, NeverAssigned(k)
  PROVE  NeverAssigned(k)'
<1>1. k[1] \in Members /\ k[2] \in Nat
  BY WfhAssumption DEF Keys, Days
<1>2. /\ today \in Nat /\ today' \in Nat /\ today' >= today
      /\ ~Exists(k[1]) => ~Exists(k[1])'
  BY <1>1, TimeAndTeam
<1>3. CASE rows'[k] = rows[k]
  BY <1>1, <1>2, <1>3 DEF NeverAssigned
<1>4. CASE Deleted(k)
  BY <1>1, <1>2, <1>4 DEF NeverAssigned, Deleted
<1>5. CASE Appeared(k)
  BY <1>1, <1>2, <1>5, NotNone DEF NeverAssigned, Appeared
<1>6. CASE Rewritten(k)
  BY <1>6, NotNone DEF NeverAssigned, Rewritten
<1> QED
  BY <1>3, <1>4, <1>5, <1>6, RowStep

Harmless(s) ==
  /\ s.do = "status" /\ s.s = "cancelled" => NeverAssigned(s.k)
  /\ s.do = "deny" => NeverAssigned(s.k)
  /\ s.do = "withdraw" /\ s.by = None => NeverAssigned(s.k)
  /\ s.do = "settle" => \A k \in s.left : NeverAssigned(k)

WorkHarmless(h) == Reporting(work[h]) \/ \A i \in 1..Len(work[h]) : Harmless(work[h][i])

\* The inductive invariant: as long as every administrator has an account, what is
\* still to run leaves assigned days alone.
AssignedInv == /\ TypeOK /\ AssignedDaysStand
               /\ accounts = Admins => \A h \in Handlers : WorkHarmless(h)

LEMMA HarmlessStays ==
  ASSUME TypeOK, [Next]_vars, NEW s \in Statement, Harmless(s)
  PROVE  Harmless(s)'
<1>1. \A k \in Keys : NeverAssigned(k) => NeverAssigned(k)'
  BY NeverAssignedStays
<1>2. /\ s.do \in {"status", "deny", "withdraw"} => s.k \in Keys
      /\ s.do = "settle" => s.left \in SUBSET Keys
  BY StatementTypes
<1> QED
  BY <1>1, <1>2 DEF Harmless

LEMMA WorkHarmlessStays ==
  ASSUME TypeOK, [Next]_vars, NEW h \in Handlers, WorkHarmless(h), work'[h] = work[h]
  PROVE  WorkHarmless(h)'
<1>1. \A i \in 1..Len(work[h]) : work[h][i] \in Statement
  BY ElementOfSeq DEF TypeOK
<1>2. CASE Reporting(work[h])
  BY <1>2 DEF WorkHarmless, Reporting
<1>3. CASE \A i \in 1..Len(work[h]) : Harmless(work[h][i])
  <2>1. ASSUME NEW i \in 1..Len(work'[h]) PROVE Harmless(work[h][i])'
    <3>1. PICK s \in Statement : s = work[h][i]
      BY <1>1
    <3>2. Harmless(s)'
      BY <1>3, <3>1, HarmlessStays
    <3> QED
      BY <3>1, <3>2 DEF Harmless
  <2> QED
    BY <2>1 DEF WorkHarmless
<1> QED
  BY <1>2, <1>3 DEF WorkHarmless

\* The statements of a report are known by the first.
LEMMA ReportingHead ==
  ASSUME TypeOK, NEW h \in Handlers, work[h] # <<>>, Reporting(work[h])
  PROVE  Now(h).do \in {"quota", "create"}
<1>1. Now(h) = work[h][1]
  BY FirstStatement DEF TypeOK
<1> QED
  BY <1>1 DEF Reporting, Ask, Create

\* Statements that stay are harmless after the step too.
LEMMA LaterHarmless ==
  ASSUME TypeOK, [Next]_vars, NEW h \in Handlers, NEW j \in 1..Len(work[h]), Harmless(work[h][j]),
         NEW i \in 1..Len(work'[h]), work'[h][i] = work[h][j]
  PROVE  Harmless(work[h][i])'
<1>1. PICK s \in Statement : s = work[h][j]
  BY ElementOfSeq DEF TypeOK
<1>2. Harmless(s)'
  BY <1>1, HarmlessStays
<1> QED
  BY <1>1, <1>2 DEF Harmless

LEMMA DoneHarmless ==
  ASSUME TypeOK, [Next]_vars, NEW h \in Handlers, work[h] # <<>>, Then(h, <<>>),
         WorkHarmless(h),
         \A k \in Keys : Now(h) = Create(k) => NeverAssigned(k)'
  PROVE  WorkHarmless(h)'
<1>1. /\ Len(work[h]) \in Nat \ {0} /\ Len(work'[h]) = Len(work[h]) - 1
      /\ \A i \in 1..Len(work'[h]) : work'[h][i] = work[h][i + 1]
      /\ Now(h) = work[h][1]
  BY DoneWith, FirstStatement DEF TypeOK
<1>2. CASE \A i \in 1..Len(work[h]) : Harmless(work[h][i])
  <2>1. ASSUME NEW i \in 1..Len(work'[h]) PROVE Harmless(work[h][i])'
    <3>1. i + 1 \in 1..Len(work[h]) /\ work'[h][i] = work[h][i + 1]
      BY <1>1
    <3> QED
      BY <1>2, <3>1, LaterHarmless
  <2> QED
    BY <2>1 DEF WorkHarmless
<1>3. CASE Reporting(work[h])
  <2>1. PICK k \in Keys :
          \/ Len(work[h]) = 3 /\ work[h][1] = Ask(k) /\ work[h][2] = Create(k) /\ work[h][3] = Settle(k)
          \/ Len(work[h]) = 2 /\ work[h][1] = Create(k) /\ work[h][2] = Settle(k)
    BY <1>3 DEF Reporting
  <2>2. CASE Len(work[h]) = 3
    <3>1. Len(work'[h]) = 2 /\ work'[h][1] = Create(k) /\ work'[h][2] = Settle(k)
      BY <1>1, <2>1, <2>2
    <3> QED
      BY <3>1 DEF WorkHarmless, Reporting
  <2>3. CASE Len(work[h]) = 2
    <3>1. Len(work'[h]) = 1 /\ work'[h][1] = Settle(k) /\ Now(h) = Create(k)
      BY <1>1, <2>1, <2>3
    <3>2. Harmless(Settle(k))'
      BY <3>1 DEF Harmless, Settle
    <3>3. ASSUME NEW i \in 1..Len(work'[h]) PROVE Harmless(work[h][i])'
      <4>1. work'[h][i] = Settle(k)
        BY <3>1
      <4> QED
        BY <3>2, <4>1 DEF Harmless
    <3> QED
      BY <3>3 DEF WorkHarmless
  <2> QED
    BY <2>1, <2>2, <2>3
<1> QED
  BY <1>2, <1>3 DEF WorkHarmless

LEMMA ContinueHarmless ==
  ASSUME TypeOK, [Next]_vars, NEW h \in Handlers, work[h] # <<>>, WorkHarmless(h),
         Now(h).do \notin {"quota", "create"},
         NEW steps \in Seq(Statement), Then(h, steps),
         \A i \in 1..Len(steps) : Harmless(steps[i])'
  PROVE  WorkHarmless(h)'
<1>1. /\ Len(steps) \in Nat /\ Len(work[h]) \in Nat \ {0}
      /\ Len(work'[h]) = Len(steps) + Len(work[h]) - 1
      /\ \A i \in 1..Len(steps) : work'[h][i] = steps[i]
      /\ \A i \in 1..Len(work'[h]) : i > Len(steps) =>
           work'[h][i] = work[h][i - Len(steps) + 1]
  BY Continued DEF TypeOK
<1>2. \A i \in 1..Len(work[h]) : Harmless(work[h][i])
  BY ReportingHead DEF WorkHarmless
<1>3. ASSUME NEW i \in 1..Len(work'[h]) PROVE Harmless(work[h][i])'
  <2>1. CASE i <= Len(steps)
    <3>1. i \in 1..Len(steps) /\ work'[h][i] = steps[i]
      BY <1>1, <2>1
    <3>2. Harmless(steps[i])'
      BY <3>1
    <3> QED
      BY <3>1, <3>2 DEF Harmless
  <2>2. CASE ~(i <= Len(steps))
    <3> DEFINE j == i - Len(steps) + 1
    <3>1. j \in 1..Len(work[h]) /\ work'[h][i] = work[h][j]
      BY <1>1, <2>2
    <3> HIDE DEF j
    <3> QED
      BY <1>2, <3>1, LaterHarmless
  <2> QED
    BY <2>1, <2>2
<1> QED
  BY <1>3 DEF WorkHarmless

LEMMA PendingIsFree ==
  ASSUME TypeOK, AssignedDaysStand, accounts = Admins, NEW k \in Keys, IsPending(k)
  PROVE  NeverAssigned(k)
BY DEF AssignedDaysStand, IsPending, NeverAssigned, TypeOK, Keys

LEMMA PlanHarmless ==
  ASSUME TypeOK, AssignedDaysStand, accounts = Admins,
         NEW h \in Handlers, NEW steps \in Seq(Statement), Plan(steps), Started(h, steps)
  PROVE  WorkHarmless(h)'
<1>1. work'[h] = steps /\ UNCHANGED <<rows, today, member>>
  BY DEF Started, tables, TypeOK
<1>2. \A k \in Keys : NeverAssigned(k) => NeverAssigned(k)'
  BY <1>1 DEF NeverAssigned, Exists
<1>3. CASE Reporting(steps)
  BY <1>1, <1>3 DEF WorkHarmless, Reporting
<1>4. ASSUME NEW k \in Keys, Len(steps) = 2, steps[1] = Ask(k), steps[2] = Create(k)
      PROVE  \A i \in 1..Len(steps) : Harmless(steps[i])'
  BY <1>4 DEF Harmless, Ask, Create
<1>5. ASSUME NEW k \in Keys, IsPending(k), Len(steps) = 1,
             steps[1] = [do |-> "status", k |-> k, s |-> "cancelled"]
      PROVE  \A i \in 1..Len(steps) : Harmless(steps[i])'
  <2>1. NeverAssigned(k)'
    BY <1>2, <1>5, PendingIsFree
  <2>2. \A i \in 1..Len(steps) : steps[i] = [do |-> "status", k |-> k, s |-> "cancelled"]
    BY <1>5
  <2> QED
    BY <2>1, <2>2 DEF Harmless
<1>6. ASSUME NEW k \in Keys, NEW by \in {None} \cup Admins, Approved(k, {"ad_hoc", "recurring"}),
             Len(steps) = 1, steps[1] = [do |-> "withdraw", k |-> k, by |-> by]
      PROVE  \A i \in 1..Len(steps) : Harmless(steps[i])'
  <2>1. NeverAssigned(k)'
    BY <1>2, <1>6 DEF Approved, NeverAssigned
  <2>2. \A i \in 1..Len(steps) : steps[i] = [do |-> "withdraw", k |-> k, by |-> by]
    BY <1>6
  <2> QED
    BY <2>1, <2>2 DEF Harmless
<1>7. ASSUME Len(steps) = 2, steps[1].do = "release", steps[2].do = "replace"
      PROVE  \A i \in 1..Len(steps) : Harmless(steps[i])'
  BY <1>7 DEF Harmless
<1>8. ASSUME \A i \in 1..Len(steps) :
               steps[i].do \in {"mark", "materialize", "load", "pass", "purge", "offer", "answer",
                       "deactivate"}
      PROVE  \A i \in 1..Len(steps) : Harmless(steps[i])'
  BY <1>8 DEF Harmless
<1>9. Reporting(steps) \/ \A i \in 1..Len(steps) : Harmless(steps[i])'
  BY <1>4, <1>5, <1>6, <1>7, <1>8 DEF Plan
<1> QED
  BY <1>1, <1>3, <1>9 DEF WorkHarmless

\* A row that is written, if its day was assigned, keeps to the rule.
Rightful(k) == (rows[k] # None /\ rows[k].origin = "assigned")
                 => \/ rows[k].status = "approved"
                    \/ rows[k].status = "withdrawn" /\ rows[k].by \in Admins

LEMMA RightfulStays ==
  ASSUME TypeOK, [Next]_vars, NEW k \in Keys, Rightful(k),
         rows'[k] = rows[k] \/ Deleted(k) \/ Appeared(k)
  PROVE  Rightful(k)'
BY DEF Rightful, Deleted, Appeared

LEMMA WrittenRightful ==
  ASSUME TypeOK, NEW k \in Keys, NEW s, NEW by, Written(k, s, by), Rightful(k),
         \/ NeverAssigned(k) \/ s = "approved" \/ (s = "withdrawn" /\ by \in Admins)
  PROVE  Rightful(k)'
BY DEF Rightful, Written, NeverAssigned

LEMMA AssignedRows ==
  ASSUME AssignedInv, Next, accounts' = Admins
  PROVE  AssignedDaysStand'
<1>0. /\ TypeOK /\ [Next]_vars /\ DOMAIN rows = Keys
      /\ accounts = Admins /\ accounts \ accounts' = {}
  BY AccountsGo DEF AssignedInv, TypeOK, Keys
<1>1. \A k \in Keys : Rightful(k)
  BY <1>0 DEF AssignedInv, AssignedDaysStand, Rightful
<1>2. ASSUME NEW h \in Handlers, CreateWFHRequest(h), NEW k \in Keys PROVE Rightful(k)'
  <2>0. PICK j \in Keys : j = Now(h).k
    BY <1>0, <1>2, CreateStep
  <2>1. CASE Inserted(j, "pending", "ad_hoc")
    <3>1. Appeared(j) /\ \A i \in Keys : i # j => rows'[i] = rows[i]
      BY <1>0, <2>0, <2>1, InsertedRow
    <3> QED
      BY <1>0, <1>1, <3>1, RightfulStays
  <2>2. CASE rows[j] # None /\ isUserResurrectable(rows[j]) /\ Written(j, "pending", None)
    <3>1. NeverAssigned(j)
      BY <1>1, <2>0, <2>2, NoneAssumption DEF Rightful, isUserResurrectable, NeverAssigned
    <3>2. Rightful(j)'
      BY <1>0, <1>1, <2>0, <2>2, <3>1, WrittenRightful
    <3>3. \A i \in Keys : i # j => rows'[i] = rows[i]
      BY <2>2 DEF Written
    <3> QED
      BY <1>0, <1>1, <3>2, <3>3, RightfulStays
  <2>3. CASE UNCHANGED rows
    BY <1>0, <1>1, <2>3, RightfulStays
  <2> QED
    BY <1>0, <1>2, <2>0, <2>1, <2>2, <2>3, CreateStep
<1>3. ASSUME NEW h \in Handlers, Write(h), NEW k \in Keys PROVE Rightful(k)'
  <2> DEFINE w == Now(h)
  <2>j. PICK j \in Keys : j = Now(h).k
    BY <1>0, <1>3, WriteStep
  <2>0. /\ work[h] # <<>>
        /\ \/ Denied(h)
           \/ w.do = "status" /\ w.s \in {"approved", "cancelled"} /\ Written(j, w.s, rows[j].by)
           \/ w.do = "deny" /\ Written(j, "denied", rows[j].by)
           \/ w.do = "withdraw" /\ Written(j, "withdrawn", w.by)
           \/ w.do = "mark" /\ (UNCHANGED rows \/ Inserted(j, "approved", "ad_hoc"))
           \/ /\ w.do \in {"assign", "replace"}
              /\ UNCHANGED rows \/ (Inserted(j, "approved", "assigned") /\ j[2] >= today)
    BY <1>0, <1>3, <2>j, WriteStep
  <2>1. w.do \in {"status", "deny", "withdraw"} => Harmless(w)
    <3>1. w = work[h][1] /\ 1 \in 1..Len(work[h])
      BY <1>0, <2>0, FirstStatement DEF TypeOK
    <3> QED
      BY <1>0, <2>0, <3>1, ReportingHead DEF AssignedInv, WorkHarmless
  <2>2. w \in Statement /\ (w.do = "withdraw" => w.by \in {None} \cup Admins)
    BY <1>0, <2>0, FirstStatement, StatementTypes DEF TypeOK
  <2>3. ASSUME NEW s, NEW by, Written(j, s, by),
               \/ NeverAssigned(j) \/ s = "approved" \/ (s = "withdrawn" /\ by \in Admins)
        PROVE  Rightful(k)'
    <3>1. Rightful(j)'
      BY <1>0, <1>1, <2>0, <2>3, WrittenRightful
    <3>2. \A i \in Keys : i # j => rows'[i] = rows[i]
      BY <2>3 DEF Written
    <3> QED
      BY <1>0, <1>1, <3>1, <3>2, RightfulStays
  <2>4. ASSUME NEW o, Inserted(j, "approved", o), o = "assigned" => j[2] >= today
        PROVE  Rightful(k)'
    <3>1. Appeared(j) /\ \A i \in Keys : i # j => rows'[i] = rows[i]
      BY <1>0, <2>0, <2>4, InsertedRow
    <3> QED
      BY <1>0, <1>1, <3>1, RightfulStays
  <2>5. CASE UNCHANGED rows \/ Denied(h)
    BY <1>0, <1>1, <2>5, RightfulStays DEF Denied
  <2>6. CASE w.do = "status" /\ w.s \in {"approved", "cancelled"} /\ Written(j, w.s, rows[j].by)
    BY <2>1, <2>3, <2>j, <2>6 DEF Harmless
  <2>7. CASE w.do = "deny" /\ Written(j, "denied", rows[j].by)
    BY <2>1, <2>3, <2>j, <2>7 DEF Harmless
  <2>8. CASE w.do = "withdraw" /\ Written(j, "withdrawn", w.by)
    BY <2>1, <2>2, <2>3, <2>j, <2>8 DEF Harmless
  <2>9. CASE Inserted(j, "approved", "ad_hoc")
    BY <2>4, <2>9
  <2>10. CASE Inserted(j, "approved", "assigned") /\ j[2] >= today
    BY <2>4, <2>10
  <2> QED
    BY <2>0, <2>5, <2>6, <2>7, <2>8, <2>9, <2>10
<1>4. ASSUME NEW k \in Keys, ~(\E h \in Handlers : CreateWFHRequest(h) \/ Write(h))
      PROVE  rows'[k] = rows[k] \/ Deleted(k) \/ Appeared(k)
  BY <1>0, <1>4, OtherRows DEF Cleared
<1>5. \A k \in Keys : Rightful(k)'
  BY <1>0, <1>1, <1>2, <1>3, <1>4, RightfulStays
<1>6. DOMAIN rows' = Keys
  BY <1>0, TypeNext DEF TypeOK, Keys
<1> QED
  BY <1>5, <1>6 DEF AssignedDaysStand, Rightful

LEMMA WorkStaysHarmless ==
  ASSUME AssignedInv, Next, accounts' = Admins, NEW g \in Handlers
  PROVE  WorkHarmless(g)'
<1>0. /\ TypeOK /\ [Next]_vars /\ AssignedDaysStand /\ accounts = Admins
      /\ \A h \in Handlers : WorkHarmless(h) /\ ~handleUserDeny(h)
  BY AccountsGo DEF AssignedInv
<1>1. ASSUME NEW h \in Handlers, work' = [work EXCEPT ![h] = work'[h]], WorkHarmless(h)'
      PROVE  WorkHarmless(g)'
  BY <1>0, <1>1, WorkHarmlessStays DEF TypeOK
<1>2. ASSUME NEW h \in Handlers, NEW steps \in Seq(Statement), Plan(steps), Started(h, steps)
      PROVE  WorkHarmless(g)'
  <2>1. WorkHarmless(h)' /\ work' = [work EXCEPT ![h] = work'[h]]
    BY <1>0, <1>2, PlanHarmless DEF Started, TypeOK
  <2> QED
    BY <1>1, <2>1
<1>3. ASSUME NEW h \in Handlers, work[h] # <<>>, Then(h, <<>>),
             \A k \in Keys : Now(h) = Create(k) => NeverAssigned(k)'
      PROVE  WorkHarmless(g)'
  BY <1>0, <1>1, <1>3, DoneHarmless, DoneWith DEF TypeOK
<1>4. ASSUME NEW h \in Handlers, Abort(h) PROVE WorkHarmless(g)'
  <2>1. work' = [work EXCEPT ![h] = work'[h]] /\ Len(work'[h]) = 0
    BY <1>0, <1>4, Aborted DEF TypeOK
  <2>2. WorkHarmless(h)'
    BY <2>1 DEF WorkHarmless
  <2> QED
    BY <1>1, <2>1, <2>2
<1>5. ASSUME NEW h \in Handlers, work[h] # <<>>, Now(h).do \notin {"quota", "create"},
             NEW steps \in Seq(Statement), Then(h, steps),
             \A i \in 1..Len(steps) : Harmless(steps[i])'
      PROVE  WorkHarmless(g)'
  <2>1. WorkHarmless(h)' /\ work' = [work EXCEPT ![h] = work'[h]]
    BY <1>0, <1>5, ContinueHarmless, Continued DEF TypeOK
  <2> QED
    BY <1>1, <2>1
<1>6. ASSUME NEW h \in Handlers, work[h] # <<>>, Now(h).do \notin {"quota", "create"},
             NEW x \in Statement, Then(h, <<x>>), Harmless(x)'
      PROVE  WorkHarmless(g)'
  <2>1. <<x>> \in Seq(Statement) /\ \A i \in 1..Len(<<x>>) : <<x>>[i] = x
    BY OneOrTwo
  <2>2. \A i \in 1..Len(<<x>>) : Harmless(<<x>>[i])'
    BY <1>6, <2>1 DEF Harmless
  <2> QED
    BY <1>5, <1>6, <2>1, <2>2
<1>7. ASSUME NEW h \in Handlers, work[h] # <<>>, Now(h).do # "create" PROVE
      \A k \in Keys : Now(h) = Create(k) => NeverAssigned(k)'
  BY <1>7 DEF Create
<1>11. ASSUME NEW h \in Handlers, MemberRequest(h) \/ AdminRequest(h) PROVE WorkHarmless(g)'
  BY <1>0, <1>2, <1>11, MemberRequestStep, AdminRequestStep
<1>12. ASSUME NEW h \in Handlers, CheckQuota(h) PROVE WorkHarmless(g)'
  BY <1>0, <1>3, <1>4, <1>7, <1>12, QuotaStep
<1>13. ASSUME NEW h \in Handlers, CreateWFHRequest(h) PROVE WorkHarmless(g)'
  <2>0. PICK j \in Keys : j = Now(h).k
    BY <1>0, <1>13, CreateStep
  <2>1. /\ work[h] # <<>>
        /\ \/ Then(h, <<>>) /\ Inserted(j, "pending", "ad_hoc")
           \/ /\ Then(h, <<>>) /\ rows[j] # None /\ isUserResurrectable(rows[j])
              /\ Written(j, "pending", None)
           \/ Abort(h)
    BY <1>0, <1>13, <2>0, CreateStep
  <2>2. rows'[j] # None /\ rows'[j].origin # "assigned" => NeverAssigned(j)'
    BY DEF NeverAssigned
  <2>3. CASE Then(h, <<>>) /\ Inserted(j, "pending", "ad_hoc")
    <3>1. rows'[j] # None /\ rows'[j].origin = "ad_hoc"
      BY <2>3, NotNone DEF Inserted
    <3>2. \A k \in Keys : Now(h) = Create(k) => NeverAssigned(k)'
      BY <2>0, <2>2, <3>1 DEF Create
    <3> QED
      BY <1>3, <2>1, <2>3, <3>2
  <2>4. CASE /\ Then(h, <<>>) /\ rows[j] # None /\ isUserResurrectable(rows[j])
             /\ Written(j, "pending", None)
    <3>1. rows[j].origin # "assigned"
      BY <1>0, <2>1, <2>4, NoneAssumption DEF AssignedDaysStand, isUserResurrectable, TypeOK, Keys
    <3>2. rows'[j] # None /\ rows'[j].origin # "assigned"
      BY <2>4, <3>1, NotNone DEF Written
    <3>3. \A k \in Keys : Now(h) = Create(k) => NeverAssigned(k)'
      BY <2>0, <2>2, <3>2 DEF Create
    <3> QED
      BY <1>3, <2>1, <2>4, <3>3
  <2> QED
    BY <1>4, <2>1, <2>3, <2>4
<1>14. ASSUME NEW h \in Handlers, WithdrawAssignedWFHRequest(h) PROVE WorkHarmless(g)'
  <2>1. ASSUME NEW k \in Keys, NEW by \in Admins
        PROVE  Harmless([do |-> "withdraw", k |-> k, by |-> by])'
    BY NoneAssumption DEF Harmless
  <2> QED
    BY <1>0, <1>4, <1>6, <1>14, <2>1, ReleaseStep
<1>15. ASSUME NEW h \in Handlers, Write(h) PROVE WorkHarmless(g)'
  BY <1>0, <1>3, <1>4, <1>7, <1>15, WriteStep DEF Denied
<1>16. ASSUME NEW h \in Handlers, materializeForMember(h) PROVE WorkHarmless(g)'
  <2>1. ASSUME NEW x \in Statement, x.do = "materialize" PROVE Harmless(x)'
    BY <2>1 DEF Harmless
  <2> QED
    BY <1>0, <1>3, <1>6, <1>7, <1>16, <2>1, MaterializeStep
<1>17. ASSUME NEW h \in Handlers, GetPendingForSettlement(h) PROVE WorkHarmless(g)'
  <2>1. PICK steps \in Seq(Statement) :
          /\ Then(h, steps)
          /\ \A i \in 1..Len(steps) :
               \/ steps[i].do \in {"pass", "expire"}
               \/ steps[i].do = "settle" /\ \A k \in steps[i].left : k \in Keys /\ IsPending(k)
    BY <1>0, <1>17, LoadStep
  <2>2. \A k \in Keys : IsPending(k) => NeverAssigned(k)'
    BY <1>0, PendingIsFree, NeverAssignedStays
  <2>3. \A i \in 1..Len(steps) : Harmless(steps[i])'
    BY <2>1, <2>2 DEF Harmless
  <2> QED
    BY <1>0, <1>5, <1>17, <2>1, <2>3, LoadStep
<1>18. ASSUME NEW h \in Handlers, settleDate(h) PROVE WorkHarmless(g)'
  <2>1. /\ work[h] # <<>> /\ Now(h).do = "settle" /\ Now(h).left \in SUBSET Keys
        /\ Then(h, <<>>) \/ \E steps \in Seq(Statement) :
             /\ Then(h, steps) /\ Len(steps) > 0
             /\ steps[Len(steps)].do = "settle" /\ steps[Len(steps)].left \subseteq Now(h).left
             /\ \A i \in 1..Len(steps) - 1 :
                  /\ steps[i].do \in {"status", "deny"} /\ steps[i].k \in Now(h).left
                  /\ steps[i].do = "status" => steps[i].s = "approved"
    BY <1>0, <1>18, SettleStep
  <2>2. \A k \in Now(h).left : NeverAssigned(k)'
    <3>1. Harmless(Now(h))
      <4>1. Now(h) = work[h][1] /\ 1 \in 1..Len(work[h])
        BY <1>0, <2>1, FirstStatement DEF TypeOK
      <4> QED
        BY <1>0, <2>1, <4>1, ReportingHead DEF WorkHarmless
    <3> QED
      BY <1>0, <2>1, <3>1, NeverAssignedStays DEF Harmless
  <2>3. CASE Then(h, <<>>)
    BY <1>3, <1>7, <2>1, <2>3
  <2>4. ASSUME NEW steps \in Seq(Statement), Then(h, steps), Len(steps) > 0,
               steps[Len(steps)].do = "settle", steps[Len(steps)].left \subseteq Now(h).left,
               \A i \in 1..Len(steps) - 1 :
                  /\ steps[i].do \in {"status", "deny"} /\ steps[i].k \in Now(h).left
                  /\ steps[i].do = "status" => steps[i].s = "approved"
        PROVE  WorkHarmless(g)'
    <3>1. Len(steps) \in Nat /\ \A i \in 1..Len(steps) : i = Len(steps) \/ i \in 1..Len(steps) - 1
      BY LenProperties
    <3>2. ASSUME NEW i \in 1..Len(steps) PROVE Harmless(steps[i])'
      <4>1. CASE i = Len(steps)
        BY <2>2, <2>4, <4>1 DEF Harmless
      <4>2. CASE i \in 1..Len(steps) - 1
        BY <2>2, <2>4, <4>2 DEF Harmless
      <4> QED
        BY <3>1, <4>1, <4>2
    <3> QED
      BY <1>5, <2>1, <2>4, <3>2
  <2> QED
    BY <2>1, <2>3, <2>4
<1>19. ASSUME NEW h \in Handlers, runPicker(h) PROVE WorkHarmless(g)'
  <2>1. /\ work[h] # <<>> /\ Now(h).do = "pass"
        /\ \/ Then(h, <<>>)
           \/ \E x \in Statement : x.do = "pass" /\ Then(h, <<x>>)
           \/ \E steps \in Seq(Statement) :
                /\ Then(h, steps) /\ Len(steps) > 0 /\ steps[Len(steps)].do = "pass"
                /\ \A i \in 1..Len(steps) - 1 : steps[i].do = "assign"
    BY <1>0, <1>19, PickerStep
  <2>2. ASSUME NEW x \in Statement, x.do = "pass" PROVE Harmless(x)'
    BY <2>2 DEF Harmless
  <2>3. ASSUME NEW steps \in Seq(Statement), Then(h, steps), Len(steps) > 0,
               steps[Len(steps)].do = "pass",
               \A i \in 1..Len(steps) - 1 : steps[i].do = "assign"
        PROVE  WorkHarmless(g)'
    <3>1. Len(steps) \in Nat /\ \A i \in 1..Len(steps) : steps[i].do \in {"assign", "pass"}
      BY <2>3, LenProperties
    <3>2. \A i \in 1..Len(steps) : Harmless(steps[i])'
      BY <3>1 DEF Harmless
    <3> QED
      BY <1>5, <2>1, <2>3, <3>2
  <2> QED
    BY <1>3, <1>6, <1>7, <2>1, <2>2, <2>3
<1>20. ASSUME NEW h \in Handlers,
              \/ AutoCancelExpiredSwaps(h) \/ PurgePastPeriods(h)
              \/ CreateWFHAssignmentSwap(h) \/ UpdateWFHAssignmentSwapStatus(h)
       PROVE  WorkHarmless(g)'
  BY <1>0, <1>3, <1>7, <1>20, FinalSteps
<1>21. ASSUME NEW h \in Handlers, Fail(h) PROVE WorkHarmless(g)'
  <2>1. /\ work[h] # <<>>
        /\ \/ Abort(h)
           \/ Then(h, <<>>) /\ Now(h).do \notin {"quota", "create", "release", "withdraw"}
           \/ \E x \in Statement :
                /\ x.do = Now(h).do /\ x.do \in {"materialize", "settle", "pass"}
                /\ x.left \subseteq Now(h).left /\ Then(h, <<x>>)
    BY <1>0, <1>21, FailStep
  <2>2. ASSUME NEW x \in Statement, x.do = Now(h).do, x.do \in {"materialize", "settle", "pass"},
               x.left \subseteq Now(h).left, Then(h, <<x>>)
        PROVE  WorkHarmless(g)'
    <3>1. Harmless(Now(h))
      <4>1. Now(h) = work[h][1] /\ 1 \in 1..Len(work[h])
        BY <1>0, <2>1, FirstStatement DEF TypeOK
      <4> QED
        BY <1>0, <2>1, <2>2, <4>1, ReportingHead DEF WorkHarmless
    <3>2. Harmless(x)
      BY <2>2, <3>1 DEF Harmless
    <3>3. Harmless(x)'
      BY <1>0, <3>2, HarmlessStays
    <3> QED
      BY <1>6, <2>1, <2>2, <3>3
  <2> QED
    BY <1>3, <1>4, <1>7, <2>1, <2>2
<1>22. ASSUME NEW h \in Handlers, Surroundings(h) PROVE WorkHarmless(g)'
  BY <1>0, <1>22, SurroundingsStep, WorkHarmlessStays
<1>23. CASE Tick
  BY <1>0, <1>23, WorkHarmlessStays DEF Tick
<1>24. CASE Restart
  <2>1. work'[g] = <<>> /\ Len(<<>>) = 0
    BY <1>24, EmptySeq DEF Restart
  <2> QED
    BY <2>1 DEF WorkHarmless
<1>25. ASSUME NEW h \in Handlers, DeactivateTeamMember(h) PROVE WorkHarmless(g)'
  BY <1>0, <1>3, <1>7, <1>25, DeactivateStep
<1> QED
  BY <1>0, <1>25, <1>11, <1>12, <1>13, <1>14, <1>15, <1>16, <1>17, <1>18, <1>19, <1>20, <1>21, <1>22,
     <1>23, <1>24, NextCases

\* wfh_crud.go:700 withdrawWFH: while no administrator's account was deleted, an
\* assigned day is given up only through an administrator, whatever stale requests,
\* settlements and swaps interleave.
THEOREM AssignedDaysAreKept == Spec => []AssignedDaysStand
<1>1. Init => AssignedInv
  <2> SUFFICES ASSUME Init PROVE AssignedInv
    OBVIOUS
  <2>1. \A h \in Handlers : Len(work[h]) = 0
    BY EmptySeq DEF Init
  <2> QED
    BY <2>1, InitType DEF AssignedInv, AssignedDaysStand, WorkHarmless, Init
<1>2. AssignedInv /\ [Next]_vars => AssignedInv'
  <2>1. CASE UNCHANGED vars
    BY <2>1 DEF AssignedInv, vars, TypeOK, AssignedDaysStand, WorkHarmless, Reporting, Harmless,
                NeverAssigned, Exists
  <2>2. ASSUME AssignedInv, Next PROVE AssignedInv'
    <3>1. TypeOK'
      BY <2>2, TypeNext DEF AssignedInv
    <3>2. accounts' = Admins => AssignedDaysStand' /\ \A h \in Handlers : WorkHarmless(h)'
      BY <2>2, AssignedRows, WorkStaysHarmless
    <3> QED
      BY <3>1, <3>2 DEF AssignedInv, AssignedDaysStand
  <2> QED
    BY <2>1, <2>2
<1>3. AssignedInv => AssignedDaysStand
  BY DEF AssignedInv
<1> QED
  BY <1>1, <1>2, <1>3, PTL DEF Spec

-----------------------------------------------------------------------------
(***************************************************************************)
(* One request at a time (MaxBusy = 1).                                    *)
(*                                                                         *)
(* What a goroutine has read is still true when it writes, except for what *)
(* it has written itself since.  The invariant WorkInv says what follows   *)
(* for the statements still to run: the quota that was checked has room,   *)
(* the approvals to come fit above the floor, the picks to come fit above  *)
(* the seat cap, and none is about a day an administrator has withdrawn.   *)
(***************************************************************************)

\* At most one goroutine has statements to run.
Alone == \A g, h \in Handlers : work[g] # <<>> /\ work[h] # <<>> => g = h

\* The order of the statements of one goroutine.
InOrder(w) ==
  \A i, j \in 1..Len(w) : i < j =>
    /\ w[j].do \in {"status", "deny"} => w[i].do \in {"status", "deny"}
    /\ w[j].do = "assign" => w[i].do = "assign"
    /\ w[j].do = "create" => i = 1 /\ j = 2 /\ w[i] = Ask(w[j].k)
    /\ w[j].do \notin {"withdraw", "release", "quota"}
    /\ w[i].do \in {"withdraw", "release"} => w[j].do = "replace"

\* An administrator has withdrawn the day.
Overruled(k) == rows[k] # None /\ rows[k].status = "withdrawn" /\ rows[k].by \in Admins

Respectful(s) ==
  /\ s.do \in {"status", "deny", "withdraw"} => ~Overruled(s.k)
  /\ s.do = "settle" => \A k \in s.left : ~Overruled(k)

WorkRespectful(h) == Reporting(work[h]) \/ \A i \in 1..Len(work[h]) : Respectful(work[h][i])

QuotaChecked(h) ==
  \A k \in Keys : work[h] # <<>> /\ Now(h) = Create(k) => Used(k[1], k[2]) < MaxDaysPerPeriod

\* The members a goroutine will still approve, or assign, on d.
Approving(w, d) ==
  {m \in Members : \E i \in 1..Len(w) :
                      w[i].do = "status" /\ w[i].s = "approved" /\ w[i].k = <<m, d>>}
Assigning(w, d) == {m \in Members : \E i \in 1..Len(w) : w[i].do = "assign" /\ w[i].k = <<m, d>>}

TeamSize == Cardinality(GetActiveTeamMembers)
Away(d) == Unavailable(d) \cup permanentWFHMemberIDs

FloorKept(h) ==
  \A d \in Days : Approving(work[h], d) # {} =>
    Cardinality(Unavailable(d) \cup Approving(work[h], d)) + MinOnsiteCount(TeamSize) <= TeamSize

CapKept(h) ==
  \A d \in Days : Assigning(work[h], d) # {} =>
    Cardinality(Away(d) \cup Assigning(work[h], d)) + SeatCap <= TeamSize

WorkInv(h) == InOrder(work[h]) /\ WorkRespectful(h) /\ QuotaChecked(h) /\ FloorKept(h) /\ CapKept(h)

\* The inductive invariant of one request at a time.
AloneInv == TypeOK /\ Alone /\ \A h \in Handlers : WorkInv(h)

-----------------------------------------------------------------------------
LEMMA FreeIsIdle ==
  ASSUME MaxBusy = 1, NEW h \in Handlers, Free(h)
  PROVE  \A g \in Handlers : work[g] = <<>>
<1> DEFINE busy == {g \in Handlers : work[g] # <<>>}
<1>1. IsFiniteSet(busy) /\ Cardinality(busy) \in Nat
  BY WfhAssumption, FS_Subset, FS_CardinalityType
<1>2. Cardinality(busy) < 1
  BY DEF Free
<1>3. busy = {}
  BY <1>1, <1>2, FS_EmptySet
<1> QED
  BY <1>3

\* A step leaves everybody idle but the goroutine that takes it.
OthersIdle(h) == \A g \in Handlers : g # h => work[g] = <<>> /\ work'[g] = <<>>

LEMMA StartsAlone ==
  ASSUME MaxBusy = 1, TypeOK, NEW h \in Handlers, NEW steps, Started(h, steps)
  PROVE  OthersIdle(h) /\ work'[h] = steps
BY FreeIsIdle DEF Started, TypeOK, OthersIdle

LEMMA RunsAlone ==
  ASSUME TypeOK, Alone, NEW h \in Handlers, work[h] # <<>>,
         Abort(h) \/ \E steps \in Seq(Statement) : Then(h, steps)
  PROVE  OthersIdle(h)
<1>1. work' = [work EXCEPT ![h] = work'[h]]
  BY Aborted, Continued DEF TypeOK
<1> QED
  BY <1>1 DEF Alone, OthersIdle, TypeOK

\* Nothing to run, nothing to show.
PlainDo(s) == s.do \notin {"create", "release", "withdraw", "status", "deny", "assign", "quota"}

LEMMA PlainWork ==
  ASSUME NEW h \in Handlers, Len(work'[h]) \in Nat,
         work'[h] # <<>> => Now(h)' = work'[h][1] /\ Len(work'[h]) > 0,
         \A i \in 1..Len(work'[h]) : PlainDo(work'[h][i]) /\ Respectful(work[h][i])'
  PROVE  WorkInv(h)'
<1>1. InOrder(work[h])'
  BY DEF InOrder, PlainDo
<1>2. WorkRespectful(h)'
  BY DEF WorkRespectful
<1>3. QuotaChecked(h)'
  BY DEF QuotaChecked, PlainDo, Create
<1>4. ASSUME NEW d \in Days
      PROVE  Approving(work[h], d)' = {} /\ Assigning(work[h], d)' = {}
  BY DEF Approving, Assigning, PlainDo
<1>5. FloorKept(h)' /\ CapKept(h)'
  BY <1>4 DEF FloorKept, CapKept
<1> QED
  BY <1>1, <1>2, <1>3, <1>5 DEF WorkInv

LEMMA IdleWork ==
  ASSUME NEW h \in Handlers, work'[h] = <<>>
  PROVE  WorkInv(h)'
<1>1. Len(work'[h]) = 0
  BY EmptySeq
<1> QED
  BY <1>1, PlainWork

-----------------------------------------------------------------------------
(* What an administrator withdrew. *)

\* A day is overruled by the write of a withdrawal only.
LEMMA NewlyOverruled ==
  ASSUME TypeOK, [Next]_vars, NEW k \in Keys, ~Overruled(k), Overruled(k)'
  PROVE  \E h \in Handlers : Write(h) /\ Now(h).do = "withdraw"
<1>1. ~(rows'[k] = rows[k])
  BY DEF Overruled
<1>2. ~Deleted(k) /\ ~Appeared(k) /\ ~Cleared(k)
  BY NoneAssumption, ClearedRow DEF Overruled, Deleted, Appeared
<1>3. PICK h \in Handlers : CreateWFHRequest(h) \/ Write(h)
  BY <1>1, <1>2, OtherRows
<1>4. ~CreateWFHRequest(h)
  <2>1. SUFFICES ASSUME CreateWFHRequest(h) PROVE FALSE
    OBVIOUS
  <2>2. PICK j \in Keys : j = Now(h).k
    BY <2>1, CreateStep
  <2>3. CASE Inserted(j, "pending", "ad_hoc")
    BY <2>3, <1>1, <1>2, InsertedRow
  <2>4. CASE Written(j, "pending", None)
    BY <2>4, <1>1, NoneAssumption DEF Written, Overruled
  <2> QED
    BY <1>1, <2>1, <2>2, <2>3, <2>4, CreateStep
<1>5. PICK j \in Keys : j = Now(h).k
  BY <1>3, <1>4, WriteStep
<1>6. ~Inserted(j, "approved", "ad_hoc")
  BY <1>1, <1>2, InsertedRow
<1>7. ~(Inserted(j, "approved", "assigned") /\ j[2] >= today)
  BY <1>1, <1>2, InsertedRow
<1>8. \A s \in Statuses \ {"withdrawn"} : ~Written(j, s, rows[j].by)
  BY <1>1 DEF Written, Overruled
<1>9. {"approved", "cancelled", "denied"} \subseteq Statuses \ {"withdrawn"}
  BY DEF Statuses
<1> QED
  BY <1>1, <1>3, <1>4, <1>5, <1>6, <1>7, <1>8, <1>9, WriteStep DEF Denied

LEMMA RespectfulStays ==
  ASSUME TypeOK, [Next]_vars, NEW s \in Statement, Respectful(s),
         s.do = "replace" \/ ~(\E h \in Handlers : Write(h) /\ Now(h).do = "withdraw")
  PROVE  Respectful(s)'
<1>1. /\ s.do \in {"status", "deny", "withdraw"} => s.k \in Keys
      /\ s.do = "settle" => s.left \in SUBSET Keys
  BY StatementTypes
<1>2. CASE s.do = "replace"
  BY <1>2 DEF Respectful
<1>3. CASE ~(\E h \in Handlers : Write(h) /\ Now(h).do = "withdraw")
  <2>1. \A k \in Keys : ~Overruled(k) => ~Overruled(k)'
    BY <1>3, NewlyOverruled
  <2> QED
    BY <1>1, <2>1 DEF Respectful
<1> QED
  BY <1>2, <1>3

\* Statements that stay are respectful after the step too.
LEMMA LaterRespectful ==
  ASSUME TypeOK, [Next]_vars, NEW h \in Handlers, OthersIdle(h),
         NEW j \in 1..Len(work[h]), Respectful(work[h][j]),
         Now(h).do = "withdraw" => work[h][j].do = "replace",
         NEW i \in 1..Len(work'[h]), work'[h][i] = work[h][j]
  PROVE  Respectful(work[h][i])'
<1>1. PICK s \in Statement : s = work[h][j]
  BY ElementOfSeq DEF TypeOK
<1>2. s.do = "replace" \/ ~(\E g \in Handlers : Write(g) /\ Now(g).do = "withdraw")
  BY <1>1, WriteStep DEF OthersIdle
<1>3. Respectful(s)'
  BY <1>1, <1>2, RespectfulStays
<1> QED
  BY <1>1, <1>3 DEF Respectful

\* Only decisions and picks come in numbers, and only a report inserts.
LEMMA RestIsPlain ==
  ASSUME TypeOK, NEW h \in Handlers, work[h] # <<>>, InOrder(work[h]),
         Now(h).do \notin {"status", "deny", "assign", "quota"}
  PROVE  \A j \in 1..Len(work[h]) : j > 1 =>
           /\ PlainDo(work[h][j])
           /\ Now(h).do \in {"withdraw", "release"} => work[h][j].do = "replace"
<1>1. Now(h) = work[h][1] /\ Len(work[h]) \in Nat \ {0}
  BY FirstStatement DEF TypeOK
<1> SUFFICES ASSUME NEW j \in 1..Len(work[h]), j > 1
             PROVE  /\ PlainDo(work[h][j])
                    /\ Now(h).do \in {"withdraw", "release"} => work[h][j].do = "replace"
  OBVIOUS
<1>2. 1 \in 1..Len(work[h]) /\ 1 < j
  BY <1>1
<1>3. /\ work[h][j].do \in {"status", "deny"} => Now(h).do \in {"status", "deny"}
      /\ work[h][j].do = "assign" => Now(h).do = "assign"
      /\ work[h][j].do = "create" => Now(h) = Ask(work[h][j].k)
      /\ work[h][j].do \notin {"withdraw", "release", "quota"}
      /\ Now(h).do \in {"withdraw", "release"} => work[h][j].do = "replace"
  BY <1>1, <1>2 DEF InOrder
<1> QED
  BY <1>3 DEF PlainDo, Ask

\* The first statement is done, or goes on with plain ones: all that is left is plain.
LEMMA PlainContinue ==
  ASSUME TypeOK, [Next]_vars, NEW h \in Handlers, work[h] # <<>>, WorkInv(h), OthersIdle(h),
         Now(h).do \notin {"status", "deny", "assign", "quota"}, ~Reporting(work[h]),
         NEW steps \in Seq(Statement), Then(h, steps),
         \A i \in 1..Len(steps) : PlainDo(steps[i]) /\ Respectful(steps[i])'
  PROVE  WorkInv(h)'
<1>1. /\ work' \in [Handlers -> Seq(Statement)]
      /\ Len(steps) \in Nat /\ Len(work[h]) \in Nat \ {0}
      /\ Len(work'[h]) = Len(steps) + Len(work[h]) - 1
      /\ \A i \in 1..Len(steps) : work'[h][i] = steps[i]
      /\ \A i \in 1..Len(work'[h]) : i > Len(steps) =>
           work'[h][i] = work[h][i - Len(steps) + 1]
  BY Continued DEF TypeOK
<1>2. \A j \in 1..Len(work[h]) : Respectful(work[h][j])
  BY DEF WorkInv, WorkRespectful
<1>3. ASSUME NEW i \in 1..Len(work'[h])
      PROVE  PlainDo(work'[h][i]) /\ Respectful(work[h][i])'
  <2>1. CASE i <= Len(steps)
    <3>1. i \in 1..Len(steps) /\ work'[h][i] = steps[i]
      BY <1>1, <2>1
    <3>2. PlainDo(steps[i]) /\ Respectful(steps[i])'
      BY <3>1
    <3> QED
      BY <3>1, <3>2 DEF Respectful
  <2>2. CASE ~(i <= Len(steps))
    <3> DEFINE n == i - Len(steps) + 1
    <3>1. n \in 1..Len(work[h]) /\ n > 1 /\ work'[h][i] = work[h][n]
      BY <1>1, <2>2
    <3> HIDE DEF n
    <3> PICK j \in 1..Len(work[h]) : j = n
      BY <3>1
    <3>2. PlainDo(work[h][j]) /\ (Now(h).do = "withdraw" => work[h][j].do = "replace")
      BY <3>1, RestIsPlain DEF WorkInv
    <3> QED
      BY <1>2, <3>1, <3>2, LaterRespectful
  <2> QED
    BY <2>1, <2>2
<1>4. work'[h] # <<>> => Now(h)' = work'[h][1] /\ Len(work'[h]) > 0
  BY <1>1, EmptySeq, ElementOfSeq, HeadTailProperties DEF Now
<1>5. Len(work'[h]) \in Nat
  BY <1>1
<1> QED
  BY <1>3, <1>4, <1>5, PlainWork

LEMMA PlainDone ==
  ASSUME TypeOK, [Next]_vars, NEW h \in Handlers, work[h] # <<>>, WorkInv(h), OthersIdle(h),
         Now(h).do \notin {"status", "deny", "assign", "quota"}, ~Reporting(work[h]),
         Then(h, <<>>)
  PROVE  WorkInv(h)'
<1>1. PICK steps \in Seq(Statement) : steps = <<>> /\ Len(steps) = 0
  BY EmptySeq
<1>2. \A i \in 1..Len(steps) : PlainDo(steps[i]) /\ Respectful(steps[i])'
  BY <1>1
<1>3. Then(h, steps)
  BY <1>1
<1> QED
  BY <1>2, <1>3, PlainContinue

LEMMA PlainAgain ==
  ASSUME TypeOK, [Next]_vars, NEW h \in Handlers, work[h] # <<>>, WorkInv(h), OthersIdle(h),
         Now(h).do \notin {"status", "deny", "assign", "quota"}, ~Reporting(work[h]),
         NEW x \in Statement, PlainDo(x), Respectful(x)', Then(h, <<x>>)
  PROVE  WorkInv(h)'
<1>1. <<x>> \in Seq(Statement) /\ Len(<<x>>) = 1 /\ <<x>>[1] = x
  OBVIOUS
<1>2. PICK steps \in Seq(Statement) : steps = <<x>> /\ Len(steps) = 1 /\ steps[1] = x
  BY <1>1
<1>3. \A i \in 1..Len(steps) : steps[i] = x
  BY <1>2
<1>4. \A i \in 1..Len(steps) : PlainDo(steps[i]) /\ Respectful(steps[i])'
  BY <1>3 DEF Respectful
<1>5. Then(h, steps)
  BY <1>2
<1> QED
  BY <1>4, <1>5, PlainContinue

-----------------------------------------------------------------------------
(* The statements of one goroutine, step by step. *)

LEMMA DoneInOrder ==
  ASSUME TypeOK, NEW h \in Handlers, work[h] # <<>>, InOrder(work[h]), Then(h, <<>>)
  PROVE  InOrder(work'[h])
<1>1. /\ Len(work[h]) \in Nat \ {0} /\ Len(work'[h]) = Len(work[h]) - 1
      /\ \A i \in 1..Len(work'[h]) : work'[h][i] = work[h][i + 1]
  BY DoneWith DEF TypeOK
<1> SUFFICES ASSUME NEW i \in 1..Len(work'[h]), NEW j \in 1..Len(work'[h]), i < j
             PROVE  /\ work'[h][j].do \in {"status", "deny"} =>
                         work'[h][i].do \in {"status", "deny"}
                    /\ work'[h][j].do = "assign" => work'[h][i].do = "assign"
                    /\ work'[h][j].do = "create" =>
                         i = 1 /\ j = 2 /\ work'[h][i] = Ask(work'[h][j].k)
                    /\ work'[h][j].do \notin {"withdraw", "release", "quota"}
                    /\ work'[h][i].do \in {"withdraw", "release"} => work'[h][j].do = "replace"
  BY DEF InOrder
<1>2. /\ i + 1 \in 1..Len(work[h]) /\ j + 1 \in 1..Len(work[h]) /\ i + 1 < j + 1
      /\ work'[h][i] = work[h][i + 1] /\ work'[h][j] = work[h][j + 1]
      /\ ~(i + 1 = 1)
  BY <1>1
<1> QED
  BY <1>2 DEF InOrder

\* A decision or a pick has run: fewer are left, and none more is away than planned.
LEMMA DecisionDone ==
  ASSUME TypeOK, [Next]_vars, NEW h \in Handlers, work[h] # <<>>, WorkInv(h), OthersIdle(h),
         Now(h).do \in {"status", "deny", "assign"}, Then(h, <<>>),
         UNCHANGED <<member, leave>>,
         \A d \in Days :
           /\ Now(h).do # "assign" => Unavailable(d)' \subseteq Unavailable(d) \cup Approving(work[h], d)
           /\ Now(h).do = "assign" => Unavailable(d)' \subseteq Unavailable(d) \cup Assigning(work[h], d)
  PROVE  WorkInv(h)'
<1>1. /\ Len(work[h]) \in Nat \ {0} /\ Len(work'[h]) = Len(work[h]) - 1
      /\ \A i \in 1..Len(work'[h]) : work'[h][i] = work[h][i + 1]
      /\ \A i \in 1..Len(work'[h]) : i + 1 \in 1..Len(work[h]) /\ 1 < i + 1
      /\ 1 \in 1..Len(work[h])
      /\ Now(h) = work[h][1]
  BY DoneWith, FirstStatement DEF TypeOK
<1>2. InOrder(work[h])'
  BY DoneInOrder DEF WorkInv
<1>3. \A i \in 1..Len(work'[h]) :
        /\ work'[h][i].do \in {"status", "deny"} => Now(h).do \in {"status", "deny"}
        /\ work'[h][i].do = "assign" => Now(h).do = "assign"
        /\ work'[h][i].do = "create" => Now(h).do = "quota"
  <2> SUFFICES ASSUME NEW i \in 1..Len(work'[h])
               PROVE  /\ work'[h][i].do \in {"status", "deny"} => Now(h).do \in {"status", "deny"}
                      /\ work'[h][i].do = "assign" => Now(h).do = "assign"
                      /\ work'[h][i].do = "create" => Now(h).do = "quota"
    OBVIOUS
  <2>1. PICK n \in 1..Len(work[h]) : 1 < n /\ work'[h][i] = work[h][n]
    BY <1>1
  <2>2. InOrder(work[h]) /\ 1 \in 1..Len(work[h])
    BY <1>1 DEF WorkInv
  <2>3. /\ work[h][n].do \in {"status", "deny"} => work[h][1].do \in {"status", "deny"}
        /\ work[h][n].do = "assign" => work[h][1].do = "assign"
        /\ work[h][n].do = "create" => work[h][1] = Ask(work[h][n].k)
    BY <2>1, <2>2 DEF InOrder
  <2> QED
    BY <1>1, <2>1, <2>3 DEF Ask
<1>4. WorkRespectful(h)'
  <2>1. \A i \in 1..Len(work[h]) : Respectful(work[h][i])
    BY ReportingHead DEF WorkInv, WorkRespectful
  <2>2. ASSUME NEW i \in 1..Len(work'[h]) PROVE Respectful(work[h][i])'
    <3> DEFINE n == i + 1
    <3>1. n \in 1..Len(work[h]) /\ work'[h][i] = work[h][n]
      BY <1>1
    <3> HIDE DEF n
    <3> QED
      BY <2>1, <3>1, LaterRespectful
  <2> QED
    BY <2>2 DEF WorkRespectful
<1>5. QuotaChecked(h)'
  <2>1. work'[h] # <<>> => Now(h)' = work'[h][1] /\ 1 \in 1..Len(work'[h])
    BY <1>1, DoneWith, EmptySeq, ElementOfSeq, HeadTailProperties DEF Now, TypeOK
  <2> QED
    BY <1>3, <2>1 DEF QuotaChecked, Create
<1>6. \A d \in Days : /\ Approving(work'[h], d) \subseteq Approving(work[h], d)
                      /\ Assigning(work'[h], d) \subseteq Assigning(work[h], d)
                      /\ Now(h).do # "assign" => Assigning(work'[h], d) = {}
                      /\ Now(h).do = "assign" => Approving(work'[h], d) = {}
  <2>1. \A i \in 1..Len(work'[h]) :
          \E n \in 1..Len(work[h]) : work'[h][i] = work[h][n]
    BY <1>1
  <2>2. \A d \in Days : /\ Approving(work'[h], d) \subseteq Approving(work[h], d)
                        /\ Assigning(work'[h], d) \subseteq Assigning(work[h], d)
    <3>1. ASSUME NEW d \in Days, NEW m \in Approving(work'[h], d)
          PROVE  m \in Approving(work[h], d)
      <4>1. PICK i \in 1..Len(work'[h]) : /\ work'[h][i].do = "status"
                                          /\ work'[h][i].s = "approved" /\ work'[h][i].k = <<m, d>>
        BY <3>1 DEF Approving
      <4>2. PICK n \in 1..Len(work[h]) : work'[h][i] = work[h][n]
        BY <2>1
      <4> QED
        BY <3>1, <4>1, <4>2 DEF Approving
    <3>2. ASSUME NEW d \in Days, NEW m \in Assigning(work'[h], d)
          PROVE  m \in Assigning(work[h], d)
      <4>1. PICK i \in 1..Len(work'[h]) : work'[h][i].do = "assign" /\ work'[h][i].k = <<m, d>>
        BY <3>2 DEF Assigning
      <4>2. PICK n \in 1..Len(work[h]) : work'[h][i] = work[h][n]
        BY <2>1
      <4> QED
        BY <3>2, <4>1, <4>2 DEF Assigning
    <3> QED
      BY <3>1, <3>2
  <2>3. Now(h).do # "assign" => \A d \in Days : Assigning(work'[h], d) = {}
    BY <1>3 DEF Assigning
  <2>4. Now(h).do = "assign" => \A d \in Days : Approving(work'[h], d) = {}
    BY <1>3 DEF Approving
  <2> QED
    BY <2>2, <2>3, <2>4
<1>7. /\ GetActiveTeamMembers' = GetActiveTeamMembers /\ TeamSize' = TeamSize
      /\ permanentWFHMemberIDs' = permanentWFHMemberIDs
  BY DEF GetActiveTeamMembers, TeamSize, permanentWFHMemberIDs
<1>8. TeamSize \in Nat /\ MinOnsiteCount(TeamSize) \in Nat /\ SeatCap \in Nat
  <2>1. TeamSize \in Nat
    BY Sizes DEF TeamSize, GetActiveTeamMembers
  <2> QED
    BY <2>1, MinOnsiteType, WfhAssumption
<1>9. \A d \in Days : /\ Unavailable(d) \subseteq Members /\ Unavailable(d)' \subseteq Members
                      /\ Away(d) \subseteq Members
                      /\ Away(d)' = Unavailable(d)' \cup permanentWFHMemberIDs
                      /\ Approving(work[h], d) \subseteq Members
                      /\ Assigning(work[h], d) \subseteq Members
  BY <1>7 DEF Unavailable, leaveMemberIDsForDate, GetWFHRequestsByDateAndStatus, Away, Approving,
              Assigning, permanentWFHMemberIDs, GetActiveTeamMembers
<1>10. FloorKept(h)'
  <2> SUFFICES ASSUME NEW d \in Days, Approving(work'[h], d) # {}
               PROVE  Cardinality(Unavailable(d)' \cup Approving(work'[h], d))
                        + MinOnsiteCount(TeamSize)' <= TeamSize'
    BY DEF FloorKept
  <2> DEFINE old == Unavailable(d) \cup Approving(work[h], d)
             new == Unavailable(d)' \cup Approving(work'[h], d)
  <2>1. Now(h).do # "assign" /\ Approving(work[h], d) # {} /\ new \subseteq old
    BY <1>6
  <2>2. Cardinality(old) + MinOnsiteCount(TeamSize) <= TeamSize
    BY <2>1 DEF WorkInv, FloorKept
  <2>3. old \in SUBSET Members
    BY <1>9
  <2>4. MinOnsiteCount(TeamSize)' = MinOnsiteCount(TeamSize)
    BY <1>7 DEF MinOnsiteCount
  <2> HIDE DEF old, new
  <2>5. Cardinality(new) \in Nat /\ Cardinality(old) \in Nat /\ Cardinality(new) <= Cardinality(old)
    BY <2>1, <2>3, Sizes, FS_Subset
  <2>6. Cardinality(new) + MinOnsiteCount(TeamSize) <= TeamSize
    BY <1>8, <2>2, <2>5
  <2> QED
    BY <1>7, <2>4, <2>6 DEF new
<1>11. CapKept(h)'
  <2> SUFFICES ASSUME NEW d \in Days, Assigning(work'[h], d) # {}
               PROVE  Cardinality(Away(d)' \cup Assigning(work'[h], d)) + SeatCap <= TeamSize'
    BY DEF CapKept
  <2> DEFINE old == Away(d) \cup Assigning(work[h], d)
             new == Away(d)' \cup Assigning(work'[h], d)
  <2>1. Now(h).do = "assign" /\ Assigning(work[h], d) # {}
    BY <1>6
  <2>2. new \subseteq old
    BY <1>6, <1>9, <2>1 DEF Away
  <2>3. Cardinality(old) + SeatCap <= TeamSize
    BY <2>1 DEF WorkInv, CapKept
  <2>4. old \in SUBSET Members
    BY <1>9
  <2> HIDE DEF old, new
  <2>5. Cardinality(new) \in Nat /\ Cardinality(old) \in Nat /\ Cardinality(new) <= Cardinality(old)
    BY <2>2, <2>4, Sizes, FS_Subset
  <2>6. Cardinality(new) + SeatCap <= TeamSize
    BY <1>8, <2>3, <2>5
  <2> QED
    BY <1>7, <2>6 DEF new
<1> QED
  BY <1>2, <1>4, <1>5, <1>10, <1>11 DEF WorkInv

\* Nobody else is away on d after a write of j.
LEMMA AwayAfter ==
  ASSUME TypeOK, NEW j \in Keys, UNCHANGED leave,
         \A k \in Keys : k # j => rows'[k] = rows[k],
         NEW d \in Days, NEW m \in Unavailable(d)', m \notin Unavailable(d)
  PROVE  j = <<m, d>> /\ IsStatus(m, d, "approved")'
<1>1. m \in Members
  BY DEF Unavailable, leaveMemberIDsForDate, GetWFHRequestsByDateAndStatus
<1>2. IsStatus(m, d, "approved")' /\ ~IsStatus(m, d, "approved")
  BY <1>1 DEF Unavailable, leaveMemberIDsForDate, GetWFHRequestsByDateAndStatus
<1>3. <<m, d>> \in Keys
  BY <1>1 DEF Keys
<1> QED
  BY <1>2, <1>3 DEF IsStatus

LEMMA WriteWork ==
  ASSUME TypeOK, [Next]_vars, NEW h \in Handlers, WorkInv(h), Write(h), OthersIdle(h)
  PROVE  WorkInv(h)'
<1>1. /\ work[h] # <<>> /\ UNCHANGED <<member, leave>>
      /\ rows' \in [Keys -> Request \cup {None}]
      /\ Now(h).do # "withdraw" => Then(h, <<>>)
  BY WriteStep DEF Denied
<1>2. PICK j \in Keys : j = Now(h).k
  BY WriteStep
<1>3. Now(h) = work[h][1] /\ 1 \in 1..Len(work[h])
  BY <1>1, FirstStatement DEF TypeOK
<1>4. CASE Now(h).do = "status"
  <2>1. Written(j, Now(h).s, rows[j].by)
    BY <1>2, <1>4, WriteStep DEF Denied
  <2>2. ASSUME NEW d \in Days, NEW m \in Unavailable(d)', m \notin Unavailable(d)
        PROVE  m \in Approving(work[h], d)
    <3>1. j = <<m, d>> /\ IsStatus(m, d, "approved")'
      BY <1>1, <2>1, <2>2, AwayAfter DEF Written
    <3>2. Now(h).s = "approved"
      BY <2>1, <3>1 DEF Written, IsStatus
    <3>3. m \in Members
      BY <2>2 DEF Unavailable, leaveMemberIDsForDate, GetWFHRequestsByDateAndStatus
    <3> QED
      BY <1>2, <1>3, <1>4, <3>1, <3>2, <3>3 DEF Approving
  <2> QED
    BY <1>1, <1>4, <2>2, DecisionDone
<1>5. CASE Now(h).do = "deny"
  <2>1. Written(j, "denied", rows[j].by)
    BY <1>2, <1>5, WriteStep DEF Denied
  <2>2. ASSUME NEW d \in Days, NEW m \in Unavailable(d)', m \notin Unavailable(d)
        PROVE  FALSE
    <3>1. j = <<m, d>> /\ IsStatus(m, d, "approved")'
      BY <1>1, <2>1, <2>2, AwayAfter DEF Written
    <3> QED
      BY <2>1, <3>1 DEF Written, IsStatus
  <2> QED
    BY <1>1, <1>5, <2>2, DecisionDone
<1>6. CASE Now(h).do = "assign"
  <2>1. \A k \in Keys : k # j => rows'[k] = rows[k]
    <3>1. CASE Inserted(j, "approved", "assigned") /\ j[2] >= today
      BY <3>1, InsertedRow
    <3> QED
      BY <1>2, <1>6, <3>1, WriteStep DEF Denied
  <2>2. ASSUME NEW d \in Days, NEW m \in Unavailable(d)', m \notin Unavailable(d)
        PROVE  m \in Assigning(work[h], d)
    <3>1. j = <<m, d>>
      BY <1>1, <2>1, <2>2, AwayAfter
    <3>2. m \in Members
      BY <2>2 DEF Unavailable, leaveMemberIDsForDate, GetWFHRequestsByDateAndStatus
    <3> QED
      BY <1>2, <1>3, <1>6, <3>1, <3>2 DEF Assigning
  <2> QED
    BY <1>1, <1>6, <2>2, DecisionDone
<1>7. CASE Now(h).do \in {"withdraw", "mark", "replace"}
  <2>1. ~Reporting(work[h])
    BY <1>1, <1>7, ReportingHead
  <2>2. CASE Then(h, <<>>)
    BY <1>1, <1>7, <2>1, <2>2, PlainDone
  <2>3. CASE Abort(h)
    BY <2>3, Aborted, IdleWork DEF TypeOK
  <2> QED
    BY <2>2, <2>3, WriteStep DEF Denied
<1> QED
  BY <1>4, <1>5, <1>6, <1>7, WriteStep DEF Denied

LEMMA QuotaWork ==
  ASSUME TypeOK, [Next]_vars, NEW h \in Handlers, WorkInv(h), CheckQuota(h), OthersIdle(h)
  PROVE  WorkInv(h)'
<1>1. /\ work[h] # <<>> /\ Now(h).do = "quota" /\ UNCHANGED <<tables, bounds>>
  BY QuotaStep
<1>2. CASE Abort(h)
  BY <1>2, Aborted, IdleWork DEF TypeOK
<1>3. CASE Then(h, <<>>) /\ Used(Now(h).k[1], Now(h).k[2]) < MaxDaysPerPeriod
  <2>1. /\ Len(work[h]) \in Nat \ {0} /\ Len(work'[h]) = Len(work[h]) - 1
        /\ \A i \in 1..Len(work'[h]) : work'[h][i] = work[h][i + 1]
        /\ 1 \in 1..Len(work[h])
        /\ Now(h) = work[h][1]
    BY <1>1, <1>3, DoneWith, FirstStatement DEF TypeOK
  <2>2. work'[h] # <<>> => Now(h)' = work'[h][1] /\ 1 \in 1..Len(work'[h])
    BY <1>1, <1>3, <2>1, DoneWith, EmptySeq, ElementOfSeq, HeadTailProperties DEF Now, TypeOK
  <2>3. InOrder(work[h])'
    BY <1>1, <1>3, DoneInOrder DEF WorkInv
  <2>4. \A i \in 1..Len(work'[h]) :
          \E n \in 1..Len(work[h]) : 1 < n /\ work'[h][i] = work[h][n]
    <3> SUFFICES ASSUME NEW i \in 1..Len(work'[h])
                 PROVE  \E n \in 1..Len(work[h]) : 1 < n /\ work'[h][i] = work[h][n]
      OBVIOUS
    <3>1. i + 1 \in 1..Len(work[h]) /\ 1 < i + 1 /\ work'[h][i] = work[h][i + 1]
      BY <2>1
    <3> QED
      BY <3>1
  <2>5. \A i \in 1..Len(work'[h]) : work'[h][i].do \notin {"status", "deny", "assign"}
    <3> SUFFICES ASSUME NEW i \in 1..Len(work'[h])
                 PROVE  work'[h][i].do \notin {"status", "deny", "assign"}
      OBVIOUS
    <3>1. PICK n \in 1..Len(work[h]) : 1 < n /\ work'[h][i] = work[h][n]
      BY <2>4
    <3>2. /\ work[h][n].do \in {"status", "deny"} => work[h][1].do \in {"status", "deny"}
          /\ work[h][n].do = "assign" => work[h][1].do = "assign"
      BY <2>1, <3>1 DEF WorkInv, InOrder
    <3> QED
      BY <1>1, <2>1, <3>1, <3>2
  <2>6. FloorKept(h)' /\ CapKept(h)'
    BY <2>5 DEF FloorKept, CapKept, Approving, Assigning
  <2>7. WorkRespectful(h)'
    <3>1. CASE Reporting(work[h])
      <4>1. PICK k \in Keys :
              \/ Len(work[h]) = 3 /\ work[h][1] = Ask(k) /\ work[h][2] = Create(k) /\ work[h][3] = Settle(k)
              \/ Len(work[h]) = 2 /\ work[h][1] = Create(k) /\ work[h][2] = Settle(k)
        BY <3>1 DEF Reporting
      <4>2. Len(work[h]) = 3
        BY <1>1, <2>1, <4>1 DEF Create
      <4>3. Len(work'[h]) = 2 /\ work'[h][1] = Create(k) /\ work'[h][2] = Settle(k)
        BY <2>1, <4>1, <4>2
      <4> QED
        BY <4>3 DEF WorkRespectful, Reporting
    <3>2. CASE \A n \in 1..Len(work[h]) : Respectful(work[h][n])
      <4>1. ASSUME NEW i \in 1..Len(work'[h]) PROVE Respectful(work[h][i])'
        <5>1. PICK n \in 1..Len(work[h]) : work'[h][i] = work[h][n]
          BY <2>4
        <5> QED
          BY <1>1, <3>2, <5>1, LaterRespectful
      <4> QED
        BY <4>1 DEF WorkRespectful
    <3> QED
      BY <3>1, <3>2 DEF WorkInv, WorkRespectful
  <2>8. QuotaChecked(h)'
    <3> SUFFICES ASSUME NEW k \in Keys, work'[h] # <<>>, Now(h)' = Create(k)
                 PROVE  Used(k[1], k[2])' < MaxDaysPerPeriod
      BY DEF QuotaChecked
    <3>1. PICK n \in 1..Len(work[h]) : 1 < n /\ work[h][n] = Create(k)
      BY <2>2, <2>4
    <3>2. work[h][1] = Ask(k)
      BY <2>1, <3>1 DEF WorkInv, InOrder, Create
    <3>3. Used(k[1], k[2]) < MaxDaysPerPeriod
      BY <1>3, <2>1, <3>2 DEF Ask
    <3>4. Used(k[1], k[2])' = Used(k[1], k[2])
      BY <1>1 DEF tables, Used, GetWFHRequestsVoluntaryInPeriod, GetWFHRequestsByMember,
                  IsVoluntary, ComputePeriodBounds
    <3> QED
      BY <3>3, <3>4
  <2> QED
    BY <2>3, <2>6, <2>7, <2>8 DEF WorkInv
<1> QED
  BY <1>2, <1>3, QuotaStep

LEMMA CreateWork ==
  ASSUME TypeOK, [Next]_vars, NEW h \in Handlers, WorkInv(h), CreateWFHRequest(h), OthersIdle(h)
  PROVE  WorkInv(h)'
<1>1. work[h] # <<>> /\ Now(h).do = "create"
  BY CreateStep
<1>2. PICK j \in Keys : j = Now(h).k
  BY CreateStep
<1>3. CASE Abort(h)
  BY <1>3, Aborted, IdleWork DEF TypeOK
<1>4. CASE Then(h, <<>>) /\ (Inserted(j, "pending", "ad_hoc")
                               \/ (rows[j] # None /\ Written(j, "pending", None)))
  <2>1. CASE Reporting(work[h])
    <3>1. PICK k \in Keys :
            \/ Len(work[h]) = 3 /\ work[h][1] = Ask(k) /\ work[h][2] = Create(k) /\ work[h][3] = Settle(k)
            \/ Len(work[h]) = 2 /\ work[h][1] = Create(k) /\ work[h][2] = Settle(k)
      BY <2>1 DEF Reporting
    <3>2. Now(h) = work[h][1]
      BY <1>1, FirstStatement DEF TypeOK
    <3>3. Len(work[h]) = 2 /\ work[h][1] = Create(k) /\ work[h][2] = Settle(k)
      BY <1>1, <3>1, <3>2 DEF Ask
    <3>4. j = k
      BY <1>2, <3>2, <3>3 DEF Create
    <3>5. Len(work'[h]) = 1 /\ work'[h][1] = Settle(k)
      <4>1. /\ Len(work'[h]) = Len(work[h]) - 1
            /\ \A i \in 1..Len(work'[h]) : work'[h][i] = work[h][i + 1]
        BY <1>1, <1>4, DoneWith DEF TypeOK
      <4>2. Len(work'[h]) = 1 /\ 1 \in 1..Len(work'[h])
        BY <3>3, <4>1
      <4>3. work'[h][1] = work[h][1 + 1]
        BY <4>1, <4>2
      <4> QED
        BY <3>3, <4>2, <4>3
    <3>6. ~Overruled(k)'
      BY <1>4, <3>4 DEF Inserted, Written, Overruled
    <3>7. Respectful(Settle(k))' /\ PlainDo(Settle(k))
      BY <3>6 DEF Respectful, Settle, PlainDo
    <3>8. \A i \in 1..Len(work'[h]) : work'[h][i] = Settle(k)
      BY <3>5
    <3>9. \A i \in 1..Len(work'[h]) : PlainDo(work'[h][i]) /\ Respectful(work[h][i])'
      BY <3>7, <3>8 DEF Respectful
    <3>10. Now(h)' = work'[h][1]
      BY <1>1, <1>4, <3>5, DoneWith, EmptySeq, ElementOfSeq, HeadTailProperties DEF Now, TypeOK
    <3> QED
      BY <3>5, <3>9, <3>10, PlainWork
  <2>2. CASE ~Reporting(work[h])
    BY <1>1, <1>4, <2>2, PlainDone
  <2> QED
    BY <2>1, <2>2
<1> QED
  BY <1>2, <1>3, <1>4, CreateStep

\* What is left once the first statement has others in its place, and no decision follows.
LEMMA Replaced ==
  ASSUME TypeOK, [Next]_vars, NEW h \in Handlers, work[h] # <<>>, WorkInv(h), OthersIdle(h),
         Now(h).do \notin {"status", "deny", "assign", "quota", "create", "withdraw"},
         NEW steps \in Seq(Statement), Then(h, steps)
  PROVE  /\ Len(steps) \in Nat /\ Len(work'[h]) \in Nat
         /\ \A i \in 1..Len(work'[h]) :
              \/ i \in 1..Len(steps) /\ work'[h][i] = steps[i]
              \/ /\ i > Len(steps) /\ PlainDo(work'[h][i]) /\ Respectful(work[h][i])'
                 /\ Now(h).do = "release" => work'[h][i].do = "replace"
         /\ work'[h] # <<>> => Now(h)' = work'[h][1] /\ Len(work'[h]) > 0
<1>1. /\ work' \in [Handlers -> Seq(Statement)]
      /\ Len(steps) \in Nat /\ Len(work[h]) \in Nat \ {0}
      /\ Len(work'[h]) = Len(steps) + Len(work[h]) - 1
      /\ \A i \in 1..Len(steps) : work'[h][i] = steps[i]
      /\ \A i \in 1..Len(work'[h]) : i > Len(steps) =>
           work'[h][i] = work[h][i - Len(steps) + 1]
  BY Continued DEF TypeOK
<1>2. \A j \in 1..Len(work[h]) : Respectful(work[h][j])
  BY ReportingHead DEF WorkInv, WorkRespectful
<1>3. ASSUME NEW i \in 1..Len(work'[h])
      PROVE  \/ i \in 1..Len(steps) /\ work'[h][i] = steps[i]
             \/ /\ i > Len(steps) /\ PlainDo(work'[h][i]) /\ Respectful(work[h][i])'
                /\ Now(h).do = "release" => work'[h][i].do = "replace"
  <2>1. CASE i <= Len(steps)
    BY <1>1, <2>1
  <2>2. CASE i > Len(steps)
    <3> DEFINE n == i - Len(steps) + 1
    <3>1. n \in 1..Len(work[h]) /\ n > 1 /\ work'[h][i] = work[h][n]
      BY <1>1, <2>2
    <3> HIDE DEF n
    <3> PICK j \in 1..Len(work[h]) : j = n
      BY <3>1
    <3>2. PlainDo(work[h][j]) /\ (Now(h).do = "release" => work[h][j].do = "replace")
      BY <3>1, RestIsPlain DEF WorkInv
    <3>3. Respectful(work[h][i])'
      BY <1>2, <3>1, LaterRespectful
    <3> QED
      BY <2>2, <3>1, <3>2, <3>3
  <2> QED
    BY <1>1, <2>1, <2>2
<1>4. work'[h] # <<>> => Now(h)' = work'[h][1] /\ Len(work'[h]) > 0
  BY <1>1, EmptySeq, ElementOfSeq, HeadTailProperties DEF Now
<1>5. Len(work'[h]) \in Nat
  BY <1>1
<1> QED
  BY <1>1, <1>3, <1>4, <1>5

LEMMA ReleaseWork ==
  ASSUME TypeOK, [Next]_vars, NEW h \in Handlers, WorkInv(h), WithdrawAssignedWFHRequest(h),
         OthersIdle(h)
  PROVE  WorkInv(h)'
<1>1. work[h] # <<>> /\ Now(h).do = "release" /\ UNCHANGED tables
  BY ReleaseStep
<1>2. CASE Abort(h)
  BY <1>2, Aborted, IdleWork DEF TypeOK
<1>3. ASSUME NEW k \in Keys, NEW by \in Admins, rows[k] # None, rows[k].status = "approved",
             Then(h, <<[do |-> "withdraw", k |-> k, by |-> by]>>),
             [do |-> "withdraw", k |-> k, by |-> by] \in Statement
      PROVE  WorkInv(h)'
  <2> PICK first \in Statement : first = [do |-> "withdraw", k |-> k, by |-> by]
    BY <1>3
  <2>1. first.do = "withdraw" /\ first.k = k
    OBVIOUS
  <2>2. PICK steps \in Seq(Statement) : steps = <<first>> /\ Len(steps) = 1 /\ steps[1] = first
    <3>1. <<first>> \in Seq(Statement) /\ Len(<<first>>) = 1 /\ <<first>>[1] = first
      OBVIOUS
    <3> QED
      BY <3>1
  <2>3. Then(h, steps)
    BY <1>3, <2>2
  <2>4. /\ Len(steps) \in Nat /\ Len(work'[h]) \in Nat
        /\ \A i \in 1..Len(work'[h]) :
             \/ i \in 1..Len(steps) /\ work'[h][i] = steps[i]
             \/ /\ i > Len(steps) /\ PlainDo(work'[h][i]) /\ Respectful(work[h][i])'
                /\ Now(h).do = "release" => work'[h][i].do = "replace"
        /\ work'[h] # <<>> => Now(h)' = work'[h][1] /\ Len(work'[h]) > 0
    BY <1>1, <2>3, Replaced
  <2>5. \A i \in 1..Len(work'[h]) : \/ i = 1 /\ work'[h][i] = first
                                    \/ i > 1 /\ work'[h][i].do = "replace" /\ Respectful(work[h][i])'
    BY <1>1, <2>2, <2>4
  <2>6. InOrder(work[h])'
    <3> SUFFICES ASSUME NEW i \in 1..Len(work'[h]), NEW j \in 1..Len(work'[h]), i < j
                 PROVE  work'[h][j].do = "replace"
      BY DEF InOrder
    <3>1. j > 1
      BY <2>4
    <3> QED
      BY <2>5, <3>1
  <2>7. WorkRespectful(h)'
    <3>1. ~Overruled(k)'
      BY <1>1, <1>3 DEF tables, Overruled
    <3>2. Respectful(first)'
      BY <2>1, <3>1 DEF Respectful
    <3>3. ASSUME NEW i \in 1..Len(work'[h]) PROVE Respectful(work[h][i])'
      BY <2>5, <3>2 DEF Respectful
    <3> QED
      BY <3>3 DEF WorkRespectful
  <2>8. \A i \in 1..Len(work'[h]) : work'[h][i].do \in {"withdraw", "replace"}
    BY <2>1, <2>5
  <2>9. QuotaChecked(h)' /\ FloorKept(h)' /\ CapKept(h)'
    <3>1. work'[h] # <<>> => Now(h)'.do \in {"withdraw", "replace"}
      BY <2>4, <2>8
    <3>2. ASSUME NEW d \in Days PROVE Approving(work[h], d)' = {} /\ Assigning(work[h], d)' = {}
      BY <2>8 DEF Approving, Assigning
    <3> QED
      BY <3>1, <3>2 DEF QuotaChecked, FloorKept, CapKept, Create
  <2> QED
    BY <2>6, <2>7, <2>9 DEF WorkInv
<1> QED
  BY <1>2, <1>3, ReleaseStep

\* Decisions, or picks, and then the rest of the loop: ordered like this.
LEMMA LoopInOrder ==
  ASSUME NEW w, Len(w) \in Nat, NEW n \in Nat, NEW what \in {{"status", "deny"}, {"assign"}},
         \A i \in 1..Len(w) : \/ i < n /\ w[i].do \in what
                              \/ i >= n /\ PlainDo(w[i])
  PROVE  InOrder(w)
<1> SUFFICES ASSUME NEW i \in 1..Len(w), NEW j \in 1..Len(w), i < j
             PROVE  /\ w[j].do \in {"status", "deny"} => w[i].do \in {"status", "deny"}
                    /\ w[j].do = "assign" => w[i].do = "assign"
                    /\ w[j].do = "create" => i = 1 /\ j = 2 /\ w[i] = Ask(w[j].k)
                    /\ w[j].do \notin {"withdraw", "release", "quota"}
                    /\ w[i].do \in {"withdraw", "release"} => w[j].do = "replace"
  BY DEF InOrder
<1>1. j < n => i < n
  OBVIOUS
<1>2. CASE i < n
  <2>1. w[i].do \in what
    BY <1>2
  <2>2. w[j].do \in what \/ PlainDo(w[j])
    OBVIOUS
  <2> QED
    BY <2>1, <2>2 DEF PlainDo
<1>3. CASE ~(i < n)
  <2>1. PlainDo(w[i]) /\ PlainDo(w[j])
    BY <1>1, <1>3
  <2> QED
    BY <2>1 DEF PlainDo
<1> QED
  BY <1>2, <1>3

LEMMA UnionSize ==
  ASSUME NEW S \in SUBSET Members, NEW T \in SUBSET Members
  PROVE  /\ Cardinality(S \cup T) \in Nat
         /\ Cardinality(S \cup T) <= Cardinality(S) + Cardinality(T)
<1>1. /\ IsFiniteSet(S) /\ IsFiniteSet(T)
      /\ Cardinality(S) \in Nat /\ Cardinality(T) \in Nat
      /\ S \cap T \in SUBSET Members /\ S \cup T \in SUBSET Members
  BY Sizes
<1>2. Cardinality(S \cup T) = Cardinality(S) + Cardinality(T) - Cardinality(S \cap T)
  BY <1>1, FS_Union
<1>3. Cardinality(S \cap T) \in Nat /\ Cardinality(S \cup T) \in Nat
  BY <1>1, Sizes
<1> QED
  BY <1>1, <1>2, <1>3

LEMMA SettleWork ==
  ASSUME TypeOK, [Next]_vars, NEW h \in Handlers, WorkInv(h), settleDate(h), OthersIdle(h)
  PROVE  WorkInv(h)'
<1>1. /\ work[h] # <<>> /\ Now(h).do = "settle" /\ UNCHANGED tables /\ ~Reporting(work[h])
      /\ Now(h).left \in SUBSET Keys
  BY SettleStep, ReportingHead
<1>2. CASE Then(h, <<>>)
  BY <1>1, <1>2, PlainDone
<1>3. ASSUME NEW steps \in Seq(Statement), NEW d \in Days, NEW picks \in SUBSET Members,
             Then(h, steps), Len(steps) > 0,
             steps[Len(steps)].do = "settle", steps[Len(steps)].left \subseteq Now(h).left,
             \A i \in 1..Len(steps) - 1 :
               /\ steps[i].do \in {"status", "deny"} /\ steps[i].k \in Now(h).left
               /\ steps[i].do = "status" => /\ steps[i].s = "approved"
                                            /\ \E m \in picks : steps[i].k = <<m, d>>,
             Cardinality(picks) <= AvailableSlots(d)
      PROVE  WorkInv(h)'
  <2>1. /\ Len(steps) \in Nat /\ Len(work'[h]) \in Nat
        /\ \A i \in 1..Len(work'[h]) :
             \/ i \in 1..Len(steps) /\ work'[h][i] = steps[i]
             \/ /\ i > Len(steps) /\ PlainDo(work'[h][i]) /\ Respectful(work[h][i])'
                /\ Now(h).do = "release" => work'[h][i].do = "replace"
        /\ work'[h] # <<>> => Now(h)' = work'[h][1] /\ Len(work'[h]) > 0
    BY <1>1, <1>3, Replaced
  <2>2. \A k \in Now(h).left : ~Overruled(k)
    <3>1. Now(h) = work[h][1] /\ 1 \in 1..Len(work[h])
      BY <1>1, FirstStatement DEF TypeOK
    <3>2. Respectful(work[h][1])
      BY <1>1, <3>1 DEF WorkInv, WorkRespectful
    <3> QED
      BY <1>1, <3>1, <3>2 DEF Respectful
  <2>3. \A k \in Now(h).left : ~Overruled(k)'
    BY <1>1, <2>2 DEF tables, Overruled
  <2>4. ASSUME NEW i \in 1..Len(work'[h])
        PROVE  \/ /\ i < Len(steps) /\ i \in 1..Len(steps) - 1 /\ work'[h][i] = steps[i]
                  /\ work'[h][i].do \in {"status", "deny"}
               \/ /\ i >= Len(steps) /\ PlainDo(work'[h][i])
    <3>1. CASE i \in 1..Len(steps) - 1
      <4>1. i < Len(steps) /\ work'[h][i] = steps[i] /\ steps[i].do \in {"status", "deny"}
        BY <1>3, <2>1, <3>1
      <4> QED
        BY <3>1, <4>1
    <3>2. CASE i = Len(steps)
      BY <1>3, <2>1, <3>2 DEF PlainDo
    <3>3. CASE i > Len(steps)
      BY <2>1, <3>3
    <3> QED
      BY <2>1, <3>1, <3>2, <3>3
  <2>5. InOrder(work'[h])
    <3>1. \A i \in 1..Len(work'[h]) :
            \/ i < Len(steps) /\ work'[h][i].do \in {"status", "deny"}
            \/ i >= Len(steps) /\ PlainDo(work'[h][i])
      BY <2>4
    <3>2. {"status", "deny"} \in {{"status", "deny"}, {"assign"}}
      OBVIOUS
    <3> QED
      BY <2>1, <3>1, <3>2, LoopInOrder
  <2>6. WorkRespectful(h)'
    <3>1. ASSUME NEW i \in 1..Len(work'[h]) PROVE Respectful(work[h][i])'
      <4>1. CASE i > Len(steps)
        BY <2>1, <4>1
      <4>2. CASE i = Len(steps)
        <5>1. work'[h][i] = steps[i] /\ steps[i].do = "settle" /\ steps[i].left \subseteq Now(h).left
          BY <1>3, <2>1, <4>2
        <5> QED
          BY <2>3, <5>1 DEF Respectful
      <4>3. CASE i \in 1..Len(steps) - 1
        <5>1. /\ work'[h][i] = steps[i] /\ steps[i].do \in {"status", "deny"}
              /\ steps[i].k \in Now(h).left
          BY <1>3, <2>1, <4>3
        <5> QED
          BY <2>3, <5>1 DEF Respectful
      <4> QED
        BY <2>1, <4>1, <4>2, <4>3
    <3> QED
      BY <3>1 DEF WorkRespectful
  <2>7. \A i \in 1..Len(work'[h]) : work'[h][i].do \notin {"assign", "create"}
    BY <2>4 DEF PlainDo
  <2>8. QuotaChecked(h)' /\ CapKept(h)'
    <3>1. work'[h] # <<>> => Now(h)'.do # "create"
      BY <2>1, <2>7
    <3>2. ASSUME NEW e \in Days PROVE Assigning(work[h], e)' = {}
      BY <2>7 DEF Assigning
    <3> QED
      BY <3>1, <3>2 DEF QuotaChecked, CapKept, Create
  <2>9. FloorKept(h)'
    <3> SUFFICES ASSUME NEW e \in Days, Approving(work'[h], e) # {}
                 PROVE  Cardinality(Unavailable(e)' \cup Approving(work'[h], e))
                          + MinOnsiteCount(TeamSize)' <= TeamSize'
      BY DEF FloorKept
    <3>1. \A m \in Approving(work'[h], e) : m \in picks /\ e = d
      <4> SUFFICES ASSUME NEW m \in Approving(work'[h], e) PROVE m \in picks /\ e = d
        OBVIOUS
      <4>1. PICK i \in 1..Len(work'[h]) : work'[h][i].do = "status" /\ work'[h][i].k = <<m, e>>
        BY DEF Approving
      <4>2. i \in 1..Len(steps) - 1 /\ work'[h][i] = steps[i]
        BY <2>4, <4>1 DEF PlainDo
      <4>3. PICK n \in picks : steps[i].k = <<n, d>>
        BY <1>3, <4>1, <4>2
      <4> QED
        BY <4>1, <4>2, <4>3
    <3>2. Approving(work'[h], e) \subseteq picks /\ e = d /\ picks # {}
      BY <3>1
    <3>3. Unavailable(d) \in SUBSET Members
      BY DEF Unavailable, leaveMemberIDsForDate, GetWFHRequestsByDateAndStatus
    <3>4. /\ IsFiniteSet(picks) /\ Cardinality(picks) \in Nat /\ Cardinality(picks) # 0
          /\ IsFiniteSet(Unavailable(d)) /\ Cardinality(Unavailable(d)) \in Nat
      BY <3>2, <3>3, Sizes, FS_EmptySet
    <3>5. /\ Cardinality(Unavailable(d) \cup picks) \in Nat
          /\ Cardinality(Unavailable(d) \cup picks) <= Cardinality(Unavailable(d)) + Cardinality(picks)
      BY <3>3, UnionSize
    <3>6. /\ AvailableSlots(d) \in Nat
          /\ AvailableSlots(d) > 0 =>
               Cardinality(Unavailable(d)) + AvailableSlots(d) + MinOnsiteCount(TeamSize) = TeamSize
      BY SlotsType DEF TeamSize
    <3>7. TeamSize \in Nat /\ MinOnsiteCount(TeamSize) \in Nat
      <4>1. TeamSize \in Nat
        BY Sizes DEF TeamSize, GetActiveTeamMembers
      <4> QED
        BY <4>1, MinOnsiteType
    <3>8. Cardinality(Unavailable(d) \cup picks) + MinOnsiteCount(TeamSize) <= TeamSize
      BY <1>3, <3>4, <3>5, <3>6, <3>7
    <3> DEFINE new == Unavailable(d) \cup Approving(work'[h], e)
    <3>9. Cardinality(new) \in Nat /\ Cardinality(new) <= Cardinality(Unavailable(d) \cup picks)
      <4>1. new \subseteq Unavailable(d) \cup picks /\ Unavailable(d) \cup picks \in SUBSET Members
        BY <3>2, <3>3
      <4> HIDE DEF new
      <4> QED
        BY <4>1, Sizes, FS_Subset
    <3>10. /\ Unavailable(e)' = Unavailable(d) /\ TeamSize' = TeamSize
           /\ MinOnsiteCount(TeamSize)' = MinOnsiteCount(TeamSize)
      BY <1>1, <3>2 DEF tables, Unavailable, leaveMemberIDsForDate, GetWFHRequestsByDateAndStatus,
                        IsStatus, TeamSize, GetActiveTeamMembers, MinOnsiteCount
    <3>11. Cardinality(new) + MinOnsiteCount(TeamSize) <= TeamSize
      <4> HIDE DEF new
      <4> QED
        BY <3>5, <3>7, <3>8, <3>9
    <3> QED
      BY <3>10, <3>11
  <2> QED
    BY <2>5, <2>6, <2>8, <2>9 DEF WorkInv
<1> QED
  BY <1>2, <1>3, SettleStep

LEMMA PickerWork ==
  ASSUME TypeOK, [Next]_vars, NEW h \in Handlers, WorkInv(h), runPicker(h), OthersIdle(h)
  PROVE  WorkInv(h)'
<1>1. work[h] # <<>> /\ Now(h).do = "pass" /\ UNCHANGED tables /\ ~Reporting(work[h])
  BY PickerStep, ReportingHead
<1>2. CASE Then(h, <<>>)
  BY <1>1, <1>2, PlainDone
<1>3. ASSUME NEW x \in Statement, x.do = "pass", Then(h, <<x>>) PROVE WorkInv(h)'
  <2>1. PlainDo(x) /\ Respectful(x)'
    BY <1>3 DEF PlainDo, Respectful
  <2> QED
    BY <1>1, <1>3, <2>1, PlainAgain
<1>4. ASSUME NEW steps \in Seq(Statement), NEW d \in Days, NEW picks \in SUBSET Members,
             Then(h, steps), Len(steps) > 0, steps[Len(steps)].do = "pass",
             \A i \in 1..Len(steps) - 1 :
               steps[i].do = "assign" /\ \E m \in picks : steps[i].k = <<m, d>>,
             Cardinality(picks) + SeatCap <= OnSite(d)
      PROVE  WorkInv(h)'
  <2>1. /\ Len(steps) \in Nat /\ Len(work'[h]) \in Nat
        /\ \A i \in 1..Len(work'[h]) :
             \/ i \in 1..Len(steps) /\ work'[h][i] = steps[i]
             \/ /\ i > Len(steps) /\ PlainDo(work'[h][i]) /\ Respectful(work[h][i])'
                /\ Now(h).do = "release" => work'[h][i].do = "replace"
        /\ work'[h] # <<>> => Now(h)' = work'[h][1] /\ Len(work'[h]) > 0
    BY <1>1, <1>4, Replaced
  <2>2. ASSUME NEW i \in 1..Len(work'[h])
        PROVE  /\ \/ /\ i < Len(steps) /\ i \in 1..Len(steps) - 1 /\ work'[h][i] = steps[i]
                     /\ work'[h][i].do = "assign"
                  \/ /\ i >= Len(steps) /\ PlainDo(work'[h][i])
               /\ Respectful(work[h][i])'
    <3>1. CASE i \in 1..Len(steps) - 1
      <4>1. i < Len(steps) /\ work'[h][i] = steps[i] /\ steps[i].do = "assign"
        BY <1>4, <2>1, <3>1
      <4> QED
        BY <3>1, <4>1 DEF Respectful
    <3>2. CASE i = Len(steps)
      BY <1>4, <2>1, <3>2 DEF PlainDo, Respectful
    <3>3. CASE i > Len(steps)
      BY <2>1, <3>3
    <3> QED
      BY <2>1, <3>1, <3>2, <3>3
  <2>3. InOrder(work'[h])
    <3>1. \A i \in 1..Len(work'[h]) :
            \/ i < Len(steps) /\ work'[h][i].do \in {"assign"}
            \/ i >= Len(steps) /\ PlainDo(work'[h][i])
      BY <2>2
    <3>2. {"assign"} \in {{"status", "deny"}, {"assign"}}
      OBVIOUS
    <3> QED
      BY <2>1, <3>1, <3>2, LoopInOrder
  <2>4. WorkRespectful(h)'
    BY <2>2 DEF WorkRespectful
  <2>5. \A i \in 1..Len(work'[h]) : work'[h][i].do \notin {"status", "create"}
    BY <2>2 DEF PlainDo
  <2>6. QuotaChecked(h)' /\ FloorKept(h)'
    <3>1. work'[h] # <<>> => Now(h)'.do # "create"
      BY <2>1, <2>5
    <3>2. ASSUME NEW e \in Days PROVE Approving(work[h], e)' = {}
      BY <2>5 DEF Approving
    <3> QED
      BY <3>1, <3>2 DEF QuotaChecked, FloorKept, Create
  <2>7. CapKept(h)'
    <3> SUFFICES ASSUME NEW e \in Days, Assigning(work'[h], e) # {}
                 PROVE  Cardinality(Away(e)' \cup Assigning(work'[h], e)) + SeatCap <= TeamSize'
      BY DEF CapKept
    <3>1. \A m \in Assigning(work'[h], e) : m \in picks /\ e = d
      <4> SUFFICES ASSUME NEW m \in Assigning(work'[h], e) PROVE m \in picks /\ e = d
        OBVIOUS
      <4>1. PICK i \in 1..Len(work'[h]) : work'[h][i].do = "assign" /\ work'[h][i].k = <<m, e>>
        BY DEF Assigning
      <4>2. i \in 1..Len(steps) - 1 /\ work'[h][i] = steps[i]
        BY <2>2, <4>1 DEF PlainDo
      <4>3. PICK n \in picks : steps[i].k = <<n, d>>
        BY <1>4, <4>1, <4>2
      <4> QED
        BY <4>1, <4>2, <4>3
    <3>2. Assigning(work'[h], e) \subseteq picks /\ e = d
      BY <3>1
    <3>3. Away(d) \in SUBSET Members
      BY DEF Away, permanentWFHMemberIDs, GetActiveTeamMembers, Unavailable,
             leaveMemberIDsForDate, GetWFHRequestsByDateAndStatus
    <3>4. Cardinality(picks) \in Nat /\ Cardinality(Away(d)) \in Nat
      BY <3>3, Sizes
    <3>5. /\ Cardinality(Away(d) \cup picks) \in Nat
          /\ Cardinality(Away(d) \cup picks) <= Cardinality(Away(d)) + Cardinality(picks)
      BY <3>3, UnionSize
    <3>6. OnSite(d) = TeamSize - Cardinality(Away(d))
      BY DEF OnSite, TeamSize, Away
    <3>7. TeamSize \in Nat /\ SeatCap \in Nat
      BY Sizes, WfhAssumption DEF TeamSize, GetActiveTeamMembers
    <3>8. Cardinality(Away(d) \cup picks) + SeatCap <= TeamSize
      BY <1>4, <3>4, <3>5, <3>6, <3>7
    <3> DEFINE new == Away(d) \cup Assigning(work'[h], e)
    <3>9. Cardinality(new) \in Nat /\ Cardinality(new) <= Cardinality(Away(d) \cup picks)
      <4>1. new \subseteq Away(d) \cup picks /\ Away(d) \cup picks \in SUBSET Members
        BY <3>2, <3>3
      <4> HIDE DEF new
      <4> QED
        BY <4>1, Sizes, FS_Subset
    <3>10. Away(e)' = Away(d) /\ TeamSize' = TeamSize
      BY <1>1, <3>2 DEF tables, Away, Unavailable, leaveMemberIDsForDate,
                        GetWFHRequestsByDateAndStatus, IsStatus, TeamSize, GetActiveTeamMembers,
                        permanentWFHMemberIDs
    <3>11. Cardinality(new) + SeatCap <= TeamSize
      <4> HIDE DEF new
      <4> QED
        BY <3>5, <3>7, <3>8, <3>9
    <3> QED
      BY <3>10, <3>11
  <2> QED
    BY <2>3, <2>4, <2>6, <2>7 DEF WorkInv
<1> QED
  BY <1>2, <1>3, <1>4, PickerStep

LEMMA LoadWork ==
  ASSUME TypeOK, [Next]_vars, NEW h \in Handlers, WorkInv(h), GetPendingForSettlement(h),
         OthersIdle(h)
  PROVE  WorkInv(h)'
<1>1. work[h] # <<>> /\ Now(h).do = "load" /\ UNCHANGED tables /\ ~Reporting(work[h])
  BY LoadStep, ReportingHead
<1>2. PICK steps \in Seq(Statement) :
        /\ Then(h, steps)
        /\ \A i \in 1..Len(steps) :
             \/ steps[i].do \in {"pass", "expire"}
             \/ steps[i].do = "settle" /\ \A k \in steps[i].left : k \in Keys /\ IsPending(k)
  BY LoadStep
<1>3. \A k \in Keys : IsPending(k) => ~Overruled(k)'
  BY <1>1 DEF tables, IsPending, Overruled
<1>4. \A i \in 1..Len(steps) : PlainDo(steps[i]) /\ Respectful(steps[i])'
  BY <1>2, <1>3 DEF PlainDo, Respectful
<1> QED
  BY <1>1, <1>2, <1>4, PlainContinue

LEMMA MaterializeWork ==
  ASSUME TypeOK, [Next]_vars, NEW h \in Handlers, WorkInv(h), materializeForMember(h),
         OthersIdle(h)
  PROVE  WorkInv(h)'
<1>1. work[h] # <<>> /\ Now(h).do = "materialize" /\ ~Reporting(work[h])
  BY MaterializeStep, ReportingHead
<1>2. CASE Then(h, <<>>)
  BY <1>1, <1>2, PlainDone
<1>3. ASSUME NEW x \in Statement, x.do = "materialize", Then(h, <<x>>) PROVE WorkInv(h)'
  <2>1. PlainDo(x) /\ Respectful(x)'
    BY <1>3 DEF PlainDo, Respectful
  <2> QED
    BY <1>1, <1>3, <2>1, PlainAgain
<1> QED
  BY <1>2, <1>3, MaterializeStep

LEMMA FinalWork ==
  ASSUME TypeOK, [Next]_vars, NEW h \in Handlers, WorkInv(h), OthersIdle(h),
         \/ AutoCancelExpiredSwaps(h) \/ PurgePastPeriods(h)
         \/ CreateWFHAssignmentSwap(h) \/ UpdateWFHAssignmentSwapStatus(h)
  PROVE  WorkInv(h)'
<1>1. work[h] # <<>> /\ Now(h).do \in {"expire", "purge", "offer", "answer"} /\ Then(h, <<>>)
  BY FinalSteps
<1>2. ~Reporting(work[h])
  BY <1>1, ReportingHead
<1> QED
  BY <1>1, <1>2, PlainDone

LEMMA FailWork ==
  ASSUME TypeOK, [Next]_vars, NEW h \in Handlers, WorkInv(h), Fail(h), OthersIdle(h)
  PROVE  WorkInv(h)'
<1>1. work[h] # <<>> /\ UNCHANGED tables
  BY FailStep
<1>2. CASE Abort(h)
  BY <1>2, Aborted, IdleWork DEF TypeOK
<1>3. CASE Then(h, <<>>) /\ Now(h).do \notin {"quota", "create", "release", "withdraw"}
  <2>1. ~Reporting(work[h])
    BY <1>1, <1>3, ReportingHead
  <2>2. \A d \in Days : Unavailable(d)' = Unavailable(d)
    BY <1>1 DEF tables, Unavailable, leaveMemberIDsForDate, GetWFHRequestsByDateAndStatus, IsStatus
  <2>3. CASE Now(h).do \in {"status", "deny", "assign"}
    BY <1>1, <1>3, <2>2, <2>3, DecisionDone DEF tables
  <2>4. CASE Now(h).do \notin {"status", "deny", "assign"}
    BY <1>1, <1>3, <2>1, <2>4, PlainDone
  <2> QED
    BY <2>3, <2>4
<1>4. ASSUME NEW x \in Statement, x.do = Now(h).do, x.do \in {"materialize", "settle", "pass"},
             x.left \subseteq Now(h).left, Then(h, <<x>>)
      PROVE  WorkInv(h)'
  <2>1. ~Reporting(work[h])
    BY <1>1, <1>4, ReportingHead
  <2>2. Respectful(Now(h))
    BY <1>1, <2>1, FirstStatement DEF WorkInv, WorkRespectful, TypeOK
  <2>3. Respectful(x)'
    BY <1>1, <1>4, <2>2 DEF Respectful, Overruled, tables
  <2>4. PlainDo(x)
    BY <1>4 DEF PlainDo
  <2> QED
    BY <1>1, <1>4, <2>1, <2>3, <2>4, PlainAgain
<1> QED
  BY <1>2, <1>3, <1>4, FailStep

LEMMA StartedWork ==
  ASSUME TypeOK, NEW h \in Handlers, NEW steps \in Seq(Statement), Plan(steps),
         work'[h] = steps, UNCHANGED rows
  PROVE  WorkInv(h)'
<1>1. /\ Len(steps) \in Nat
      /\ work'[h] # <<>> => Now(h)' = steps[1] /\ Len(steps) > 0
  BY EmptySeq, ElementOfSeq, HeadTailProperties DEF Now
<1>2. ASSUME /\ \A i \in 1..Len(steps) :
                  /\ steps[i].do # "assign" /\ ~(steps[i].do = "status" /\ steps[i].s = "approved")
                  /\ i = 1 => steps[i].do # "create",
             InOrder(steps), WorkRespectful(h)'
      PROVE  WorkInv(h)'
  <2>1. InOrder(work[h])'
    BY <1>2 DEF InOrder
  <2>2. QuotaChecked(h)'
    BY <1>1, <1>2 DEF QuotaChecked, Create
  <2>3. ASSUME NEW d \in Days PROVE Approving(work[h], d)' = {} /\ Assigning(work[h], d)' = {}
    <3>1. ASSUME NEW m \in Approving(work'[h], d) PROVE FALSE
      BY <1>2, <3>1 DEF Approving
    <3>2. ASSUME NEW m \in Assigning(work'[h], d) PROVE FALSE
      BY <1>2, <3>2 DEF Assigning
    <3> QED
      BY <3>1, <3>2
  <2>4. FloorKept(h)' /\ CapKept(h)'
    BY <2>3 DEF FloorKept, CapKept
  <2> QED
    BY <1>2, <2>1, <2>2, <2>4 DEF WorkInv
<1>3. ASSUME NEW k \in Keys, Len(steps) = 2, steps[1] = Ask(k), steps[2] = Create(k)
      PROVE  WorkInv(h)'
  <2>1. \A i \in 1..Len(steps) : i = 1 \/ i = 2
    BY <1>3
  <2>2. InOrder(steps)
    <3>1. ASSUME NEW i \in 1..Len(steps), NEW j \in 1..Len(steps), i < j PROVE i = 1 /\ j = 2
      BY <1>3, <3>1
    <3> QED
      BY <1>3, <3>1 DEF InOrder, Ask, Create
  <2>3. WorkRespectful(h)'
    BY <1>3, <2>1 DEF WorkRespectful, Respectful, Ask, Create
  <2> QED
    BY <1>2, <1>3, <2>1, <2>2, <2>3 DEF Ask, Create
<1>4. ASSUME NEW k \in Keys, Len(steps) = 3, steps[1] = Ask(k), steps[2] = Create(k),
             steps[3] = Settle(k)
      PROVE  WorkInv(h)'
  <2>1. \A i \in 1..Len(steps) : i = 1 \/ i = 2 \/ i = 3
    BY <1>4
  <2>2. InOrder(steps)
    <3>1. ASSUME NEW i \in 1..Len(steps), NEW j \in 1..Len(steps), i < j
          PROVE  (i = 1 /\ j = 2) \/ (i \in {1, 2} /\ j = 3)
      BY <1>4, <3>1
    <3> QED
      BY <1>4, <3>1 DEF InOrder, Ask, Create, Settle
  <2>3. WorkRespectful(h)'
    BY <1>4 DEF WorkRespectful, Reporting
  <2> QED
    BY <1>2, <1>4, <2>1, <2>2, <2>3 DEF Ask, Create, Settle
<1>5. ASSUME NEW s \in Statement, Len(steps) = 1, steps[1] = s, s.do \in {"status", "withdraw"},
             s.do = "status" => s.s = "cancelled", s.k \in Keys, ~Overruled(s.k)
      PROVE  WorkInv(h)'
  <2>1. \A i \in 1..Len(steps) : i = 1 /\ steps[i] = s
    BY <1>5
  <2>2. InOrder(steps)
    <3>1. \A i, j \in 1..Len(steps) : ~(i < j)
      BY <2>1
    <3> QED
      BY <3>1 DEF InOrder
  <2>3. WorkRespectful(h)'
    <3>1. Respectful(s)'
      BY <1>5 DEF Respectful, Overruled
    <3> QED
      BY <2>1, <3>1 DEF WorkRespectful, Respectful
  <2> QED
    BY <1>2, <1>5, <2>1, <2>2, <2>3
<1>6. ASSUME Len(steps) = 2, steps[1].do = "release", steps[2].do = "replace" PROVE WorkInv(h)'
  <2>1. \A i \in 1..Len(steps) : i = 1 \/ i = 2
    BY <1>6
  <2>2. InOrder(steps)
    <3>1. ASSUME NEW i \in 1..Len(steps), NEW j \in 1..Len(steps), i < j PROVE i = 1 /\ j = 2
      BY <1>6, <3>1
    <3> QED
      BY <1>6, <3>1 DEF InOrder
  <2>3. WorkRespectful(h)'
    BY <1>6, <2>1 DEF WorkRespectful, Respectful
  <2> QED
    BY <1>2, <1>6, <2>1, <2>2, <2>3
<1>7. ASSUME \A i \in 1..Len(steps) :
               steps[i].do \in {"mark", "materialize", "load", "pass", "purge", "offer", "answer",
                       "deactivate"}
      PROVE  WorkInv(h)'
  BY <1>1, <1>7, PlainWork DEF PlainDo, Respectful
<1>8. ASSUME NEW k \in Keys, IsPending(k), Len(steps) = 1,
             steps[1] = [do |-> "status", k |-> k, s |-> "cancelled"]
      PROVE  WorkInv(h)'
  <2>1. PICK s \in Statement : s = steps[1]
    <3>1. 1 \in 1..Len(steps)
      BY <1>8
    <3> QED
      BY <3>1, ElementOfSeq
  <2>2. /\ s.do \in {"status", "withdraw"} /\ (s.do = "status" => s.s = "cancelled")
        /\ s.k = k
    BY <1>8, <2>1
  <2> QED
    BY <1>5, <1>8, <2>1, <2>2 DEF IsPending, Overruled
<1>9. ASSUME NEW k \in Keys, NEW by \in {None} \cup Admins, Approved(k, {"ad_hoc", "recurring"}),
             Len(steps) = 1, steps[1] = [do |-> "withdraw", k |-> k, by |-> by]
      PROVE  WorkInv(h)'
  <2>1. PICK s \in Statement : s = steps[1]
    <3>1. 1 \in 1..Len(steps)
      BY <1>9
    <3> QED
      BY <3>1, ElementOfSeq
  <2>2. /\ s.do \in {"status", "withdraw"} /\ (s.do = "status" => s.s = "cancelled")
        /\ s.k = k
    BY <1>9, <2>1
  <2> QED
    BY <1>5, <1>9, <2>1, <2>2 DEF Approved, Overruled
<1>10. CASE Reporting(steps) /\ Len(steps) = 3
  BY <1>4, <1>10 DEF Reporting
<1> QED
  BY <1>3, <1>6, <1>7, <1>8, <1>9, <1>10 DEF Plan

-----------------------------------------------------------------------------
(* One request at a time. *)

\* An account is denied: at most a member is still to be disabled.
LEMMA DeactivatingWork ==
  ASSUME NEW h \in Handlers, NEW steps \in Seq(Statement), Deactivating(steps), work'[h] = steps
  PROVE  WorkInv(h)'
<1>1. /\ Len(steps) \in Nat
      /\ work'[h] # <<>> => Now(h)' = work'[h][1] /\ Len(work'[h]) > 0
  BY EmptySeq, ElementOfSeq, HeadTailProperties DEF Now
<1>2. \A i \in 1..Len(work'[h]) : PlainDo(work'[h][i]) /\ Respectful(work[h][i])'
  BY DEF Deactivating, PlainDo, Respectful
<1> QED
  BY <1>1, <1>2, PlainWork

\* Steps of a goroutine that has started before.
Running(h) ==
  \/ CheckQuota(h) \/ CreateWFHRequest(h) \/ WithdrawAssignedWFHRequest(h) \/ Write(h)
  \/ materializeForMember(h) \/ GetPendingForSettlement(h) \/ settleDate(h) \/ runPicker(h)
  \/ AutoCancelExpiredSwaps(h) \/ PurgePastPeriods(h) \/ CreateWFHAssignmentSwap(h)
  \/ UpdateWFHAssignmentSwapStatus(h) \/ Fail(h) \/ DeactivateTeamMember(h)

LEMMA RunningStep ==
  ASSUME TypeOK, NEW h \in Handlers, Running(h)
  PROVE  /\ work[h] # <<>>
         /\ Abort(h) \/ \E steps \in Seq(Statement) : Then(h, steps)
<1>0. <<>> \in Seq(Statement)
  BY EmptySeq
<1>1. CASE CheckQuota(h)
  BY <1>0, <1>1, QuotaStep
<1>2. CASE CreateWFHRequest(h)
  BY <1>0, <1>2, CreateStep
<1>3. CASE WithdrawAssignedWFHRequest(h)
  <2>1. \A x \in Statement : <<x>> \in Seq(Statement)
    OBVIOUS
  <2> QED
    BY <1>3, <2>1, ReleaseStep
<1>4. CASE Write(h)
  BY <1>0, <1>4, WriteStep DEF Denied
<1>5. CASE materializeForMember(h)
  <2>1. \A x \in Statement : <<x>> \in Seq(Statement)
    OBVIOUS
  <2> QED
    BY <1>0, <1>5, <2>1, MaterializeStep
<1>6. CASE GetPendingForSettlement(h)
  BY <1>6, LoadStep
<1>7. CASE settleDate(h)
  BY <1>0, <1>7, SettleStep
<1>8. CASE runPicker(h)
  <2>1. \A x \in Statement : <<x>> \in Seq(Statement)
    OBVIOUS
  <2> QED
    BY <1>0, <1>8, <2>1, PickerStep
<1>9. CASE \/ AutoCancelExpiredSwaps(h) \/ PurgePastPeriods(h)
           \/ CreateWFHAssignmentSwap(h) \/ UpdateWFHAssignmentSwapStatus(h)
  BY <1>0, <1>9, FinalSteps
<1>10. CASE Fail(h)
  <2>1. \A x \in Statement : <<x>> \in Seq(Statement)
    OBVIOUS
  <2> QED
    BY <1>0, <1>10, <2>1, FailStep
<1>11. CASE DeactivateTeamMember(h)
  BY <1>0, <1>11, DeactivateStep
<1> QED
  BY <1>1, <1>2, <1>3, <1>4, <1>5, <1>6, <1>7, <1>8, <1>9, <1>10, <1>11 DEF Running

LEMMA RunningWork ==
  ASSUME TypeOK, [Next]_vars, NEW h \in Handlers, Running(h), WorkInv(h), OthersIdle(h)
  PROVE  WorkInv(h)'
<1>1. ASSUME DeactivateTeamMember(h) PROVE WorkInv(h)'
  <2>1. work[h] # <<>> /\ Now(h).do = "deactivate" /\ Then(h, <<>>)
    BY <1>1, DeactivateStep
  <2> QED
    BY <2>1, ReportingHead, PlainDone
<1> QED
  BY <1>1, QuotaWork, CreateWork, ReleaseWork, WriteWork, MaterializeWork, LoadWork, SettleWork,
     PickerWork, FinalWork, FailWork DEF Running

LEMMA NextAlone ==
  ASSUME MaxBusy = 1, AloneInv, [Next]_vars
  PROVE  (Alone /\ \A h \in Handlers : WorkInv(h))'
<1> USE DEF AloneInv
<1>1. ASSUME NEW h \in Handlers, OthersIdle(h), WorkInv(h)'
      PROVE  (Alone /\ \A g \in Handlers : WorkInv(g))'
  <2>1. ASSUME NEW g \in Handlers PROVE WorkInv(g)'
    BY <1>1, IdleWork DEF OthersIdle
  <2>2. Alone'
    BY <1>1 DEF OthersIdle, Alone
  <2> QED
    BY <2>1, <2>2
<1>2. ASSUME NEW h \in Handlers, MemberRequest(h) \/ AdminRequest(h)
      PROVE  (Alone /\ \A g \in Handlers : WorkInv(g))'
  <2>1. PICK steps \in Seq(Statement) : Plan(steps) /\ Started(h, steps)
    BY <1>2, MemberRequestStep, AdminRequestStep
  <2>2. OthersIdle(h) /\ work'[h] = steps /\ UNCHANGED rows
    BY <2>1, StartsAlone DEF Started, tables
  <2> QED
    BY <1>1, <2>1, <2>2, StartedWork
<1>3. ASSUME NEW h \in Handlers, Running(h)
      PROVE  (Alone /\ \A g \in Handlers : WorkInv(g))'
  <2>1. OthersIdle(h)
    BY <1>3, RunningStep, RunsAlone
  <2> QED
    BY <1>1, <1>3, <2>1, RunningWork
<1>4. ASSUME \A h \in Handlers : work'[h] = <<>>
      PROVE  (Alone /\ \A g \in Handlers : WorkInv(g))'
  BY <1>4, IdleWork DEF Alone
<1>5. ASSUME NEW h \in Handlers, Surroundings(h)
      PROVE  (Alone /\ \A g \in Handlers : WorkInv(g))'
  BY <1>4, <1>5, SurroundingsStep, FreeIsIdle
<1>6. CASE Restart
  BY <1>4, <1>6 DEF Restart
<1>7. CASE Tick \/ UNCHANGED vars
  <2>1. UNCHANGED <<member, leave, rows, work>>
    BY <1>7 DEF Tick, vars
  <2>2. ASSUME NEW h \in Handlers PROVE WorkInv(h)'
    <3>1. InOrder(work[h])' <=> InOrder(work[h])
      BY <2>1 DEF InOrder
    <3>2. WorkRespectful(h)' <=> WorkRespectful(h)
      BY <2>1 DEF WorkRespectful, Reporting, Respectful, Overruled
    <3>3. QuotaChecked(h)' <=> QuotaChecked(h)
      <4>1. ASSUME NEW m, NEW d PROVE Used(m, d)' = Used(m, d)
        BY <2>1 DEF Used, GetWFHRequestsVoluntaryInPeriod, GetWFHRequestsByMember, IsVoluntary,
                    ComputePeriodBounds
      <4> QED
        BY <2>1, <4>1 DEF QuotaChecked, Now
    <3>4. TeamSize' = TeamSize /\ MinOnsiteCount(TeamSize)' = MinOnsiteCount(TeamSize)
      BY <2>1 DEF TeamSize, GetActiveTeamMembers, MinOnsiteCount
    <3>5. ASSUME NEW d \in Days
          PROVE  /\ Unavailable(d)' = Unavailable(d) /\ Away(d)' = Away(d)
                 /\ Approving(work[h], d)' = Approving(work[h], d)
                 /\ Assigning(work[h], d)' = Assigning(work[h], d)
      BY <2>1 DEF Unavailable, leaveMemberIDsForDate, GetWFHRequestsByDateAndStatus, IsStatus, Away,
                  permanentWFHMemberIDs, GetActiveTeamMembers, Approving, Assigning
    <3>6. (FloorKept(h) /\ CapKept(h))' <=> (FloorKept(h) /\ CapKept(h))
      BY <3>4, <3>5 DEF FloorKept, CapKept
    <3> QED
      BY <3>1, <3>2, <3>3, <3>6 DEF WorkInv
  <2> QED
    BY <2>1, <2>2 DEF Alone
<1>8. ASSUME NEW h \in Handlers, handleUserDeny(h)
      PROVE  (Alone /\ \A g \in Handlers : WorkInv(g))'
  <2>1. PICK steps \in Seq(Statement) :
          Deactivating(steps) /\ work' = [work EXCEPT ![h] = steps]
    BY <1>8, DenyStep
  <2>2. OthersIdle(h) /\ work'[h] = steps
    BY <1>8, <2>1, DenyStep, FreeIsIdle DEF OthersIdle, TypeOK
  <2> QED
    BY <1>1, <2>1, <2>2, DeactivatingWork
<1> QED
  BY <1>2, <1>3, <1>5, <1>6, <1>7, <1>8, NextCases DEF Running

LEMMA AloneInit == Init => AloneInv
<1> SUFFICES ASSUME Init PROVE AloneInv
  OBVIOUS
<1>1. TypeOK
  BY InitType
<1>2. \A h \in Handlers : work[h] = <<>> /\ Len(work[h]) = 0
  BY EmptySeq DEF Init
<1>3. ASSUME NEW h \in Handlers PROVE WorkInv(h)
  BY <1>2 DEF WorkInv, InOrder, WorkRespectful, QuotaChecked, FloorKept, CapKept, Approving, Assigning
<1> QED
  BY <1>1, <1>2, <1>3 DEF AloneInv, Alone

LEMMA AloneNext == MaxBusy = 1 /\ AloneInv /\ [Next]_vars => AloneInv'
BY NextAlone, TypeNext DEF AloneInv

-----------------------------------------------------------------------------
(* What the invariant says of a step. *)

\* The first statement of a goroutine that has no report to insert.
LEMMA HeadIsRespectful ==
  ASSUME TypeOK, NEW h \in Handlers, work[h] # <<>>, WorkInv(h), Now(h).do \notin {"quota", "create"}
  PROVE  Respectful(Now(h))
<1>1. Now(h) = work[h][1] /\ 1 \in 1..Len(work[h])
  BY FirstStatement DEF TypeOK
<1>2. ~Reporting(work[h])
  BY ReportingHead
<1> QED
  BY <1>1, <1>2 DEF WorkInv, WorkRespectful

LEMMA OverruledStays ==
  ASSUME AloneInv, [Next]_vars, NEW k \in Keys, Overruled(k)
  PROVE  rows'[k] \in {None, rows[k]} \/ Cleared(k)
<1> USE DEF AloneInv
<1>1. CASE ~(\E h \in Handlers : CreateWFHRequest(h) \/ Write(h))
  BY <1>1, OtherRows DEF Overruled, Deleted, Appeared
<1>2. ASSUME NEW h \in Handlers, CreateWFHRequest(h) PROVE rows'[k] = rows[k]
  <2>1. PICK j \in Keys : j = Now(h).k
    BY <1>2, CreateStep
  <2>2. ASSUME rows[j] # None, isUserResurrectable(rows[j]), Written(j, "pending", None)
        PROVE  rows'[k] = rows[k]
    <3>2. j # k
      BY <2>2, NoneAssumption DEF Overruled, isUserResurrectable
    <3> QED
      BY <2>2, <3>2 DEF Written
  <2>3. CASE Inserted(j, "pending", "ad_hoc")
    BY <2>3, InsertedRow DEF Inserted, Overruled
  <2> QED
    BY <1>2, <2>1, <2>2, <2>3, CreateStep
<1>3. ASSUME NEW h \in Handlers, Write(h) PROVE rows'[k] = rows[k]
  <2>1. PICK j \in Keys : j = Now(h).k
    BY <1>3, WriteStep
  <2>2. CASE Now(h).do \in {"status", "deny", "withdraw"}
    <3>1. Respectful(Now(h))
      BY <1>3, <2>2, WriteStep, HeadIsRespectful
    <3>2. j # k
      BY <2>1, <2>2, <3>1 DEF Respectful
    <3>3. rows' = rows \/ \E s, by : Written(j, s, by)
      BY <1>3, <2>1, <2>2, WriteStep DEF Denied
    <3> QED
      BY <3>2, <3>3 DEF Written
  <2>3. CASE Inserted(j, "approved", "ad_hoc")
    BY <2>3, InsertedRow DEF Inserted, Overruled
  <2>4. CASE Inserted(j, "approved", "assigned") /\ j[2] >= today
    BY <2>4, InsertedRow DEF Inserted, Overruled
  <2> QED
    BY <1>3, <2>1, <2>2, <2>3, <2>4, WriteStep DEF Denied
<1> QED
  BY <1>1, <1>2, <1>3

\* A row becomes pending, or an existing one approved, by whom.
LEMMA PendingByRequest ==
  ASSUME TypeOK, [Next]_vars, NEW k \in Keys, ~IsPending(k), IsPending(k)'
  PROVE  \E h \in Handlers : CreateWFHRequest(h) /\ Now(h).k = k
<1>1. rows'[k] # rows[k] /\ ~Deleted(k) /\ ~(rows'[k].status = "approved") /\ rows'[k] # None
      /\ rows'[k].status = "pending"
  BY DEF IsPending, Deleted
<1>2. PICK h \in Handlers : CreateWFHRequest(h) \/ Write(h)
  BY <1>1, OtherRows, ClearedRow DEF IsPending, Cleared
<1>3. ~Write(h)
  <2>1. SUFFICES ASSUME Write(h) PROVE FALSE
    OBVIOUS
  <2>2. PICK j \in Keys : j = Now(h).k
    BY <2>1, WriteStep
  <2>3. \A by : \A s \in {"approved", "cancelled", "denied", "withdrawn"} : ~Written(j, s, by)
    BY <1>1 DEF Written
  <2>4. ~Inserted(j, "approved", "ad_hoc")
    BY <1>1, InsertedRow DEF Inserted
  <2>5. ~(Inserted(j, "approved", "assigned") /\ j[2] >= today)
    BY <1>1, InsertedRow DEF Inserted
  <2> QED
    BY <1>1, <2>1, <2>2, <2>3, <2>4, <2>5, WriteStep DEF Denied
<1>4. PICK j \in Keys : j = Now(h).k
  BY <1>2, <1>3, CreateStep
<1>5. Inserted(j, "pending", "ad_hoc") => j = k
  BY <1>1, InsertedRow
<1>6. Written(j, "pending", None) => j = k
  BY <1>1 DEF Written
<1> QED
  BY <1>1, <1>2, <1>3, <1>4, <1>5, <1>6, CreateStep

LEMMA ApprovedBySettlement ==
  ASSUME TypeOK, [Next]_vars, NEW k \in Keys, rows[k] # None, rows[k].status # "approved",
         rows'[k] # None, rows'[k].status = "approved"
  PROVE  \E h \in Handlers : Write(h) /\ Now(h).do = "status" /\ Now(h).s = "approved" /\ Now(h).k = k
<1>1. rows'[k] # rows[k] /\ ~Deleted(k) /\ ~Appeared(k)
  BY DEF Deleted, Appeared
<1>2. PICK h \in Handlers : CreateWFHRequest(h) \/ Write(h)
  BY <1>1, OtherRows, ClearedRow
<1>3. ~CreateWFHRequest(h)
  <2>1. SUFFICES ASSUME CreateWFHRequest(h) PROVE FALSE
    OBVIOUS
  <2>2. PICK j \in Keys : j = Now(h).k
    BY <2>1, CreateStep
  <2>3. ~Inserted(j, "pending", "ad_hoc")
    BY <1>1, InsertedRow
  <2>4. ~Written(j, "pending", None)
    BY <1>1 DEF Written
  <2> QED
    BY <1>1, <2>1, <2>2, <2>3, <2>4, CreateStep
<1>4. PICK j \in Keys : j = Now(h).k
  BY <1>2, <1>3, WriteStep
<1>5. \A by : \A s \in {"cancelled", "denied", "withdrawn"} : ~Written(j, s, by)
  BY <1>1 DEF Written
<1>6. \A by : Written(j, "approved", by) => j = k
  BY <1>1 DEF Written
<1>7. ~Inserted(j, "approved", "ad_hoc")
  BY <1>1, InsertedRow
<1>8. ~(Inserted(j, "approved", "assigned") /\ j[2] >= today)
  BY <1>1, InsertedRow
<1> QED
  BY <1>1, <1>2, <1>3, <1>4, <1>5, <1>6, <1>7, <1>8, WriteStep DEF Denied

\* Who is left when no more than X are away.
LEMMA Remaining ==
  ASSUME NEW team \in SUBSET Members, NEW X \in SUBSET Members, NEW n \in Nat,
         Cardinality(X) + n <= Cardinality(team),
         NEW S \in SUBSET team, team \ X \subseteq S
  PROVE  Cardinality(S) >= n /\ Cardinality(S) \in Nat
<1>1. /\ IsFiniteSet(team) /\ IsFiniteSet(X) /\ IsFiniteSet(S) /\ team \cap X \in SUBSET X
      /\ Cardinality(team) \in Nat /\ Cardinality(X) \in Nat /\ Cardinality(S) \in Nat
  BY Sizes
<1>2. Cardinality(team \ X) = Cardinality(team) - Cardinality(team \cap X)
  BY <1>1, FS_Difference
<1>3. Cardinality(team \cap X) <= Cardinality(X) /\ Cardinality(team \cap X) \in Nat
  <2>1. IsFiniteSet(team \cap X)
    BY <1>1, FS_Subset
  <2> QED
    BY <1>1, <2>1, FS_Subset, FS_CardinalityType
<1>4. Cardinality(team \ X) <= Cardinality(S) /\ Cardinality(team \ X) \in Nat
  <2>1. team \ X \in SUBSET S /\ team \ X \in SUBSET Members
    OBVIOUS
  <2> QED
    BY <1>1, <2>1, FS_Subset, Sizes
<1> QED
  BY <1>1, <1>2, <1>3, <1>4

-----------------------------------------------------------------------------
(* The theorems. *)

\* AdminDecisionStands (wfh_crud.go:105-116): what an administrator withdrew, no
\* request, settlement or reassignment brings back as long as the administrator has
\* an account; deleting that account does no more than to clear its name.
THEOREM AdminDecisionIsFinal ==
  ASSUME MaxBusy = 1
  PROVE  Spec => AdminDecisionStands
<1>1. AloneInv /\ [Next]_vars =>
        [\A k \in DOMAIN rows :
           (rows[k] # None /\ rows[k].status = "withdrawn" /\ rows[k].by \in Admins)
             => \/ rows'[k] \in {None, rows[k]}
                \/ /\ rows[k].by \in accounts \ accounts'
                   /\ rows'[k] = [rows[k] EXCEPT !.by = None]]_vars
  <2> SUFFICES ASSUME AloneInv, [Next]_vars, NEW k \in DOMAIN rows, Overruled(k)
               PROVE  rows'[k] \in {None, rows[k]} \/ Cleared(k)
    BY DEF Overruled, Cleared
  <2>1. k \in Keys
    BY DEF AloneInv, TypeOK, Keys
  <2> QED
    BY <2>1, OverruledStays
<1> QED
  BY <1>1, AloneInit, AloneNext, PTL DEF Spec, AdminDecisionStands

LEMMA QuotaStays ==
  ASSUME AloneInv, [Next]_vars, NEW m \in Members, NEW d \in Days,
         ~IsStatus(m, d, "pending"), IsStatus(m, d, "pending")'
  PROVE  Cardinality({e \in ComputePeriodBounds(d) :
                        /\ rows'[m, e] # None /\ rows'[m, e].origin # "assigned"
                        /\ rows'[m, e].status \in {"pending", "approved"}})
           <= MaxDaysPerPeriod
<1> DEFINE period == ComputePeriodBounds(d)
           S == GetWFHRequestsVoluntaryInPeriod(m, period)
           E == {e \in period : /\ rows'[m, e] # None /\ rows'[m, e].origin # "assigned"
                                /\ rows'[m, e].status \in {"pending", "approved"}}
           k == <<m, d>>
           f == [e \in E |-> <<m, e>>]
<1> USE DEF AloneInv
<1>1. k \in Keys /\ ~IsPending(k) /\ IsPending(k)'
  BY DEF Keys, IsPending, IsStatus
<1>2. PICK h \in Handlers : CreateWFHRequest(h) /\ Now(h).k = k
  BY <1>1, PendingByRequest
<1>3. \A j \in Keys : j # k => rows'[j] = rows[j]
  <2>1. ASSUME NEW i \in Keys, i = k, Inserted(i, "pending", "ad_hoc") \/ Written(i, "pending", None)
        PROVE  \A j \in Keys : j # i => rows'[j] = rows[j]
    BY <2>1, InsertedRow DEF Written
  <2>2. rows' = rows => \A j \in Keys : j # k => rows'[j] = rows[j]
    OBVIOUS
  <2> QED
    BY <1>1, <1>2, <2>1, <2>2, CreateStep
<1>4. Used(m, d) < MaxDaysPerPeriod
  <2>1. work[h] # <<>> /\ Now(h).do = "create" /\ Now(h) \in Statement
    BY <1>2, CreateStep, FirstStatement DEF TypeOK
  <2>2. Now(h) = Create(k)
    BY <1>2, <2>1 DEF Statement, Create
  <2> QED
    BY <1>1, <2>1, <2>2 DEF WorkInv, QuotaChecked
<1>5. Used(m, d) = Cardinality(S)
  BY DEF Used
<1>6. IsFiniteSet(S) /\ Cardinality(S) \in Nat
  <2>1. S \subseteq Keys
    BY DEF GetWFHRequestsVoluntaryInPeriod, GetWFHRequestsByMember, TypeOK, Keys
  <2>2. IsFiniteSet(Days)
    BY FS_Interval, WfhAssumption DEF Days
  <2>3. IsFiniteSet(Keys)
    BY <2>2, FS_Product, WfhAssumption DEF Keys
  <2> HIDE DEF S
  <2> QED
    BY <2>1, <2>3, FS_Subset, FS_CardinalityType
<1>7. f \in Injection(E, S \cup {k})
  <2>1. ASSUME NEW e \in E PROVE f[e] = <<m, e>> /\ <<m, e>> \in S \cup {k}
    <3>1. e \in period /\ period \subseteq Days /\ <<m, e>> \in Keys
      BY DEF ComputePeriodBounds, Keys
    <3>2. CASE <<m, e>> # k
      <4>1. rows'[<<m, e>>] = rows[<<m, e>>]
        BY <1>3, <3>1, <3>2
      <4>2. /\ rows[<<m, e>>] # None /\ rows[<<m, e>>].origin # "assigned"
            /\ rows[<<m, e>>].status \in {"pending", "approved"}
        BY <4>1
      <4> QED
        BY <3>1, <4>2 DEF GetWFHRequestsVoluntaryInPeriod, GetWFHRequestsByMember, IsVoluntary,
                          TypeOK, Keys
    <3> QED
      BY <3>2
  <2> HIDE DEF E, S, k
  <2>2. f \in [E -> S \cup {k}]
    BY <2>1
  <2>3. \A a, b \in E : f[a] = f[b] => a = b
    OBVIOUS
  <2> HIDE DEF f
  <2> QED
    BY <2>2, <2>3, Z3 DEF Injection, IsInjective
<1>8. IsFiniteSet(S \cup {k}) /\ Cardinality(S \cup {k}) <= Cardinality(S) + 1
      /\ Cardinality(S \cup {k}) \in Nat
  <2> HIDE DEF S, k
  <2> QED
    BY <1>6, FS_AddElement, FS_CardinalityType
<1>9. Cardinality(E) <= Cardinality(S \cup {k}) /\ Cardinality(E) \in Nat
  <2> HIDE DEF E, S, k, f
  <2> QED
    BY <1>7, <1>8, FS_Injection, FS_CardinalityType
<1>10. MaxDaysPerPeriod \in Nat
  BY WfhAssumption
<1>11. Cardinality(E) <= MaxDaysPerPeriod
  <2> HIDE DEF E, S, k
  <2> QED
    BY <1>4, <1>5, <1>6, <1>8, <1>9, <1>10
<1> QED
  BY <1>11

\* QuotaHeld (service.go:438): the quota that was checked is still there when the
\* request is inserted, or taken back.
THEOREM QuotaIsKept ==
  ASSUME MaxBusy = 1
  PROVE  Spec => QuotaHeld
<1>1. AloneInv /\ [Next]_vars =>
        [\A m \in Members, d \in Days :
           (~IsStatus(m, d, "pending") /\ IsStatus(m, d, "pending")')
             => Cardinality({e \in ComputePeriodBounds(d) :
                              /\ rows'[m, e] # None /\ rows'[m, e].origin # "assigned"
                              /\ rows'[m, e].status \in {"pending", "approved"}})
                  <= MaxDaysPerPeriod]_vars
  BY QuotaStays
<1> QED
  BY <1>1, AloneInit, AloneNext, PTL DEF Spec, QuotaHeld

LEMMA FloorArithmetic ==
  ASSUME NEW c \in Nat, NEW floor \in Nat, NEW t \in Nat, NEW p \in Nat, NEW q \in Nat,
         c >= floor, floor >= q, 100 * floor >= p * t
  PROVE  c >= q /\ 100 * c >= p * t
<1>1. p * t \in Nat
  OBVIOUS
<1>2. PICK n \in Nat : n = p * t
  BY <1>1
<1> QED
  BY <1>2

LEMMA FloorStays ==
  ASSUME AloneInv, [Next]_vars, NEW m \in Members, NEW d \in Days,
         NEW k \in Keys, k = <<m, d>>, rows[k] # None, rows[k].status # "approved",
         rows'[k] # None, rows'[k].status = "approved"
  PROVE  LET team == GetActiveTeamMembers
             onSite == {n \in team : <<n, d>> \notin leave /\ ~IsStatus(n, d, "approved")'}
         IN  /\ Cardinality(onSite) >= MinOnsiteAbsolute
             /\ 100 * Cardinality(onSite) >= MinOnsitePercentage * Cardinality(team)
<1> DEFINE team == GetActiveTeamMembers
           onSite == {n \in team : <<n, d>> \notin leave /\ ~IsStatus(n, d, "approved")'}
<1> USE DEF AloneInv
<1>1. PICK h \in Handlers : Write(h) /\ Now(h).do = "status" /\ Now(h).s = "approved" /\ Now(h).k = k
  BY ApprovedBySettlement
<1>2. Now(h) = work[h][1] /\ 1 \in 1..Len(work[h])
  <2>1. work[h] # <<>>
    BY <1>1, WriteStep
  <2> QED
    BY <2>1, FirstStatement DEF TypeOK
<1>3. m \in Approving(work[h], d)
  BY <1>1, <1>2 DEF Approving
<1> DEFINE X == Unavailable(d) \cup Approving(work[h], d)
<1>4. Cardinality(X) + MinOnsiteCount(TeamSize) <= Cardinality(team)
  BY <1>3 DEF WorkInv, FloorKept, TeamSize
<1>5. /\ TeamSize \in Nat /\ TeamSize = Cardinality(team)
      /\ MinOnsiteCount(TeamSize) \in Nat /\ MinOnsiteCount(TeamSize) >= MinOnsiteAbsolute
      /\ 100 * MinOnsiteCount(TeamSize) >= MinOnsitePercentage * TeamSize
  <2>1. TeamSize \in Nat /\ TeamSize = Cardinality(team)
    BY Sizes DEF TeamSize, GetActiveTeamMembers
  <2> QED
    BY <2>1, MinOnsiteType
<1>6. \A j \in Keys : j # k => rows'[j] = rows[j]
  <2>1. \E by : Written(k, "approved", by)
    BY <1>1, WriteStep DEF Denied
  <2> QED
    BY <2>1 DEF Written
<1>7. team \ X \subseteq onSite
  <2> SUFFICES ASSUME NEW n \in team, n \notin X
               PROVE  <<n, d>> \notin leave /\ ~IsStatus(n, d, "approved")'
    OBVIOUS
  <2>1. n \in Members /\ <<n, d>> \in Keys
    BY DEF GetActiveTeamMembers, Keys
  <2>2. <<n, d>> \notin leave /\ ~IsStatus(n, d, "approved")
    BY <2>1 DEF Unavailable, leaveMemberIDsForDate, GetWFHRequestsByDateAndStatus
  <2>3. n # m
    BY <1>3
  <2>4. rows'[<<n, d>>] = rows[<<n, d>>]
    BY <1>6, <2>1, <2>3
  <2> QED
    BY <2>2, <2>4 DEF IsStatus
<1>8. team \in SUBSET Members /\ X \in SUBSET Members /\ onSite \in SUBSET team
  BY DEF GetActiveTeamMembers, Unavailable, leaveMemberIDsForDate, GetWFHRequestsByDateAndStatus,
         Approving
<1>9. Cardinality(onSite) >= MinOnsiteCount(TeamSize) /\ Cardinality(onSite) \in Nat
  <2> HIDE DEF team, X, onSite
  <2> QED
    BY <1>4, <1>5, <1>7, <1>8, Remaining
<1>10. MinOnsiteAbsolute \in Nat /\ MinOnsitePercentage \in Nat
  BY WfhAssumption
<1>11. /\ Cardinality(onSite) >= MinOnsiteAbsolute
       /\ 100 * Cardinality(onSite) >= MinOnsitePercentage * TeamSize
  <2> HIDE DEF onSite
  <2>1. PICK c \in Nat, floor \in Nat, t \in Nat :
          c = Cardinality(onSite) /\ floor = MinOnsiteCount(TeamSize) /\ t = TeamSize
    BY <1>5, <1>9
  <2>2. PICK p \in Nat : p = MinOnsitePercentage
    BY <1>10
  <2>3. c >= floor /\ floor >= MinOnsiteAbsolute /\ 100 * floor >= p * t
    BY <1>5, <1>9, <2>1, <2>2
  <2>4. c >= MinOnsiteAbsolute /\ 100 * c >= p * t
    BY <1>10, <2>3, FloorArithmetic
  <2> QED
    BY <2>1, <2>2, <2>4
<1> QED
  BY <1>5, <1>11

\* FloorHeld (service.go:471): an approval leaves the floor standing, also the last
\* of many that were decided together.
THEOREM FloorIsKept ==
  ASSUME MaxBusy = 1
  PROVE  Spec => FloorHeld
<1>1. AloneInv /\ [Next]_vars =>
        [\A m \in Members, d \in Days :
           (rows[m, d] # None /\ ~IsStatus(m, d, "approved") /\ IsStatus(m, d, "approved")')
             => LET team == GetActiveTeamMembers
                    onSite == {n \in team : <<n, d>> \notin leave /\ ~IsStatus(n, d, "approved")'}
                IN /\ Cardinality(onSite) >= MinOnsiteAbsolute
                   /\ 100 * Cardinality(onSite) >= MinOnsitePercentage * Cardinality(team)]_vars
  <2> SUFFICES ASSUME AloneInv, [Next]_vars, NEW m \in Members, NEW d \in Days,
                      rows[m, d] # None, ~IsStatus(m, d, "approved"), IsStatus(m, d, "approved")'
               PROVE  LET team == GetActiveTeamMembers
                          onSite == {n \in team : <<n, d>> \notin leave /\ ~IsStatus(n, d, "approved")'}
                      IN /\ Cardinality(onSite) >= MinOnsiteAbsolute
                         /\ 100 * Cardinality(onSite) >= MinOnsitePercentage * Cardinality(team)
    OBVIOUS
  <2>1. PICK k \in Keys : k = <<m, d>>
    BY DEF Keys
  <2>2. /\ rows[k] # None /\ rows[k].status # "approved"
        /\ rows'[k] # None /\ rows'[k].status = "approved"
    BY <2>1 DEF IsStatus
  <2> QED
    BY <2>1, <2>2, FloorStays
<1> QED
  BY <1>1, AloneInit, AloneNext, PTL DEF Spec, FloorHeld

\* Only one goroutine runs, so a pick is written by the one that planned it.
LEMMA PickWritten ==
  ASSUME MaxBusy = 1, AloneInv, [Next]_vars, NEW h \in Handlers, Doing(h, "assign"), rows' # rows
  PROVE  Write(h)
<1> USE DEF AloneInv
<1>1. work[h] # <<>> /\ Now(h).do = "assign"
  BY DEF Doing, Now
<1>2. ASSUME NEW g \in Handlers, Running(g) PROVE g = h
  BY <1>1, <1>2, RunningStep DEF Alone
<1>3. ASSUME NEW g \in Handlers, MemberRequest(g) \/ AdminRequest(g) PROVE FALSE
  BY <1>3, MemberRequestStep, AdminRequestStep DEF Started, tables
<1>4. ASSUME NEW g \in Handlers, Surroundings(g) PROVE FALSE
  BY <1>1, <1>4, SurroundingsStep, FreeIsIdle
<1>5. ~(Tick \/ Restart \/ UNCHANGED vars)
  BY DEF Tick, Restart, vars, tables
<1>7. ASSUME NEW g \in Handlers, handleUserDeny(g) PROVE FALSE
  BY <1>1, <1>7, DenyStep, FreeIsIdle
<1>6. Running(h)
  BY <1>2, <1>3, <1>4, <1>5, <1>7, NextCases DEF Running
<1> QED
  BY <1>1, <1>6, DeactivateStep, QuotaStep, CreateStep, ReleaseStep, MaterializeStep, LoadStep, SettleStep,
     PickerStep, FinalSteps, FailStep DEF Running, tables

LEMMA CapStays ==
  ASSUME MaxBusy = 1, AloneInv, [Next]_vars, NEW h \in Handlers, NEW d \in Days,
         Doing(h, "assign"), Now(h).k[2] = d, rows' # rows
  PROVE  Cardinality({n \in GetActiveTeamMembers \ Permanent :
                        <<n, d>> \notin leave /\ ~IsStatus(n, d, "approved")'}) >= SeatCap
<1> DEFINE team == GetActiveTeamMembers
           left == {n \in team \ Permanent : <<n, d>> \notin leave /\ ~IsStatus(n, d, "approved")'}
           X == Away(d) \cup Assigning(work[h], d)
<1> USE DEF AloneInv
<1>1. Write(h) /\ work[h] # <<>> /\ Now(h).do = "assign"
  BY PickWritten DEF Doing, Now
<1>2. Now(h) = work[h][1] /\ 1 \in 1..Len(work[h])
  BY <1>1, FirstStatement DEF TypeOK
<1>3. PICK j \in Keys : j = Now(h).k
  BY <1>1, WriteStep
<1>4. PICK m \in Members : j = <<m, d>>
  BY <1>3 DEF Keys
<1>5. m \in Assigning(work[h], d)
  BY <1>1, <1>2, <1>3, <1>4 DEF Assigning
<1>6. Cardinality(X) + SeatCap <= Cardinality(team)
  BY <1>5 DEF WorkInv, CapKept, TeamSize
<1>7. \A k \in Keys : k # j => rows'[k] = rows[k]
  <2>1. Inserted(j, "approved", "assigned") /\ j[2] >= today
    BY <1>1, <1>3, WriteStep DEF Denied
  <2> QED
    BY <2>1, InsertedRow
<1>8. team \ X \subseteq left
  <2> SUFFICES ASSUME NEW n \in team, n \notin X
               PROVE  n \notin Permanent /\ <<n, d>> \notin leave /\ ~IsStatus(n, d, "approved")'
    OBVIOUS
  <2>1. n \in Members /\ <<n, d>> \in Keys
    BY DEF GetActiveTeamMembers, Keys
  <2>2. n \notin Permanent
    BY DEF Away, permanentWFHMemberIDs
  <2>3. <<n, d>> \notin leave /\ ~IsStatus(n, d, "approved")
    BY <2>1 DEF Away, Unavailable, leaveMemberIDsForDate, GetWFHRequestsByDateAndStatus
  <2>4. <<n, d>> # j
    BY <1>4, <1>5
  <2>5. rows'[<<n, d>>] = rows[<<n, d>>]
    BY <1>7, <2>1, <2>4
  <2> QED
    BY <2>2, <2>3, <2>5 DEF IsStatus
<1>9. team \in SUBSET Members /\ X \in SUBSET Members /\ left \in SUBSET team
  BY DEF GetActiveTeamMembers, Away, permanentWFHMemberIDs, Unavailable, leaveMemberIDsForDate,
         GetWFHRequestsByDateAndStatus, Assigning
<1>10. SeatCap \in Nat
  BY WfhAssumption
<1>11. Cardinality(left) >= SeatCap
  <2> HIDE DEF team, X, left
  <2> QED
    BY <1>6, <1>8, <1>9, <1>10, Remaining
<1> QED
  BY <1>11

\* PickerStopsAtTheCap (service_picker.go:56): every assigned day that is written
\* leaves as many members as there are seats.
THEOREM CapIsReached ==
  ASSUME MaxBusy = 1
  PROVE  Spec => PickerStopsAtTheCap
<1>1. AloneInv /\ [Next]_vars =>
        [\A h \in Handlers, d \in Days :
           (Doing(h, "assign") /\ Now(h).k[2] = d /\ work'[h] = Tail(work[h]) /\ rows' # rows)
             => Cardinality({n \in GetActiveTeamMembers \ Permanent :
                               <<n, d>> \notin leave /\ ~IsStatus(n, d, "approved")'})
                  >= SeatCap]_vars
  BY CapStays
<1> QED
  BY <1>1, AloneInit, AloneNext, PTL DEF Spec, PickerStopsAtTheCap

=============================================================================
