-------------------------- MODULE RotaRepairProofs --------------------------
(***************************************************************************)
(* The proofs that schedule maintenance repairs what it finds: every day   *)
(* of the window is assigned and no cover is stale when EnsureSchedule     *)
(* ends, a reported leave is covered when its request ends, after a        *)
(* restart every leave is, and ReassignCovers run twice on a steady rota   *)
(* chooses the same covers.                                                *)
(***************************************************************************)
EXTENDS RotaProofs, MCReassign

-----------------------------------------------------------------------------
(* What is left of a request after one of its statements. *)

\* The statements behind the first one.
Rest(q) == {q[i] : i \in 2..Len(q)}

\* A statement of request h was run and those of S come in its place.
Continues(h, S, ms) ==
  /\ work[h].todo # <<>> /\ Now(h) \in Range(work[h].todo)
  /\ \A g \in Handlers : g # h => work'[g] = work[g]
  /\ work'[h].job = work[h].job /\ work'[h].about = work[h].about
  /\ work'[h].queue = work[h].queue /\ work'[h].failed = work[h].failed
  /\ work'[h].team = ms
  /\ \/ work'[h].anchor = work[h].anchor
     \/ Now(h).do = "slot" /\ work'[h].anchor = SlotPosition(h)
  /\ S \subseteq Range(work'[h].todo) /\ Range(work'[h].todo) \subseteq S \cup Rest(work[h].todo)
  /\ Range(work[h].todo) \subseteq {Now(h)} \cup Range(work'[h].todo)
  /\ \A t \in Rest(work'[h].todo) : t.do = "repoint" => t \in Rest(work[h].todo)

LEMMA RangeOfLists ==
  ASSUME NEW q, IsList(q)
  PROVE  /\ Range(q) = {q[i] : i \in 1..Len(q)} /\ Rest(q) \subseteq Range(q)
         /\ q # <<>> => Range(q) = {q[1]} \cup Rest(q)
<1>1. DOMAIN q = 1..Len(q) /\ Len(q) \in Nat /\ (q # <<>> => Len(q) \in Nat \ {0})
  BY ListLength
<1>2. Range(q) = {q[i] : i \in 1..Len(q)}
  BY <1>1 DEF Range
<1>3. 2..Len(q) \subseteq 1..Len(q)
  BY <1>1
<1>4. ASSUME q # <<>>
      PROVE  1..Len(q) = {1} \cup 2..Len(q)
  BY <1>1, <1>4
<1>5. ASSUME q # <<>>
      PROVE  Range(q) = {q[1]} \cup Rest(q)
  <2>1. \A x : x \in Range(q) <=> \E i \in 1..Len(q) : x = q[i]
    BY <1>2
  <2>2. \A x : x \in Rest(q) <=> \E i \in 2..Len(q) : x = q[i]
    BY DEF Rest
  <2>3. \A x : x \in Range(q) <=> x \in {q[1]} \cup Rest(q)
    BY <1>4, <1>5, <2>1, <2>2
  <2> QED
    BY <2>3
<1> QED
  BY <1>2, <1>3, <1>5 DEF Rest

LEMMA RangesOfShortLists ==
  /\ Range(<<>>) = {}
  /\ \A a : Range(<<a>>) = {a}
  /\ \A a, b : Range(<<a, b>>) = {a, b}
  /\ \A a, b, c : Range(<<a, b, c>>) = {a, b, c}
<1>1. Range(<<>>) = {}
  <2> DEFINE q == <<>>
  <2>1. IsList(q) /\ Len(q) = 0
    BY ShortLists
  <2> HIDE DEF q
  <2>2. Range(q) = {}
    BY <2>1, RangeOfLists
  <2> QED
    BY <2>2 DEF q
<1>2. ASSUME NEW a
      PROVE  Range(<<a>>) = {a}
  <2> DEFINE q == <<a>>
  <2>1. IsList(q) /\ Len(q) = 1 /\ q[1] = a
    BY ShortLists
  <2> HIDE DEF q
  <2>2. 1..1 = {1}
    OBVIOUS
  <2>3. Range(q) = {a}
    BY <2>1, <2>2, RangeOfLists
  <2> QED
    BY <2>3 DEF q
<1>3. ASSUME NEW a, NEW b
      PROVE  Range(<<a, b>>) = {a, b}
  <2> DEFINE q == <<a, b>>
  <2>1. IsList(q) /\ Len(q) = 2 /\ q[1] = a /\ q[2] = b
    BY ShortLists
  <2> HIDE DEF q
  <2>2. 1..2 = {1, 2}
    OBVIOUS
  <2>3. Range(q) = {a, b}
    BY <2>1, <2>2, RangeOfLists
  <2> QED
    BY <2>3 DEF q
<1>4. ASSUME NEW a, NEW b, NEW c
      PROVE  Range(<<a, b, c>>) = {a, b, c}
  <2> DEFINE q == <<a, b, c>>
  <2>1. IsList(q) /\ Len(q) = 3 /\ q[1] = a /\ q[2] = b /\ q[3] = c
    BY ShortLists
  <2> HIDE DEF q
  <2>2. 1..3 = {1, 2, 3}
    OBVIOUS
  <2>3. Range(q) = {a, b, c}
    BY <2>1, <2>2, RangeOfLists
  <2> QED
    BY <2>3 DEF q
<1> QED
  BY <1>1, <1>2, <1>3, <1>4

LEMMA GoesOnRanges ==
  ASSUME NEW w, IsList(w.todo), w.todo # <<>>, NEW v, IsList(v.todo), NEW steps, IsList(steps),
         GoesOn(w, v, steps)
  PROVE  /\ Range(steps) \subseteq Range(v.todo) /\ Range(v.todo) \subseteq Range(steps) \cup Rest(w.todo)
         /\ Range(w.todo) \subseteq {w.todo[1]} \cup Range(v.todo)
         /\ Rest(v.todo) \subseteq Rest(steps) \cup Rest(w.todo)
<1>1. /\ Len(steps) \in Nat /\ Len(w.todo) \in Nat \ {0}
      /\ Len(v.todo) = Len(steps) + Len(w.todo) - 1
      /\ \A i \in 1..Len(steps) : v.todo[i] = steps[i]
      /\ \A i \in 1..Len(v.todo) : i > Len(steps) => v.todo[i] = w.todo[i - Len(steps) + 1]
  BY DEF GoesOn
<1>2. /\ Range(steps) = {steps[i] : i \in 1..Len(steps)}
      /\ Range(v.todo) = {v.todo[i] : i \in 1..Len(v.todo)}
      /\ Range(w.todo) = {w.todo[1]} \cup Rest(w.todo)
  BY RangeOfLists
<1>3. ASSUME NEW x \in Range(steps)
      PROVE  x \in Range(v.todo)
  <2>1. PICK i \in 1..Len(steps) : x = steps[i]
    BY <1>2
  <2>2. i \in 1..Len(v.todo) /\ v.todo[i] = x
    BY <1>1, <2>1
  <2> QED
    BY <1>2, <2>2
<1>4. ASSUME NEW i \in 1..Len(v.todo), i > Len(steps)
      PROVE  v.todo[i] \in Rest(w.todo)
  <2> DEFINE j == i - Len(steps) + 1
  <2>1. j \in 2..Len(w.todo) /\ v.todo[i] = w.todo[j]
    BY <1>1, <1>4
  <2> HIDE DEF j
  <2> QED
    BY <2>1 DEF Rest
<1>5. ASSUME NEW x \in Range(v.todo)
      PROVE  x \in Range(steps) \cup Rest(w.todo)
  <2>1. PICK i \in 1..Len(v.todo) : x = v.todo[i]
    BY <1>2
  <2>2. CASE i > Len(steps)
    BY <1>4, <2>1, <2>2
  <2>3. CASE ~(i > Len(steps))
    <3>1. i \in 1..Len(steps)
      BY <1>1, <2>3
    <3> QED
      BY <1>1, <1>2, <2>1, <3>1
  <2> QED
    BY <2>2, <2>3
<1>6. ASSUME NEW x \in Rest(w.todo)
      PROVE  x \in Range(v.todo)
  <2>1. PICK j \in 2..Len(w.todo) : x = w.todo[j]
    BY DEF Rest
  <2> DEFINE i == j + Len(steps) - 1
  <2>2. i \in 1..Len(v.todo) /\ i > Len(steps) /\ i - Len(steps) + 1 = j
    BY <1>1, <2>1
  <2> HIDE DEF i
  <2>3. v.todo[i] = x
    BY <1>1, <2>1, <2>2
  <2> QED
    BY <1>2, <2>2, <2>3
<1>7. ASSUME NEW x \in Rest(v.todo)
      PROVE  x \in Rest(steps) \cup Rest(w.todo)
  <2>1. PICK i \in 2..Len(v.todo) : x = v.todo[i]
    BY DEF Rest
  <2>2. i \in 1..Len(v.todo)
    BY <1>1, <2>1
  <2>3. CASE i > Len(steps)
    BY <1>4, <2>1, <2>2, <2>3
  <2>4. CASE ~(i > Len(steps))
    <3>1. i \in 2..Len(steps) /\ i \in 1..Len(steps)
      BY <1>1, <2>1, <2>4
    <3>2. x = steps[i]
      BY <1>1, <2>1, <3>1
    <3> QED
      BY <3>1, <3>2 DEF Rest
  <2> QED
    BY <2>3, <2>4
<1> QED
  BY <1>2, <1>3, <1>5, <1>6, <1>7

LEMMA ThenContinues ==
  ASSUME TodoInv, NEW h \in Handlers, work[h].todo # <<>>, NEW steps, IsList(steps), Then(h, steps),
         \A t \in Rest(steps) : t.do # "repoint"
  PROVE  Continues(h, Range(steps), work[h].team)
<1> DEFINE w == work[h]
           v == work'[h]
<1>1. WorkOK
  BY DEF TodoInv
<1>2. /\ WorkOK' /\ GoesOn(w, v, steps) /\ Now(h) = w.todo[1]
      /\ v = [w EXCEPT !.todo = v.todo]
  BY <1>1, ThenRuns
<1>3. \A g \in Handlers : g # h => work'[g] = work[g]
  BY <1>1, OthersWait DEF Then
<1>4. IsRequest(w) /\ IsList(w.todo) /\ IsList(v.todo)
  BY <1>1, <1>2 DEF WorkOK, IsRequest
<1> HIDE DEF w, v
<1>5. /\ v.job = w.job /\ v.about = w.about /\ v.queue = w.queue /\ v.failed = w.failed
      /\ v.team = w.team /\ v.anchor = w.anchor
  <2> DEFINE todo == v.todo
  <2>1. v = [w EXCEPT !.todo = todo]
    BY <1>2
  <2> HIDE DEF todo
  <2>2. v = [job |-> w.job, about |-> w.about, todo |-> todo, queue |-> w.queue,
             team |-> w.team, anchor |-> w.anchor, failed |-> w.failed]
    BY ONLY <1>4, <2>1, RequestFields
  <2> QED
    BY <2>2
<1>6. w.todo # <<>>
  BY DEF w
<1>7. /\ Range(steps) \subseteq Range(v.todo) /\ Range(v.todo) \subseteq Range(steps) \cup Rest(w.todo)
      /\ Range(w.todo) \subseteq {w.todo[1]} \cup Range(v.todo)
      /\ Rest(v.todo) \subseteq Rest(steps) \cup Rest(w.todo)
  BY <1>2, <1>4, <1>6, GoesOnRanges
<1>8. Now(h) \in Range(w.todo)
  BY <1>2, <1>4, <1>6, RangeOfLists
<1> QED
  BY <1>2, <1>3, <1>5, <1>6, <1>7, <1>8 DEF Continues, w, v

LEMMA ContinuesWithNothing ==
  ASSUME TodoInv, NEW h \in Handlers, work[h].todo # <<>>, Then(h, <<>>)
  PROVE  Continues(h, {}, work[h].team)
<1> DEFINE q == <<>>
<1>1. IsList(q) /\ Len(q) = 0 /\ Range(q) = {} /\ Then(h, q)
  BY ShortLists, RangesOfShortLists
<1> HIDE DEF q
<1>2. Rest(q) = {}
  BY <1>1 DEF Rest
<1>3. Continues(h, Range(q), work[h].team)
  BY <1>1, <1>2, ThenContinues
<1> QED
  BY <1>1, <1>3

LEMMA ContinuesWithOne ==
  ASSUME TodoInv, NEW h \in Handlers, work[h].todo # <<>>, NEW a, Then(h, <<a>>)
  PROVE  Continues(h, {a}, work[h].team)
<1> DEFINE q == <<a>>
<1>1. IsList(q) /\ Len(q) = 1 /\ Range(q) = {a} /\ Then(h, q)
  BY ShortLists, RangesOfShortLists
<1> HIDE DEF q
<1>2. Rest(q) = {}
  BY <1>1 DEF Rest
<1>3. Continues(h, Range(q), work[h].team)
  BY <1>1, <1>2, ThenContinues
<1> QED
  BY <1>1, <1>3

LEMMA ContinuesWithList ==
  ASSUME TodoInv, NEW h \in Handlers, work[h].todo # <<>>, NEW q, IsList(q), Then(h, q),
         \A t \in Range(q) : t.do # "repoint"
  PROVE  Continues(h, Range(q), work[h].team)
<1>1. Rest(q) \subseteq Range(q)
  BY RangeOfLists
<1> QED
  BY <1>1, ThenContinues

LEMMA ContinuesWithTwo ==
  ASSUME TodoInv, NEW h \in Handlers, work[h].todo # <<>>, NEW a, NEW b, Then(h, <<a, b>>),
         a.do # "repoint", b.do # "repoint"
  PROVE  Continues(h, {a, b}, work[h].team)
<1> DEFINE q == <<a, b>>
<1>1. IsList(q) /\ Range(q) = {a, b} /\ Then(h, q)
  BY ShortLists, RangesOfShortLists
<1> HIDE DEF q
<1>2. Continues(h, Range(q), work[h].team)
  BY <1>1, ContinuesWithList
<1> QED
  BY <1>1, <1>2

LEMMA ContinuesWithThree ==
  ASSUME TodoInv, NEW h \in Handlers, work[h].todo # <<>>, NEW a, NEW b, NEW c, Then(h, <<a, b, c>>),
         a.do # "repoint", b.do # "repoint", c.do # "repoint"
  PROVE  Continues(h, {a, b, c}, work[h].team)
<1> DEFINE q == <<a, b, c>>
<1>1. IsList(q) /\ Range(q) = {a, b, c} /\ Then(h, q)
  BY ShortLists, RangesOfShortLists
<1> HIDE DEF q
<1>2. Continues(h, Range(q), work[h].team)
  BY <1>1, ContinuesWithList
<1> QED
  BY <1>1, <1>2

\* The same when the request takes its copy of the team.
LEMMA ReplacedContinues ==
  ASSUME TodoInv, NEW h \in Handlers, work[h].todo # <<>>, NEW steps, IsList(steps), NEW ms, WorkOK',
         GoesOn(work[h], work'[h], steps), Now(h) = work[h].todo[1],
         work'[h] = [work[h] EXCEPT !.team = ms, !.todo = work'[h].todo],
         \A g \in Handlers : g # h => work'[g] = work[g],
         \A t \in Rest(steps) : t.do # "repoint"
  PROVE  Continues(h, Range(steps), ms)
<1> DEFINE w == work[h]
           v == work'[h]
<1>4. IsRequest(w) /\ IsList(w.todo) /\ IsList(v.todo)
  BY DEF WorkOK, IsRequest, TodoInv
<1>2. GoesOn(w, v, steps) /\ Now(h) = w.todo[1] /\ w.todo # <<>>
  OBVIOUS
<1> DEFINE todo == v.todo
<1>1. v = [w EXCEPT !.team = ms, !.todo = todo]
  OBVIOUS
<1> HIDE DEF w, v, todo
<1>5. /\ v.job = w.job /\ v.about = w.about /\ v.queue = w.queue /\ v.failed = w.failed
      /\ v.team = ms /\ v.anchor = w.anchor
  <2>2. v = [job |-> w.job, about |-> w.about, todo |-> todo, queue |-> w.queue,
             team |-> ms, anchor |-> w.anchor, failed |-> w.failed]
    BY ONLY <1>4, <1>1, RequestFields
  <2> QED
    BY <2>2
<1>7. /\ Range(steps) \subseteq Range(v.todo) /\ Range(v.todo) \subseteq Range(steps) \cup Rest(w.todo)
      /\ Range(w.todo) \subseteq {w.todo[1]} \cup Range(v.todo)
      /\ Rest(v.todo) \subseteq Rest(steps) \cup Rest(w.todo)
  BY <1>2, <1>4, GoesOnRanges
<1>8. Now(h) \in Range(w.todo)
  BY <1>2, <1>4, RangeOfLists
<1> QED
  BY <1>2, <1>5, <1>7, <1>8 DEF Continues, w, v

-----------------------------------------------------------------------------
(* What each statement leaves to do, and what it read. *)

LEMMA IndexRuns ==
  ASSUME TodoInv, NEW h \in Handlers, BuildLeaveIndex(h)
  PROVE  /\ Now(h).do = "index" /\ UNCHANGED <<tables, bounds>>
         /\ \E s : /\ Continues(h, {s}, work[h].team)
                   /\ s.do = "compare" /\ s.days = Now(h).days
                   /\ \A d \in s.days : s.away[d] = OnLeave(d)
<1> DEFINE t == Now(h)
           s == [do |-> "compare", days |-> t.days, away |-> [d \in t.days |-> OnLeave(d)]]
<1>1. work[h].todo # <<>> /\ t.do = "index" /\ UNCHANGED <<tables, bounds>>
  BY DEF BuildLeaveIndex, Doing, Now
<1> HIDE DEF t
<1>2. Then(h, <<s>>)
  BY Zenon DEF BuildLeaveIndex, t
<1>3. s.do = "compare" /\ s.days = t.days /\ \A d \in s.days : s.away[d] = OnLeave(d)
  OBVIOUS
<1> HIDE DEF s
<1>4. Continues(h, {s}, work[h].team)
  BY <1>1, <1>2, ContinuesWithOne
<1> QED
  BY <1>1, <1>3, <1>4 DEF t

LEMMA CompareRuns ==
  ASSUME TodoInv, NEW h \in Handlers, FindStale(h)
  PROVE  /\ Now(h).do = "compare" /\ UNCHANGED <<tables, bounds>>
         /\ \E S : /\ Continues(h, S, work[h].team)
                   /\ \A s \in S : s.do = "drop" /\ s.d \in StaleDays(h) /\ s.id = cover[s.d].id
                   /\ \A d \in StaleDays(h) : \E s \in S : s.d = d
<1>1. work[h].todo # <<>> /\ Now(h).do = "compare" /\ UNCHANGED <<tables, bounds>>
  BY DEF FindStale, Doing, Now
<1> DEFINE D == StaleDays(h)
           step == Drops(D)
<1>2. PICK q : Then(h, q) /\ RunsOver(q, D, step)
  BY FindStaleRuns
<1>3. \A d \in D : step[d].do = "drop" /\ step[d].d = d /\ step[d].id = cover[d].id
  BY DEF Drops
<1> HIDE DEF D, step
<1>4. IsList(q) /\ Range(q) = {q[i] : i \in 1..Len(q)}
  BY <1>2, RangeOfLists DEF RunsOver
<1>5. \A s \in Range(q) : s.do = "drop" /\ s.d \in D /\ s.id = cover[s.d].id
  BY <1>2, <1>3, <1>4 DEF RunsOver
<1>6. \A d \in D : \E s \in Range(q) : s.d = d
  BY <1>2, <1>3, <1>4 DEF RunsOver
<1>7. Continues(h, Range(q), work[h].team)
  BY <1>1, <1>2, <1>4, <1>5, ContinuesWithList
<1> QED
  BY <1>1, <1>5, <1>6, <1>7 DEF D

\* The statements that are followed by no other.
LEMMA WritesRun ==
  ASSUME TodoInv, NEW h \in Handlers
  PROVE  /\ DropCover(h) => Now(h).do = "drop" /\ Continues(h, {}, work[h].team)
         /\ DeleteAssignmentsInRange(h) => Now(h).do = "wipe" /\ Continues(h, {}, work[h].team)
         /\ AdvanceR1(h) => Now(h).do = "advance" /\ Continues(h, {}, work[h].team)
         /\ UpdateLeaveStatus(h) => Now(h).do = "status" /\ Continues(h, {}, work[h].team)
         /\ DeleteLeaveRecord(h) => Now(h).do = "delete" /\ Continues(h, {}, work[h].team)
<1>1. /\ DropCover(h) => Doing(h, "drop") /\ Then(h, <<>>)
      /\ DeleteAssignmentsInRange(h) => Doing(h, "wipe") /\ Then(h, <<>>)
      /\ AdvanceR1(h) => Doing(h, "advance") /\ Then(h, <<>>)
      /\ UpdateLeaveStatus(h) => Doing(h, "status") /\ Then(h, <<>>)
      /\ DeleteLeaveRecord(h) => Doing(h, "delete") /\ Then(h, <<>>)
  BY Zenon DEF DropCover, DeleteAssignmentsInRange, AdvanceR1, UpdateLeaveStatus, DeleteLeaveRecord
<1> QED
  BY <1>1, ContinuesWithNothing DEF Doing, Now

LEMMA RangeOfJoin ==
  ASSUME NEW s, IsList(s), NEW t, IsList(t)
  PROVE  Range(s \o t) = Range(s) \cup Range(t)
<1> DEFINE q == s \o t
<1>1. /\ IsList(q) /\ Len(q) = Len(s) + Len(t)
      /\ \A i \in 1..Len(s) : q[i] = s[i]
      /\ \A i \in 1..Len(t) : q[Len(s) + i] = t[i]
  BY ListsJoin
<1>2. Len(s) \in Nat /\ Len(t) \in Nat
  BY ListLength
<1> HIDE DEF q
<1>3. /\ Range(q) = {q[i] : i \in 1..Len(q)}
      /\ Range(s) = {s[i] : i \in 1..Len(s)} /\ Range(t) = {t[i] : i \in 1..Len(t)}
  BY <1>1, RangeOfLists
<1>4. ASSUME NEW x \in Range(q)
      PROVE  x \in Range(s) \cup Range(t)
  <2>1. PICK i \in 1..Len(q) : x = q[i]
    BY <1>3
  <2>2. CASE i \in 1..Len(s)
    BY <1>1, <1>3, <2>1, <2>2
  <2>3. CASE i \notin 1..Len(s)
    <3> DEFINE j == i - Len(s)
    <3>1. j \in 1..Len(t) /\ i = Len(s) + j
      BY <1>1, <1>2, <2>3
    <3> HIDE DEF j
    <3> QED
      BY <1>1, <1>3, <2>1, <3>1
  <2> QED
    BY <2>2, <2>3
<1>5. ASSUME NEW i \in 1..Len(s)
      PROVE  s[i] \in Range(q)
  <2>1. i \in 1..Len(q)
    BY <1>1, <1>2
  <2> QED
    BY <1>1, <1>3, <2>1
<1>6. ASSUME NEW i \in 1..Len(t)
      PROVE  t[i] \in Range(q)
  <2> DEFINE j == Len(s) + i
  <2>1. j \in 1..Len(q) /\ q[j] = t[i]
    BY <1>1, <1>2
  <2> HIDE DEF j
  <2> QED
    BY <1>3, <2>1
<1> QED
  BY <1>3, <1>4, <1>5, <1>6 DEF q

LEMMA DatesRun ==
  ASSUME TodoInv, NEW h \in Handlers, GetDatesWithAssignments(h)
  PROVE  /\ Now(h).do = "dates" /\ UNCHANGED <<tables, bounds>>
         /\ \E s : /\ Continues(h, {s}, work[h].team)
                   /\ s.do = "members" /\ s.days = Unassigned(Now(h).days) /\ ~s.wipe
<1> DEFINE t == Now(h)
           no == FALSE
           s == [do |-> "members", days |-> Unassigned(t.days), wipe |-> no]
<1>1. work[h].todo # <<>> /\ t.do = "dates" /\ UNCHANGED <<tables, bounds>>
  BY DEF GetDatesWithAssignments, Doing, Now
<1> HIDE DEF t
<1>2. Then(h, <<s>>)
  BY Zenon DEF GetDatesWithAssignments, t
<1>3. ~no
  OBVIOUS
<1> HIDE DEF no
<1>4. s.do = "members" /\ s.days = Unassigned(t.days) /\ ~s.wipe
  BY <1>3
<1> HIDE DEF s
<1>5. Continues(h, {s}, work[h].team)
  BY <1>1, <1>2, ContinuesWithOne
<1> QED
  BY <1>1, <1>4, <1>5 DEF t

LEMMA MembersRun ==
  ASSUME TodoInv, NEW h \in Handlers, GetMembers(h)
  PROVE  /\ Now(h).do = "members" /\ UNCHANGED <<tables, bounds>>
         /\ \/ Abort(h)
            \/ \E S : /\ Continues(h, S, team)
                      /\ \A s \in S : \/ s.do = "leaves" /\ s.d \in Now(h).days \cap Working
                                      \/ s.do = "wipe" /\ Now(h).wipe /\ s.days = Now(h).days
                      /\ \A d \in Now(h).days \cap Working : \E s \in S : s.do = "leaves" /\ s.d = d
<1>1. work[h].todo # <<>> /\ Now(h).do = "members" /\ UNCHANGED <<tables, bounds>>
  BY DEF GetMembers, Doing, Now
<1>2. CASE team = {}
  <2>1. Abort(h)
    BY <1>2 DEF GetMembers
  <2> QED
    BY <1>1, <2>1
<1>3. CASE team # {}
  <2> DEFINE all == Now(h).days
             D == all \cap Working
             step == Dates(D)
  <2>1. PICK q, wipe :
          /\ RunsOver(q, D, step)
          /\ wipe = IF Now(h).wipe THEN <<[do |-> "wipe", days |-> all]>> ELSE <<>>
          /\ IsList(wipe) /\ IsList(wipe \o q) /\ WorkOK'
          /\ GoesOn(work[h], work'[h], wipe \o q) /\ Now(h) = work[h].todo[1]
          /\ work'[h] = [work[h] EXCEPT !.team = team, !.todo = work'[h].todo]
    BY <1>3, GetMembersRuns
  <2>2. \A d \in D : step[d].do = "leaves" /\ step[d].d = d
    BY DEF Dates
  <2>3. \A s \in Range(wipe) : s.do = "wipe" /\ Now(h).wipe /\ s.days = all
    <3> HIDE DEF all
    <3>1. CASE Now(h).wipe
      <4> DEFINE a == [do |-> "wipe", days |-> all]
      <4>1. wipe = <<a>> /\ a.do = "wipe" /\ a.days = all
        BY <2>1, <3>1
      <4> HIDE DEF a
      <4> QED
        BY <3>1, <4>1, RangesOfShortLists
    <3>2. CASE ~Now(h).wipe
      BY <2>1, <3>2, RangesOfShortLists
    <3> QED
      BY <3>1, <3>2
  <2>4. \A g \in Handlers : g # h => work'[g] = work[g]
    BY <1>3, OthersWait DEF GetMembers, TodoInv
  <2> HIDE DEF D, step, all
  <2>5. /\ IsList(q) /\ \A s \in Range(q) : s.do = "leaves" /\ s.d \in D
        /\ \A d \in D : \E s \in Range(q) : s.do = "leaves" /\ s.d = d
    <3>1. IsList(q) /\ Range(q) = {q[i] : i \in 1..Len(q)}
      BY <2>1, RangeOfLists DEF RunsOver
    <3> QED
      BY <2>1, <2>2, <3>1 DEF RunsOver
  <2> DEFINE steps == wipe \o q
  <2>6. Range(steps) = Range(wipe) \cup Range(q)
    BY <2>1, <2>5, RangeOfJoin
  <2>7. IsList(steps) /\ GoesOn(work[h], work'[h], steps)
    BY <2>1
  <2> HIDE DEF steps
  <2>8. \A t \in Rest(steps) : t.do # "repoint"
    BY <2>3, <2>5, <2>6, <2>7, RangeOfLists
  <2>9. Continues(h, Range(steps), team)
    BY <1>1, <2>1, <2>4, <2>7, <2>8, ReplacedContinues
  <2>10. \A s \in Range(steps) : \/ s.do = "leaves" /\ s.d \in D
                                 \/ s.do = "wipe" /\ Now(h).wipe /\ s.days = all
    BY <2>3, <2>5, <2>6
  <2>11. \A d \in D : \E s \in Range(steps) : s.do = "leaves" /\ s.d = d
    BY <2>5, <2>6
  <2> QED
    BY <1>1, <2>9, <2>10, <2>11 DEF D, all
<1> QED
  BY <1>2, <1>3

LEMMA LeavesRun ==
  ASSUME TodoInv, NEW h \in Handlers, ReadLeaves(h)
  PROVE  /\ Now(h).do = "leaves" /\ UNCHANGED <<tables, bounds>>
         /\ \E s : /\ Continues(h, {s}, work[h].team)
                   /\ s.do = "r1" /\ s.d = Now(h).d /\ s.away = OnLeave(s.d)
<1> DEFINE t == Now(h)
           s == [do |-> "r1", d |-> t.d, away |-> OnLeave(t.d)]
<1>1. work[h].todo # <<>> /\ t.do = "leaves" /\ UNCHANGED <<tables, bounds>>
  BY DEF ReadLeaves, Doing, Now
<1> HIDE DEF t
<1>2. Then(h, <<s>>)
  BY Zenon DEF ReadLeaves, t
<1>3. s.do = "r1" /\ s.d = t.d /\ s.away = OnLeave(s.d)
  OBVIOUS
<1> HIDE DEF s
<1>4. Continues(h, {s}, work[h].team)
  BY <1>1, <1>2, ContinuesWithOne
<1> QED
  BY <1>1, <1>3, <1>4 DEF t

LEMMA OriginalPicked ==
  ASSUME TodoInv, NEW h \in Handlers, PickOriginal(h)
  PROVE  /\ Now(h).do = "r1" /\ UNCHANGED <<tables, bounds>>
         /\ \E s : /\ Continues(h, {s}, work[h].team)
                   /\ s.d = Now(h).d
                   /\ \/ s.do = "r2" /\ s.away = Now(h).away /\ s.m \in Now(h).away
                      \/ s.do = "original" /\ s.c = s.m
<1> DEFINE t == Now(h)
           m == At(work[h].team, TurnOf(r1, t.d, work[h].team))
           a == [do |-> "r2", d |-> t.d, away |-> t.away, m |-> m]
           b == [do |-> "original", d |-> t.d, m |-> m, c |-> m]
<1>1. work[h].todo # <<>> /\ t.do = "r1" /\ UNCHANGED <<tables, bounds>>
  BY DEF PickOriginal, Doing, Now
<1> HIDE DEF t
<1>2. (m \in t.away /\ Then(h, <<a>>)) \/ Then(h, <<b>>)
  <2>1. CASE m \in t.away
    BY <2>1, Zenon DEF PickOriginal, t
  <2>2. CASE m \notin t.away
    BY <2>2, Zenon DEF PickOriginal, t
  <2> QED
    BY <2>1, <2>2
<1> HIDE DEF m
<1>3. /\ a.d = t.d /\ a.do = "r2" /\ a.away = t.away /\ a.m = m
      /\ b.d = t.d /\ b.do = "original" /\ b.c = b.m
  OBVIOUS
<1> HIDE DEF a, b
<1>4. CASE m \in t.away /\ Then(h, <<a>>)
  <2>1. Continues(h, {a}, work[h].team)
    BY <1>1, <1>4, ContinuesWithOne
  <2> QED
    BY <1>1, <1>3, <1>4, <2>1 DEF t
<1>5. CASE Then(h, <<b>>)
  <2>1. Continues(h, {b}, work[h].team)
    BY <1>1, <1>5, ContinuesWithOne
  <2> QED
    BY <1>1, <1>3, <2>1 DEF t
<1> QED
  BY <1>2, <1>4, <1>5

LEMMA CoverDetermined ==
  ASSUME TodoInv, NEW h \in Handlers, DetermineCoveringMember(h)
  PROVE  /\ Now(h).do = "r2" /\ UNCHANGED <<tables, bounds>>
         /\ \E S : /\ Continues(h, S, work[h].team)
                   /\ \A s \in S : /\ s.do \in {"slot", "original"} /\ s.d = Now(h).d
                                   /\ s.do = "original" => s.m = Now(h).m
                   /\ \E s \in S : s.do = "original"
<1> DEFINE t == Now(h)
           c == FindCover(work[h].team, t.away, TurnOf(rotation, t.d, work[h].team))
           a == [do |-> "original", d |-> t.d, m |-> t.m, c |-> t.m]
           b == [do |-> "slot", d |-> t.d, c |-> c]
           e == [do |-> "original", d |-> t.d, m |-> t.m, c |-> c]
<1>1. work[h].todo # <<>> /\ t.do = "r2" /\ UNCHANGED <<tables, bounds>>
  BY DEF DetermineCoveringMember, Doing, Now
<1> HIDE DEF t
<1>2. Then(h, <<a>>) \/ Then(h, <<b, e>>)
  <2>1. CASE c = None
    BY <2>1, Zenon DEF DetermineCoveringMember, t
  <2>2. CASE c # None
    BY <2>2, Zenon DEF DetermineCoveringMember, t
  <2> QED
    BY <2>1, <2>2
<1> HIDE DEF c
<1>3. /\ a.do = "original" /\ a.d = t.d /\ a.m = t.m
      /\ b.do = "slot" /\ b.d = t.d
      /\ e.do = "original" /\ e.d = t.d /\ e.m = t.m
  OBVIOUS
<1> HIDE DEF a, b, e
<1>4. CASE Then(h, <<a>>)
  <2>1. Continues(h, {a}, work[h].team)
    BY <1>1, <1>4, ContinuesWithOne
  <2> QED
    BY <1>1, <1>3, <2>1 DEF t
<1>5. CASE Then(h, <<b, e>>)
  <2>1. Continues(h, {b, e}, work[h].team)
    BY <1>1, <1>3, <1>5, ContinuesWithTwo
  <2> QED
    BY <1>1, <1>3, <2>1 DEF t
<1> QED
  BY <1>2, <1>4, <1>5

LEMMA RememberedContinues ==
  ASSUME TodoInv, NEW h \in Handlers, work[h].todo # <<>>, Now(h).do = "slot",
         NEW anchor, anchor \in {work[h].anchor, SlotPosition(h)}, NEW w,
         \/ w = [work[h] EXCEPT !.anchor = anchor, !.todo = Tail(work[h].todo)]
         \/ w = [work[h] EXCEPT !.todo = Tail(work[h].todo), !.anchor = anchor],
         work' = [work EXCEPT ![h] = w]
  PROVE  Continues(h, {}, work[h].team)
<1> DEFINE q == <<>>
<1>1. WorkOK
  BY DEF TodoInv
<1>2. /\ WorkOK' /\ GoesOn(work[h], work'[h], q)
      /\ \A g \in Handlers : g # h => work'[g] = work[g]
      /\ work'[h].job = work[h].job /\ work'[h].team = work[h].team
      /\ work'[h].about = work[h].about /\ work'[h].queue = work[h].queue
      /\ work'[h].failed = work[h].failed /\ work'[h].anchor = anchor
  BY <1>1, SlotRemembered, Zenon
<1>3. IsList(q) /\ Len(q) = 0 /\ Range(q) = {}
  BY ShortLists, RangesOfShortLists
<1> HIDE DEF q
<1>4. Rest(q) = {}
  BY <1>3 DEF Rest
<1>5. IsList(work[h].todo) /\ IsList(work'[h].todo)
  BY <1>1, <1>2 DEF WorkOK, IsRequest
<1> DEFINE u == work[h]
           v == work'[h]
<1>6. IsList(u.todo) /\ u.todo # <<>> /\ IsList(v.todo) /\ GoesOn(u, v, q)
  BY <1>2, <1>5
<1> HIDE DEF u, v
<1>7. /\ Range(q) \subseteq Range(v.todo) /\ Range(v.todo) \subseteq Range(q) \cup Rest(u.todo)
      /\ Range(u.todo) \subseteq {u.todo[1]} \cup Range(v.todo)
      /\ Rest(v.todo) \subseteq Rest(q) \cup Rest(u.todo)
  BY <1>3, <1>6, GoesOnRanges
<1>8. Now(h) = u.todo[1] /\ u.todo[1] \in Range(u.todo)
  <2>1. Now(h) = u.todo[1]
    BY <1>6, ListLength DEF Now, u
  <2> QED
    BY <1>6, <2>1, RangeOfLists
<1> QED
  BY <1>2, <1>3, <1>4, <1>7, <1>8 DEF Continues, u, v

LEMMA SlotCommitted ==
  ASSUME TodoInv, NEW h \in Handlers, CommitCoverSlot(h)
  PROVE  /\ Now(h).do = "slot" /\ UNCHANGED <<today, team, leaves, orig, cover, r1, bounds>>
         /\ Continues(h, {}, work[h].team)
<1>1. /\ work[h].todo # <<>> /\ Now(h).do = "slot"
      /\ UNCHANGED <<today, team, leaves, orig, cover, r1, bounds>>
  BY DEF CommitCoverSlot, Doing, Now
<1>2. CASE ~Reassigning(h)
  <2>1. Then(h, <<>>)
    BY <1>2 DEF CommitCoverSlot
  <2> QED
    BY <1>1, <2>1, ContinuesWithNothing
<1>3. CASE Reassigning(h)
  <2> DEFINE w == [work[h] EXCEPT !.anchor = SlotPosition(h), !.todo = Tail(work[h].todo)]
  <2>1. work' = [work EXCEPT ![h] = w]
    BY <1>3 DEF CommitCoverSlot
  <2>2. \E anchor : /\ anchor \in {work[h].anchor, SlotPosition(h)}
                    /\ w = [work[h] EXCEPT !.anchor = anchor, !.todo = Tail(work[h].todo)]
    BY Zenon
  <2> HIDE DEF w
  <2>3. Continues(h, {}, work[h].team)
    BY <1>1, <2>1, <2>2, RememberedContinues, Zenon
  <2> QED
    BY <1>1, <2>3
<1> QED
  BY <1>2, <1>3

LEMMA FailedRuns ==
  ASSUME TodoInv, NEW h \in Handlers, Fail(h)
  PROVE  /\ UNCHANGED tables /\ work[h].todo # <<>>
         /\ Abort(h) \/ (Now(h).do = "slot" /\ Continues(h, {}, work[h].team))
<1>1. UNCHANGED tables /\ work[h].todo # <<>>
  BY DEF Fail
<1>2. CASE Now(h).do # "slot"
  <2>1. Abort(h)
    BY <1>2 DEF Fail
  <2> QED
    BY <1>1, <2>1
<1>3. CASE Now(h).do = "slot"
  <2> DEFINE anchor == IF Reassigning(h) THEN SlotPosition(h) ELSE work[h].anchor
             w == [work[h] EXCEPT !.todo = Tail(work[h].todo), !.anchor = anchor]
  <2>1. work' = [work EXCEPT ![h] = w]
    BY <1>3 DEF Fail
  <2>2. anchor \in {work[h].anchor, SlotPosition(h)}
    OBVIOUS
  <2>3. w = [work[h] EXCEPT !.todo = Tail(work[h].todo), !.anchor = anchor]
    OBVIOUS
  <2> HIDE DEF anchor, w
  <2>4. Continues(h, {}, work[h].team)
    BY <1>1, <1>3, <2>1, <2>2, <2>3, RememberedContinues, Zenon
  <2> QED
    BY <1>1, <1>3, <2>4
<1> QED
  BY <1>2, <1>3

LEMMA OriginalInserted ==
  ASSUME TodoInv, NEW h \in Handlers, InsertOriginal(h)
  PROVE  /\ Now(h).do = "original" /\ UNCHANGED <<today, team, leaves, cover, r1, rotation, bounds>>
         /\ \/ Abort(h) /\ orig' = orig
            \/ /\ orig[Now(h).d] = None /\ Now(h).m \in team
               /\ orig' = [orig EXCEPT ![Now(h).d] =
                             [member |-> Now(h).m, swapped |-> FALSE, id |-> NewId(Now(h).d)]]
               /\ \E S : /\ Continues(h, S, work[h].team)
                         /\ \A s \in S : \/ s.do = "advance" /\ s.d = Now(h).d /\ s.m = Now(h).m
                                         \/ /\ s.do = "cover" /\ s.d = Now(h).d
                                            /\ s.c = Now(h).c /\ s.c # Now(h).m
<1> DEFINE t == Now(h)
<1>1. /\ work[h].todo # <<>> /\ t.do = "original"
      /\ UNCHANGED <<today, team, leaves, cover, r1, rotation, bounds>>
  BY DEF InsertOriginal, Doing, Now
<1> HIDE DEF t
<1>2. CASE ~(orig[t.d] = None /\ t.m \in team)
  <2>1. Abort(h) /\ orig' = orig
    BY <1>2 DEF InsertOriginal, t
  <2> QED
    BY <1>1, <2>1 DEF t
<1>3. CASE orig[t.d] = None /\ t.m \in team
  <2> DEFINE id == NewId(t.d)
             a == [do |-> "advance", d |-> t.d, m |-> t.m]
             b == [do |-> "cover", d |-> t.d, c |-> t.c, id |-> id]
  <2>1. orig' = [orig EXCEPT ![t.d] = [member |-> t.m, swapped |-> FALSE, id |-> id]]
    BY <1>3 DEF InsertOriginal, t
  <2>2. Then(h, <<a>>) \/ (t.c # t.m /\ Then(h, <<a>> \o <<b>>))
    <3>1. CASE t.c = t.m
      BY <1>3, <3>1, Zenon DEF InsertOriginal, t
    <3>2. CASE t.c # t.m
      BY <1>3, <3>2, Zenon DEF InsertOriginal, t
    <3> QED
      BY <3>1, <3>2
  <2>3. /\ a.do = "advance" /\ a.d = t.d /\ a.m = t.m
        /\ b.do = "cover" /\ b.d = t.d /\ b.c = t.c
    OBVIOUS
  <2> HIDE DEF a, b
  <2>4. CASE Then(h, <<a>>)
    <3>1. Continues(h, {a}, work[h].team)
      BY <1>1, <2>4, ContinuesWithOne
    <3> QED
      BY <1>1, <1>3, <2>1, <2>3, <3>1 DEF t
  <2>5. CASE t.c # t.m /\ Then(h, <<a>> \o <<b>>)
    <3> DEFINE s == <<a>>
               r == <<b>>
    <3>1. IsList(s) /\ IsList(r) /\ Range(s) = {a} /\ Range(r) = {b}
      BY ShortLists, RangesOfShortLists
    <3>2. Then(h, s \o r)
      BY <2>5
    <3> HIDE DEF s, r
    <3>3. IsList(s \o r) /\ Range(s \o r) = {a, b}
      <4>1. IsList(s \o r) /\ Range(s \o r) = Range(s) \cup Range(r)
        BY <3>1, ListsJoin, RangeOfJoin
      <4> QED
        BY <3>1, <4>1
    <3> DEFINE q == s \o r
    <3>4. IsList(q) /\ Range(q) = {a, b} /\ Then(h, q)
      BY <3>2, <3>3
    <3> HIDE DEF q
    <3>5. Continues(h, Range(q), work[h].team)
      BY <1>1, <2>3, <3>4, ContinuesWithList
    <3>6. Continues(h, {a, b}, work[h].team)
      BY <3>4, <3>5
    <3> QED
      BY <1>1, <1>3, <2>1, <2>3, <2>5, <3>6 DEF t
  <2> QED
    BY <2>2, <2>4, <2>5
<1> QED
  BY <1>2, <1>3

LEMMA CoverInserted ==
  ASSUME TodoInv, NEW h \in Handlers, InsertCover(h)
  PROVE  /\ Now(h).do = "cover" /\ UNCHANGED <<today, team, leaves, orig, r1, rotation, bounds>>
         /\ \/ Abort(h) /\ cover' = cover
            \/ /\ cover[Now(h).d] = None /\ Now(h).c \in team /\ orig[Now(h).d] # None
               /\ cover' = [cover EXCEPT ![Now(h).d] =
                     [member |-> Now(h).c, swapped |-> FALSE, id |-> NewId(Now(h).d), linked |-> TRUE]]
               /\ Continues(h, {}, work[h].team)
<1> DEFINE t == Now(h)
<1>1. /\ work[h].todo # <<>> /\ t.do = "cover"
      /\ UNCHANGED <<today, team, leaves, orig, r1, rotation, bounds>>
  BY DEF InsertCover, Doing, Now
<1> HIDE DEF t
<1> DEFINE ok == cover[t.d] = None /\ t.c \in team /\ orig[t.d] # None /\ orig[t.d].id = t.id
<1>2. CASE ~ok
  <2>1. Abort(h) /\ cover' = cover
    BY <1>2 DEF InsertCover, t
  <2> QED
    BY <1>1, <2>1 DEF t
<1>3. CASE ok
  <2>1. Then(h, <<>>)
    BY <1>3 DEF InsertCover, t
  <2>2. cover' = [cover EXCEPT ![t.d] =
                    [member |-> t.c, swapped |-> FALSE, id |-> NewId(t.d), linked |-> TRUE]]
    BY <1>3 DEF InsertCover, t
  <2>3. Continues(h, {}, work[h].team)
    BY <1>1, <2>1, ContinuesWithNothing
  <2> QED
    BY <1>1, <1>3, <2>2, <2>3 DEF t
<1> QED
  BY <1>2, <1>3

LEMMA LeaveLoaded ==
  ASSUME TodoInv, NEW h \in Handlers, LoadLeave(h)
  PROVE  /\ Now(h).do = "leave" /\ UNCHANGED <<tables, bounds>>
         /\ \/ Abort(h)
            \/ /\ leaves[Now(h).l] # None
               /\ \E s : /\ Continues(h, {s}, work[h].team)
                         /\ s.do = "team" /\ s.l = Now(h).l /\ s.m = leaves[s.l].member
                         /\ s.days = DayRange(leaves[s.l].from, leaves[s.l].to) \cap Working
<1> DEFINE t == Now(h)
           s == [do |-> "team", l |-> t.l, m |-> leaves[t.l].member,
                 days |-> DayRange(leaves[t.l].from, leaves[t.l].to) \cap Working]
<1>1. work[h].todo # <<>> /\ t.do = "leave" /\ UNCHANGED <<tables, bounds>>
  BY DEF LoadLeave, Doing, Now
<1> HIDE DEF t
<1>2. CASE leaves[t.l] = None
  <2>1. Abort(h)
    BY <1>2 DEF LoadLeave, t
  <2> QED
    BY <1>1, <2>1 DEF t
<1>3. CASE leaves[t.l] # None
  <2>1. Then(h, <<s>>)
    BY <1>3, Zenon DEF LoadLeave, t
  <2>2. /\ s.do = "team" /\ s.l = t.l /\ s.m = leaves[s.l].member
        /\ s.days = DayRange(leaves[s.l].from, leaves[s.l].to) \cap Working
    OBVIOUS
  <2> HIDE DEF s
  <2>3. Continues(h, {s}, work[h].team)
    BY <1>1, <2>1, ContinuesWithOne
  <2> QED
    BY <1>1, <1>3, <2>2, <2>3 DEF t
<1> QED
  BY <1>2, <1>3

LEMMA TeamLoaded ==
  ASSUME TodoInv, NEW h \in Handlers, LoadTeam(h)
  PROVE  /\ Now(h).do = "team" /\ UNCHANGED <<tables, bounds>>
         /\ \E S : /\ Continues(h, S, team)
                   /\ \A s \in S : /\ s.do = "duty" /\ s.d \in Now(h).days
                                   /\ s.l = Now(h).l /\ s.m = Now(h).m
                   /\ \A d \in Now(h).days : \E s \in S : s.d = d
<1>1. work[h].todo # <<>> /\ Now(h).do = "team" /\ UNCHANGED <<tables, bounds>>
  BY DEF LoadTeam, Doing, Now
<1> DEFINE D == Now(h).days
           step == Duties(D, Now(h).l, Now(h).m)
<1>2. PICK q : /\ RunsOver(q, D, step)
               /\ WorkOK' /\ GoesOn(work[h], work'[h], q) /\ Now(h) = work[h].todo[1]
               /\ work'[h] = [work[h] EXCEPT !.team = team, !.todo = work'[h].todo]
  BY LoadTeamRuns
<1>3. \A d \in D : /\ step[d].do = "duty" /\ step[d].d = d
                   /\ step[d].l = Now(h).l /\ step[d].m = Now(h).m
  BY DEF Duties
<1>4. \A g \in Handlers : g # h => work'[g] = work[g]
  BY OthersWait DEF LoadTeam, TodoInv
<1> HIDE DEF D, step
<1>5. IsList(q) /\ Range(q) = {q[i] : i \in 1..Len(q)} /\ Rest(q) \subseteq Range(q)
  BY <1>2, RangeOfLists DEF RunsOver
<1>6. \A s \in Range(q) : s.do = "duty" /\ s.d \in D /\ s.l = Now(h).l /\ s.m = Now(h).m
  BY <1>2, <1>3, <1>5 DEF RunsOver
<1>7. \A d \in D : \E s \in Range(q) : s.d = d
  BY <1>2, <1>3, <1>5 DEF RunsOver
<1>8. \A t \in Rest(q) : t.do # "repoint"
  BY <1>5, <1>6
<1>9. Continues(h, Range(q), team)
  BY <1>1, <1>2, <1>4, <1>5, <1>8, ReplacedContinues
<1> QED
  BY <1>1, <1>6, <1>7, <1>9 DEF D

LEMMA DutyFound ==
  ASSUME TodoInv, NEW h \in Handlers, EnsureOriginalAssignment(h)
  PROVE  /\ Now(h).do = "duty" /\ UNCHANGED <<tables, bounds>>
         /\ IF Scheduled(Now(h).d, Now(h).m)
            THEN \E s : /\ Continues(h, {s}, work[h].team)
                        /\ s.do = "away" /\ s.d = Now(h).d /\ s.l = Now(h).l
            ELSE Continues(h, {}, work[h].team)
<1> DEFINE t == Now(h)
           s == [do |-> "away", d |-> t.d, l |-> t.l, id |-> orig[t.d].id]
<1>1. work[h].todo # <<>> /\ t.do = "duty" /\ UNCHANGED <<tables, bounds>>
  BY DEF EnsureOriginalAssignment, Doing, Now
<1> HIDE DEF t
<1>2. CASE Scheduled(t.d, t.m)
  <2>1. Then(h, <<s>>)
    BY <1>2, Zenon DEF EnsureOriginalAssignment, t
  <2>2. s.do = "away" /\ s.d = t.d /\ s.l = t.l
    OBVIOUS
  <2> HIDE DEF s
  <2>3. Continues(h, {s}, work[h].team)
    BY <1>1, <2>1, ContinuesWithOne
  <2> QED
    BY <1>1, <1>2, <2>2, <2>3 DEF t
<1>3. CASE ~Scheduled(t.d, t.m)
  <2>1. Then(h, <<>>)
    BY <1>3, Zenon DEF EnsureOriginalAssignment, t
  <2>2. Continues(h, {}, work[h].team)
    BY <1>1, <2>1, ContinuesWithNothing
  <2> QED
    BY <1>1, <1>3, <2>2 DEF t
<1> QED
  BY <1>2, <1>3

LEMMA OtherLeavesRead ==
  ASSUME TodoInv, NEW h \in Handlers, ReadOtherLeaves(h)
  PROVE  /\ Now(h).do = "away" /\ UNCHANGED <<tables, bounds>>
         /\ \E s : /\ Continues(h, {s}, work[h].team)
                   /\ s.do = "turn" /\ s.d = Now(h).d /\ s.l = Now(h).l /\ s.away = OnLeave(s.d)
<1> DEFINE t == Now(h)
           s == [do |-> "turn", d |-> t.d, l |-> t.l, id |-> t.id, away |-> OnLeave(t.d)]
<1>1. work[h].todo # <<>> /\ t.do = "away" /\ UNCHANGED <<tables, bounds>>
  BY DEF ReadOtherLeaves, Doing, Now
<1> HIDE DEF t
<1>2. Then(h, <<s>>)
  BY Zenon DEF ReadOtherLeaves, t
<1>3. s.do = "turn" /\ s.d = t.d /\ s.l = t.l /\ s.away = OnLeave(s.d)
  OBVIOUS
<1> HIDE DEF s
<1>4. Continues(h, {s}, work[h].team)
  BY <1>1, <1>2, ContinuesWithOne
<1> QED
  BY <1>1, <1>3, <1>4 DEF t

\* The position a leave's covers are counted from.
Counted(h) == IF Reassigning(h) THEN work[h].anchor ELSE rotation

LEMMA LeaveCoverPicked ==
  ASSUME TodoInv, NEW h \in Handlers, PickLeaveCover(h)
  PROVE  /\ Now(h).do = "turn" /\ UNCHANGED <<tables, bounds>>
         /\ \E c : /\ c = FindCover(work[h].team, Now(h).away, TurnOf(Counted(h), Now(h).d, work[h].team))
                   /\ IF c = None
                      THEN Continues(h, {}, work[h].team)
                      ELSE \E S : /\ Continues(h, S, work[h].team)
                                  /\ \A s \in S : \/ s.do = "look" /\ s.d = Now(h).d /\ s.c = c
                                                  \/ s.do = "status"
                                                  \/ s.do = "slot" /\ s.d = Now(h).d /\ s.c = c
                                  /\ \E s \in S : s.do = "look"
<1> DEFINE t == Now(h)
           c == FindCover(work[h].team, t.away, TurnOf(Counted(h), t.d, work[h].team))
           x == [do |-> "look", d |-> t.d, id |-> t.id, c |-> c]
           y == [do |-> "status", l |-> t.l]
           z == [do |-> "slot", d |-> t.d, c |-> c]
<1>1. work[h].todo # <<>> /\ t.do = "turn" /\ UNCHANGED <<tables, bounds>>
  BY DEF PickLeaveCover, Doing, Now
<1> HIDE DEF t
<1>2. CASE c = None
  <2>1. Then(h, <<>>)
    BY <1>2, Zenon DEF PickLeaveCover, Counted, t
  <2>2. Continues(h, {}, work[h].team)
    BY <1>1, <2>1, ContinuesWithNothing
  <2> QED
    BY <1>1, <1>2, <2>2 DEF t
<1>3. CASE c # None
  <2>1. Then(h, <<x, y, z>>)
    BY <1>3, Zenon DEF PickLeaveCover, Counted, t
  <2> DEFINE k == c
  <2>2. k = FindCover(work[h].team, t.away, TurnOf(Counted(h), t.d, work[h].team)) /\ k # None
    BY <1>3
  <2>3. /\ x.do = "look" /\ x.d = t.d /\ x.c = k /\ y.do = "status"
        /\ z.do = "slot" /\ z.d = t.d /\ z.c = k
    OBVIOUS
  <2> HIDE DEF x, y, z, k
  <2>4. Continues(h, {x, y, z}, work[h].team)
    BY <1>1, <2>1, <2>3, ContinuesWithThree
  <2>5. \E S : /\ Continues(h, S, work[h].team)
               /\ \A s \in S : \/ s.do = "look" /\ s.d = t.d /\ s.c = k
                               \/ s.do = "status"
                               \/ s.do = "slot" /\ s.d = t.d /\ s.c = k
               /\ \E s \in S : s.do = "look"
    BY <2>3, <2>4
  <2> QED
    BY <1>1, <2>2, <2>5 DEF t
<1> QED
  BY <1>2, <1>3

LEMMA LookRuns ==
  ASSUME TodoInv, NEW h \in Handlers, CreateCoverAssignment(h)
  PROVE  /\ Now(h).do = "look" /\ UNCHANGED <<tables, bounds>>
         /\ \/ /\ cover[Now(h).d] # None /\ (cover[Now(h).d].swapped \/ cover[Now(h).d].member = Now(h).c)
               /\ Continues(h, {}, work[h].team)
            \/ \E s : /\ Continues(h, {s}, work[h].team)
                      /\ s.d = Now(h).d /\ s.c = Now(h).c
                      /\ s.do = "cover" \/ (s.do = "repoint" /\ cover[s.d] # None)
<1> DEFINE t == Now(h)
           a == [do |-> "cover", d |-> t.d, c |-> t.c, id |-> t.id]
           b == [do |-> "repoint", d |-> t.d, c |-> t.c]
<1>1. work[h].todo # <<>> /\ t.do = "look" /\ UNCHANGED <<tables, bounds>>
  BY DEF CreateCoverAssignment, Doing, Now
<1> HIDE DEF t
<1>2. CASE cover[t.d] = None
  <2>1. Then(h, <<a>>)
    BY <1>2, Zenon DEF CreateCoverAssignment, t
  <2>2. a.do = "cover" /\ a.d = t.d /\ a.c = t.c
    OBVIOUS
  <2> HIDE DEF a
  <2>3. Continues(h, {a}, work[h].team)
    BY <1>1, <2>1, ContinuesWithOne
  <2> QED
    BY <1>1, <2>2, <2>3 DEF t
<1>3. CASE cover[t.d] # None /\ (cover[t.d].swapped \/ cover[t.d].member = t.c)
  <2>1. Then(h, <<>>)
    BY <1>3, Zenon DEF CreateCoverAssignment, t
  <2>2. Continues(h, {}, work[h].team)
    BY <1>1, <2>1, ContinuesWithNothing
  <2> QED
    BY <1>1, <1>3, <2>2 DEF t
<1>4. CASE cover[t.d] # None /\ ~(cover[t.d].swapped \/ cover[t.d].member = t.c)
  <2>1. Then(h, <<b>>)
    BY <1>4, Zenon DEF CreateCoverAssignment, t
  <2>2. b.do = "repoint" /\ b.d = t.d /\ b.c = t.c
    OBVIOUS
  <2> HIDE DEF b
  <2>3. Continues(h, {b}, work[h].team)
    BY <1>1, <2>1, ContinuesWithOne
  <2> QED
    BY <1>1, <1>4, <2>2, <2>3 DEF t
<1> QED
  BY <1>2, <1>3, <1>4

LEMMA CoverRepointed ==
  ASSUME TodoInv, NEW h \in Handlers, RepointCover(h)
  PROVE  /\ Now(h).do = "repoint" /\ UNCHANGED <<today, team, leaves, orig, r1, rotation, bounds>>
         /\ \/ Abort(h) /\ cover' = cover
            \/ /\ cover[Now(h).d] = None \/ cover[Now(h).d].swapped
               /\ cover' = cover /\ Continues(h, {}, work[h].team)
            \/ /\ cover[Now(h).d] # None /\ ~cover[Now(h).d].swapped /\ Now(h).c \in team
               /\ cover' = [cover EXCEPT ![Now(h).d].member = Now(h).c]
               /\ Continues(h, {}, work[h].team)
<1> DEFINE t == Now(h)
           hit == cover[t.d] # None /\ ~cover[t.d].swapped
<1>1. /\ work[h].todo # <<>> /\ t.do = "repoint"
      /\ UNCHANGED <<today, team, leaves, orig, r1, rotation, bounds>>
  BY DEF RepointCover, Doing, Now
<1> HIDE DEF t
<1>2. CASE hit /\ t.c \notin team
  <2>1. Abort(h) /\ cover' = cover
    BY <1>2 DEF RepointCover, t
  <2> QED
    BY <1>1, <2>1 DEF t
<1>3. CASE ~(hit /\ t.c \notin team)
  <2>1. Then(h, <<>>) /\ cover' = IF hit THEN [cover EXCEPT ![t.d].member = t.c] ELSE cover
    BY <1>3 DEF RepointCover, t
  <2>2. Continues(h, {}, work[h].team)
    BY <1>1, <2>1, ContinuesWithNothing
  <2>3. CASE hit
    <3>1. cover' = [cover EXCEPT ![t.d].member = t.c] /\ t.c \in team
      BY <1>3, <2>1, <2>3
    <3> QED
      BY <1>1, <2>2, <2>3, <3>1 DEF t
  <2>4. CASE ~hit
    <3>1. cover' = cover
      BY <2>1, <2>4
    <3> QED
      BY <1>1, <2>2, <2>4, <3>1 DEF t
  <2> QED
    BY <2>3, <2>4
<1> QED
  BY <1>2, <1>3

LEMMA LeaveEdited ==
  ASSUME TodoInv, NEW h \in Handlers, UpdateLeaveRecord(h)
  PROVE  /\ Now(h).do = "edit" /\ UNCHANGED <<today, team, orig, cover, r1, rotation, bounds>>
         /\ \/ Abort(h) /\ leaves' = leaves
            \/ /\ Continues(h, {}, work[h].team)
               /\ leaves' = leaves \/ leaves' = [leaves EXCEPT ![Now(h).l] = Now(h).row]
<1> DEFINE t == Now(h)
<1>1. /\ work[h].todo # <<>> /\ t.do = "edit"
      /\ UNCHANGED <<today, team, orig, cover, r1, rotation, bounds>>
  BY DEF UpdateLeaveRecord, Doing, Now
<1> HIDE DEF t
<1>2. CASE t.row.member \notin team
  <2>1. Abort(h) /\ leaves' = leaves
    BY <1>2 DEF UpdateLeaveRecord, t
  <2> QED
    BY <1>1, <2>1 DEF t
<1>3. CASE t.row.member \in team
  <2>1. Then(h, <<>>) /\ (leaves' = leaves \/ leaves' = [leaves EXCEPT ![t.l] = t.row])
    BY <1>3 DEF UpdateLeaveRecord, t
  <2>2. Continues(h, {}, work[h].team)
    BY <1>1, <2>1, ContinuesWithNothing
  <2> QED
    BY <1>1, <2>1, <2>2 DEF t
<1> QED
  BY <1>2, <1>3

LEMMA ChangeHandled ==
  ASSUME TodoInv, NEW h \in Handlers, HandleLeaveChange(h)
  PROVE  /\ Now(h).do = "change" /\ UNCHANGED <<tables, bounds>>
         /\ \/ Abort(h)
            \/ /\ leaves[Now(h).l] # None
               /\ \E S : /\ Continues(h, S, work[h].team)
                         /\ \A s \in S : s.do = "index" \/ (s.do = "leave" /\ s.l = Now(h).l)
                         /\ \E s \in S : s.do = "leave"
<1> DEFINE t == Now(h)
           a == [do |-> "index", days |-> DayRange(leaves[t.l].from, leaves[t.l].to)]
           b == [do |-> "leave", l |-> t.l]
<1>1. work[h].todo # <<>> /\ t.do = "change" /\ UNCHANGED <<tables, bounds>>
  BY DEF HandleLeaveChange, Doing, Now
<1> HIDE DEF t
<1>2. CASE leaves[t.l] = None
  <2>1. Abort(h)
    BY <1>2 DEF HandleLeaveChange, t
  <2> QED
    BY <1>1, <2>1 DEF t
<1>3. CASE leaves[t.l] # None
  <2>1. Then(h, Reconcile(leaves[t.l].from, leaves[t.l].to) \o <<[do |-> "leave", l |-> t.l]>>)
    BY <1>3, Zenon DEF HandleLeaveChange, t
  <2>2. Then(h, <<a>> \o <<b>>)
    BY <2>1 DEF Reconcile
  <2>3. a.do = "index" /\ b.do = "leave" /\ b.l = t.l
    OBVIOUS
  <2> HIDE DEF a, b
  <2> DEFINE s == <<a>>
             r == <<b>>
  <2>4. IsList(s) /\ IsList(r) /\ Range(s) = {a} /\ Range(r) = {b}
    BY ShortLists, RangesOfShortLists
  <2>5. Then(h, s \o r)
    BY <2>2
  <2> HIDE DEF s, r
  <2> DEFINE q == s \o r
  <2>6. IsList(q) /\ Range(q) = {a, b} /\ Then(h, q)
    <3>1. IsList(s \o r) /\ Range(s \o r) = Range(s) \cup Range(r)
      BY <2>4, ListsJoin, RangeOfJoin
    <3> QED
      BY <2>4, <2>5, <3>1
  <2> HIDE DEF q
  <2>7. Continues(h, Range(q), work[h].team)
    BY <1>1, <2>3, <2>6, ContinuesWithList
  <2>8. Continues(h, {a, b}, work[h].team)
    BY <2>6, <2>7
  <2> QED
    BY <1>1, <1>3, <2>3, <2>8 DEF t
<1> QED
  BY <1>2, <1>3

-----------------------------------------------------------------------------
(* The types of the tables and of what requests keep of them. *)

OriginalRow == [member : Members, swapped : BOOLEAN, id : Nat]
CoverRow == [member : Members, swapped : BOOLEAN, id : Nat, linked : BOOLEAN]
RotationRow == [last : Days, slot : Nat, reassign : Position \cup {None}]

Originals == [Days -> OriginalRow \cup {None}]
Covers == [Days -> CoverRow \cup {None}]
LeaveTable == [Leaves -> Leave \cup {None}]

\* A cover names the original it stands in for.
Linked == \A d \in Days : cover[d] # None /\ cover[d].linked => orig[d] # None

RowsTyped ==
  /\ today \in Days /\ team \in SUBSET Members
  /\ leaves \in LeaveTable /\ orig \in Originals /\ cover \in Covers /\ Linked

PositionsTyped ==
  r1 \in Position \cup {None} /\ rotation \in RotationRow \cup {None}

\* What request w keeps of the tables.
CopiesTyped(w) ==
  /\ w.team \in SUBSET Members /\ w.anchor \in Position \cup {None}
  /\ \A t \in Range(w.todo) : t.do = "edit" => t.row \in Leave

TablesInv ==
  /\ TodoInv /\ RowsTyped /\ PositionsTyped
  /\ \A h \in Handlers : CopiesTyped(work[h])

LEMMA RowsAreNotNone ==
  None \notin OriginalRow /\ None \notin CoverRow /\ None \notin Leave /\ None \notin Position
BY NoneAssumption DEF OriginalRow, CoverRow, Leave, Position, Days

\* The ids in use of a day are finitely many.
LEMMA NewIdIsNumber ==
  ASSUME WorkOK, NEW d
  PROVE  NewId(d) \in Nat
<1> DEFINE rows == {orig[d], cover[d]} \ {None}
           Ids(h) == {t.id : t \in {s \in Range(work[h].todo) : "id" \in DOMAIN s /\ s.d = d}}
           all == {Ids(h) : h \in Handlers}
           S == IdsInUse(d)
<1>1. IsFiniteSet({row.id : row \in rows})
  <2>1. IsFiniteSet({orig[d], cover[d]})
    <3>1. IsFiniteSet({}) /\ {orig[d], cover[d]} = ({} \cup {orig[d]}) \cup {cover[d]}
      BY FS_EmptySet
    <3> QED
      BY <3>1, FS_AddElement
  <2>2. IsFiniteSet(rows)
    BY <2>1, FS_Subset
  <2> HIDE DEF rows
  <2> DEFINE f == [row \in rows |-> row.id]
  <2>3. f \in Surjection(rows, {row.id : row \in rows})
    BY DEF Surjection
  <2> QED
    BY <2>2, <2>3, FS_Surjection
<1>2. ASSUME NEW h \in Handlers
      PROVE  IsFiniteSet(Ids(h))
  <2> DEFINE q == work[h].todo
             T == {s \in Range(q) : "id" \in DOMAIN s /\ s.d = d}
  <2>1. IsList(q)
    BY DEF WorkOK, IsRequest
  <2>2. IsFiniteSet(Range(q))
    <3>1. Len(q) \in Nat /\ Range(q) = {q[i] : i \in 1..Len(q)}
      BY <2>1, ListLength, RangeOfLists
    <3> HIDE DEF q
    <3>2. IsFiniteSet(1..Len(q))
      BY <3>1, FS_Interval
    <3> DEFINE g == [i \in 1..Len(q) |-> q[i]]
    <3>3. g \in Surjection(1..Len(q), Range(q))
      BY <3>1 DEF Surjection
    <3> QED
      BY <3>2, <3>3, FS_Surjection
  <2>3. IsFiniteSet(T)
    BY <2>2, FS_Subset
  <2> HIDE DEF T
  <2> DEFINE f == [t \in T |-> t.id]
  <2>4. f \in Surjection(T, {t.id : t \in T})
    BY DEF Surjection
  <2>5. IsFiniteSet({t.id : t \in T})
    BY <2>3, <2>4, FS_Surjection
  <2> QED
    BY <2>5 DEF T
<1>3. IsFiniteSet(UNION all)
  <2> HIDE DEF Ids
  <2>1. IsFiniteSet(Handlers)
    BY FiniteAssumption
  <2> DEFINE f == [h \in Handlers |-> Ids(h)]
  <2>2. f \in Surjection(Handlers, all)
    BY DEF Surjection
  <2>3. IsFiniteSet(all)
    BY <2>1, <2>2, FS_Surjection
  <2>4. \A T \in all : IsFiniteSet(T)
    BY <1>2
  <2> HIDE DEF all
  <2> QED
    BY <2>3, <2>4, FS_UNION
<1>4. IsFiniteSet(S)
  <2>1. S = {row.id : row \in rows} \cup UNION all
    BY DEF IdsInUse
  <2> HIDE DEF S, rows, all
  <2> QED
    BY <1>1, <1>3, <2>1, FS_Union
<1> HIDE DEF S, rows, all
<1> DEFINE n == Cardinality(S)
<1>5. n \in Nat
  BY <1>4, FS_CardinalityType
<1>6. \E id \in 0..n : id \notin S
  <2> SUFFICES ASSUME 0..n \subseteq S PROVE FALSE
    OBVIOUS
  <2>1. IsFiniteSet(0..n) /\ Cardinality(0..n) = n + 1
    BY <1>5, FS_Interval
  <2>2. Cardinality(0..n) <= n
    BY <1>4, FS_Subset
  <2> QED
    BY <1>5, <2>1, <2>2
<1>7. NewId(d) \in 0..n
  BY <1>6 DEF NewId, S
<1> QED
  BY <1>5, <1>7

\* A slot of a copy of the team is a number.
LEMMA SlotsAreNumbers ==
  ASSUME NEW ms \in SUBSET Members, NEW m
  PROVE  SlotOf(ms, m) \in Nat
<1>1. IsFiniteSet({x \in ms : x < m})
  BY FiniteAssumption, FS_Subset
<1> QED
  BY <1>1, FS_CardinalityType DEF SlotOf

LEMMA OriginalHeld ==
  ASSUME NEW o \in Originals, NEW d \in Days, o[d] # None, NEW m \in Members
  PROVE  /\ Held(o, d, m) \in Originals /\ Marked(o, d) \in Originals
         /\ \A x \in Days : /\ Held(o, d, m)[x] = None <=> o[x] = None
                            /\ Marked(o, d)[x] = None <=> o[x] = None
<1> DEFINE yes == TRUE
           r == [o[d] EXCEPT !.member = m]
           s == [o[d] EXCEPT !.swapped = yes]
<1>1. yes \in BOOLEAN
  OBVIOUS
<1>2. /\ Held(o, d, m) = [e \in Days |-> IF e = d THEN r ELSE o[e]]
      /\ Marked(o, d) = [e \in Days |-> IF e = d THEN s ELSE o[e]]
  BY DEF Held, Marked, Originals
<1> HIDE DEF yes
<1>3. r \in OriginalRow /\ s \in OriginalRow
  <2>1. o[d] \in OriginalRow
    BY DEF Originals
  <2> QED
    BY <1>1, <2>1 DEF OriginalRow
<1> HIDE DEF r, s
<1>4. r # None /\ s # None
  BY <1>3, RowsAreNotNone
<1> QED
  BY <1>2, <1>3, <1>4 DEF Originals

LEMMA CoverHeld ==
  ASSUME NEW o \in Covers, NEW d \in Days, o[d] # None, NEW m \in Members
  PROVE  /\ Held(o, d, m) \in Covers /\ Marked(o, d) \in Covers
         /\ \A x \in Days : /\ Held(o, d, m)[x] = None <=> o[x] = None
                            /\ Marked(o, d)[x] = None <=> o[x] = None
                            /\ o[x] # None => /\ Held(o, d, m)[x].linked = o[x].linked
                                              /\ Marked(o, d)[x].linked = o[x].linked
<1> DEFINE yes == TRUE
           r == [o[d] EXCEPT !.member = m]
           s == [o[d] EXCEPT !.swapped = yes]
<1>1. yes \in BOOLEAN
  OBVIOUS
<1>2. /\ Held(o, d, m) = [e \in Days |-> IF e = d THEN r ELSE o[e]]
      /\ Marked(o, d) = [e \in Days |-> IF e = d THEN s ELSE o[e]]
  BY DEF Held, Marked, Covers
<1> HIDE DEF yes
<1>3. r \in CoverRow /\ s \in CoverRow /\ r.linked = o[d].linked /\ s.linked = o[d].linked
  <2>1. o[d] \in CoverRow
    BY DEF Covers
  <2> QED
    BY <1>1, <2>1 DEF CoverRow
<1> HIDE DEF r, s
<1>4. r # None /\ s # None
  BY <1>3, RowsAreNotNone
<1> QED
  BY <1>2, <1>3, <1>4 DEF Covers

-----------------------------------------------------------------------------
(* What requests keep stays typed. *)

LEMMA StatementContinues ==
  ASSUME TodoInv, NEW h \in Handlers, Statement(h), ~ReassignNext(h), ~Reply(h)
  PROVE  \/ Abort(h)
         \/ \E S, ms : /\ Continues(h, S, ms) /\ ms \in {work[h].team, team}
                       /\ \A s \in S : s.do # "edit"
<1> DEFINE Goes(ms) == \E S : Continues(h, S, ms) /\ \A s \in S : s.do # "edit"
<1>4. ASSUME NEW s, NEW ms, Continues(h, {s}, ms), s.do # "edit"
      PROVE  Goes(ms)
  <2> DEFINE S == {s}
  <2>1. \A x \in S : x.do # "edit"
    BY <1>4
  <2> QED
    BY <1>4, <2>1
<1>5. ASSUME NEW ms, Continues(h, {}, ms)
      PROVE  Goes(ms)
  <2> DEFINE S == {}
  <2>1. Continues(h, S, ms) /\ \A x \in S : x.do # "edit"
    BY <1>5
  <2> HIDE DEF S
  <2> QED
    BY <2>1 DEF Goes
<1> HIDE DEF Goes
<1>1. CASE \/ BuildLeaveIndex(h) \/ FindStale(h) \/ GetDatesWithAssignments(h) \/ ReadLeaves(h)
           \/ PickOriginal(h) \/ EnsureOriginalAssignment(h) \/ ReadOtherLeaves(h)
           \/ CommitCoverSlot(h) \/ DropCover(h) \/ DeleteAssignmentsInRange(h) \/ AdvanceR1(h)
           \/ UpdateLeaveStatus(h) \/ DeleteLeaveRecord(h)
  <2>1. Goes(work[h].team)
    <3>1. CASE BuildLeaveIndex(h)
      <4>1. PICK s : Continues(h, {s}, work[h].team) /\ s.do = "compare"
        BY <3>1, IndexRuns
      <4>2. s.do # "edit"
        BY <4>1
      <4> QED
        BY <1>4, <4>1, <4>2
    <3>2. CASE FindStale(h)
      BY <3>2, CompareRuns DEF Goes
    <3>3. CASE GetDatesWithAssignments(h)
      BY <3>3, DatesRun DEF Goes
    <3>4. CASE ReadLeaves(h)
      <4>1. PICK s : Continues(h, {s}, work[h].team) /\ s.do = "r1"
        BY <3>4, LeavesRun
      <4>2. s.do # "edit"
        BY <4>1
      <4> QED
        BY <1>4, <4>1, <4>2
    <3>5. CASE PickOriginal(h)
      <4>1. PICK s : Continues(h, {s}, work[h].team) /\ s.do \in {"r2", "original"}
        BY <3>5, OriginalPicked
      <4>2. s.do # "edit"
        BY <4>1
      <4> QED
        BY <1>4, <4>1, <4>2
    <3>6. CASE EnsureOriginalAssignment(h)
      <4>1. \/ Continues(h, {}, work[h].team)
            \/ \E s : Continues(h, {s}, work[h].team) /\ s.do = "away"
        BY <3>6, DutyFound
      <4>2. CASE \E s : Continues(h, {s}, work[h].team) /\ s.do = "away"
        <5>1. PICK s : Continues(h, {s}, work[h].team) /\ s.do = "away"
          BY <4>2
        <5>2. s.do # "edit"
          BY <5>1
        <5> QED
          BY <1>4, <5>1, <5>2
      <4> QED
        BY <1>5, <4>1, <4>2
    <3>7. CASE ReadOtherLeaves(h)
      <4>1. PICK s : Continues(h, {s}, work[h].team) /\ s.do = "turn"
        BY <3>7, OtherLeavesRead
      <4>2. s.do # "edit"
        BY <4>1
      <4> QED
        BY <1>4, <4>1, <4>2
    <3>8. CASE CommitCoverSlot(h)
      <4>1. Continues(h, {}, work[h].team)
        BY <3>8, SlotCommitted
      <4> QED
        BY <1>5, <4>1
    <3>9. CASE \/ DropCover(h) \/ DeleteAssignmentsInRange(h) \/ AdvanceR1(h)
               \/ UpdateLeaveStatus(h) \/ DeleteLeaveRecord(h)
      <4>1. Continues(h, {}, work[h].team)
        BY <3>9, WritesRun
      <4> QED
        BY <1>5, <4>1
    <3> QED
      BY <1>1, <3>1, <3>2, <3>3, <3>4, <3>5, <3>6, <3>7, <3>8, <3>9
  <2> QED
    BY <2>1 DEF Goes
<1>2. CASE \/ DetermineCoveringMember(h) \/ PickLeaveCover(h) \/ CreateCoverAssignment(h)
           \/ InsertOriginal(h) \/ InsertCover(h) \/ LoadLeave(h) \/ RepointCover(h)
           \/ UpdateLeaveRecord(h) \/ HandleLeaveChange(h)
  <2>1. Abort(h) \/ Goes(work[h].team)
    <3>1. CASE DetermineCoveringMember(h)
      <4>1. PICK S : /\ Continues(h, S, work[h].team)
                     /\ \A s \in S : s.do \in {"slot", "original"}
        BY <3>1, CoverDetermined
      <4> QED
        BY <4>1 DEF Goes
    <3>2. CASE PickLeaveCover(h)
      BY <3>2, LeaveCoverPicked DEF Goes
    <3>3. CASE CreateCoverAssignment(h)
      <4>1. \/ Continues(h, {}, work[h].team)
            \/ \E s : Continues(h, {s}, work[h].team) /\ s.do \in {"cover", "repoint"}
        BY <3>3, LookRuns
      <4>2. CASE \E s : Continues(h, {s}, work[h].team) /\ s.do \in {"cover", "repoint"}
        <5>1. PICK s : Continues(h, {s}, work[h].team) /\ s.do \in {"cover", "repoint"}
          BY <4>2
        <5>2. s.do # "edit"
          BY <5>1
        <5> QED
          BY <1>4, <5>1, <5>2
      <4> QED
        BY <1>5, <4>1, <4>2
    <3>4. CASE InsertOriginal(h)
      BY <3>4, OriginalInserted DEF Goes
    <3>5. CASE InsertCover(h)
      <4>1. Abort(h) \/ Continues(h, {}, work[h].team)
        BY <3>5, CoverInserted
      <4> QED
        BY <1>5, <4>1
    <3>6. CASE LoadLeave(h)
      <4>1. Abort(h) \/ \E s : Continues(h, {s}, work[h].team) /\ s.do = "team"
        BY <3>6, LeaveLoaded
      <4>2. CASE \E s : Continues(h, {s}, work[h].team) /\ s.do = "team"
        <5>1. PICK s : Continues(h, {s}, work[h].team) /\ s.do = "team"
          BY <4>2
        <5>2. s.do # "edit"
          BY <5>1
        <5> QED
          BY <1>4, <5>1, <5>2
      <4> QED
        BY <4>1, <4>2
    <3>7. CASE RepointCover(h)
      <4>1. Abort(h) \/ Continues(h, {}, work[h].team)
        BY <3>7, CoverRepointed
      <4> QED
        BY <1>5, <4>1
    <3>8. CASE UpdateLeaveRecord(h)
      <4>1. Abort(h) \/ Continues(h, {}, work[h].team)
        BY <3>8, LeaveEdited
      <4> QED
        BY <1>5, <4>1
    <3>9. CASE HandleLeaveChange(h)
      BY <3>9, ChangeHandled DEF Goes
    <3> QED
      BY <1>2, <3>1, <3>2, <3>3, <3>4, <3>5, <3>6, <3>7, <3>8, <3>9
  <2> QED
    BY <2>1 DEF Goes
<1>3. CASE GetMembers(h) \/ LoadTeam(h)
  <2>1. Abort(h) \/ Goes(team)
    <3>1. CASE GetMembers(h)
      BY <3>1, MembersRun DEF Goes
    <3>2. CASE LoadTeam(h)
      BY <3>2, TeamLoaded DEF Goes
    <3> QED
      BY <1>3, <3>1, <3>2
  <2> QED
    BY <2>1 DEF Goes
<1> QED
  BY <1>1, <1>2, <1>3 DEF Statement

LEMMA CopiesContinue ==
  ASSUME TablesInv, NEW h \in Handlers, NEW S, NEW ms \in SUBSET Members, Continues(h, S, ms),
         \A s \in S : s.do # "edit"
  PROVE  \A g \in Handlers : CopiesTyped(work'[g])
<1>1. TodoInv /\ \A g \in Handlers : CopiesTyped(work[g])
  BY DEF TablesInv
<1>2. CopiesTyped(work'[h])
  <2>1. work'[h].team \in SUBSET Members
    BY DEF Continues
  <2>2. work'[h].anchor \in Position \cup {None}
    <3>1. CASE work'[h].anchor = work[h].anchor
      BY <1>1, <3>1 DEF CopiesTyped
    <3>2. CASE Now(h).do = "slot" /\ work'[h].anchor = SlotPosition(h)
      <4>1. Now(h).d \in Days
        BY <1>1, <3>2, HeadIsTyped DEF Continues, ItemTyped
      <4>2. SlotOf(work[h].team, Now(h).c) \in Nat
        BY <1>1, SlotsAreNumbers DEF CopiesTyped
      <4> QED
        BY <3>2, <4>1, <4>2 DEF SlotPosition, Position
    <3> QED
      BY <3>1, <3>2 DEF Continues
  <2>3. ASSUME NEW t \in Range(work'[h].todo), t.do = "edit"
        PROVE  t.row \in Leave
    <3>1. t \in Rest(work[h].todo)
      BY <2>3 DEF Continues
    <3>2. t \in Range(work[h].todo)
      BY <1>1, <3>1, RangeOfLists DEF TodoInv, WorkOK, IsRequest
    <3> QED
      BY <1>1, <2>3, <3>2 DEF CopiesTyped
  <2> QED
    BY <2>1, <2>2, <2>3 DEF CopiesTyped
<1> QED
  BY <1>1, <1>2 DEF Continues

LEMMA CopiesAbort ==
  ASSUME TablesInv, NEW h \in Handlers, Abort(h)
  PROVE  \A g \in Handlers : CopiesTyped(work'[g])
<1>1. WorkOK /\ \A g \in Handlers : CopiesTyped(work[g])
  BY DEF TablesInv, TodoInv
<1>2. /\ work'[h].todo = <<>> /\ work'[h].team = work[h].team
      /\ work'[h].anchor = work[h].anchor
  BY <1>1, AbortStops
<1>3. \A g \in Handlers : g # h => work'[g] = work[g]
  BY <1>1 DEF Abort, WorkOK
<1>4. Range(work'[h].todo) = {}
  BY <1>2, RangesOfShortLists
<1> QED
  BY <1>1, <1>2, <1>3, <1>4 DEF CopiesTyped

\* ReassignCovers takes the first leave of its list.
LEMMA NextLeaveTaken ==
  ASSUME TodoInv, NEW h \in Handlers, ReassignNext(h)
  PROVE  /\ work[h].todo = <<>> /\ work[h].queue # <<>> /\ UNCHANGED <<tables, bounds>>
         /\ \A g \in Handlers : g # h => work'[g] = work[g]
         /\ work'[h].job = work[h].job /\ work'[h].about = work[h].about
         /\ work'[h].failed = work[h].failed /\ work'[h].team = work[h].team
         /\ work'[h].anchor = work[h].anchor
         /\ work'[h].queue = Tail(work[h].queue)
         /\ work'[h].todo = Reconcile(Head(work[h].queue).from, Head(work[h].queue).to)
                              \o <<[do |-> "leave", l |-> Head(work[h].queue).l]>>
         /\ \A s \in Range(work'[h].todo) :
              s.do = "index" \/ (s.do = "leave" /\ s.l = Head(work[h].queue).l)
         /\ \E s \in Range(work'[h].todo) : s.do = "leave"
         /\ \A s \in Rest(work'[h].todo) : s.do # "repoint"
<1> DEFINE l == Head(work[h].queue)
           queue == Tail(work[h].queue)
           a == [do |-> "index", days |-> DayRange(l.from, l.to)]
           b == [do |-> "leave", l |-> l.l]
           todo == <<a>> \o <<b>>
           w == Advanced(work[h], queue, todo)
<1>1. work[h].todo = <<>> /\ work[h].queue # <<>> /\ UNCHANGED <<tables, bounds>>
  BY DEF ReassignNext
<1>2. work' = [work EXCEPT ![h] = w]
  BY DEF ReassignNext, Advanced, Reconcile
<1>3. IsRequest(work[h]) /\ WorkOK
  BY DEF TodoInv, WorkOK
<1>4. a.do = "index" /\ b.do = "leave" /\ b.l = l.l
  OBVIOUS
<1> HIDE DEF a, b
<1>5. IsList(todo) /\ Range(todo) = {a, b}
  <2> DEFINE s == <<a>>
             r == <<b>>
  <2>1. IsList(s) /\ IsList(r) /\ Range(s) = {a} /\ Range(r) = {b}
    BY ShortLists, RangesOfShortLists
  <2> HIDE DEF s, r
  <2>2. IsList(s \o r) /\ Range(s \o r) = Range(s) \cup Range(r)
    BY <2>1, ListsJoin, RangeOfJoin
  <2>3. IsList(s \o r) /\ Range(s \o r) = {a, b}
    BY <2>1, <2>2
  <2> QED
    BY <2>3 DEF s, r
<1> HIDE DEF todo
<1>6. w = [job |-> work[h].job, about |-> work[h].about, todo |-> todo, queue |-> queue,
           team |-> work[h].team, anchor |-> work[h].anchor, failed |-> work[h].failed]
  <2> HIDE DEF queue
  <2> QED
    BY ONLY <1>3, AdvancedFields
<1> HIDE DEF w
<1>7. work'[h] = w /\ \A g \in Handlers : g # h => work'[g] = work[g]
  BY <1>2, <1>3 DEF WorkOK
<1>8. Rest(todo) \subseteq Range(todo)
  BY <1>5, RangeOfLists
<1>9. /\ work'[h].job = work[h].job /\ work'[h].about = work[h].about
      /\ work'[h].failed = work[h].failed /\ work'[h].team = work[h].team
      /\ work'[h].anchor = work[h].anchor
      /\ work'[h].queue = queue /\ work'[h].todo = todo
  <2> HIDE DEF queue
  <2> QED
    BY <1>6, <1>7
<1>10. \A s \in Range(work'[h].todo) : s.do = "index" \/ (s.do = "leave" /\ s.l = l.l)
  BY <1>4, <1>5, <1>9
<1>11. \E s \in Range(work'[h].todo) : s.do = "leave"
  BY <1>4, <1>5, <1>9
<1>12. \A s \in Rest(work'[h].todo) : s.do # "repoint"
  BY <1>4, <1>5, <1>8, <1>9
<1>13. work'[h].todo = Reconcile(l.from, l.to) \o <<[do |-> "leave", l |-> l.l]>>
  BY <1>9 DEF Reconcile, todo, a, b
<1> QED
  BY <1>1, <1>7, <1>9, <1>10, <1>11, <1>12, <1>13

-----------------------------------------------------------------------------
(* Every write keeps the rows of the tables. *)

LEMMA RowsStay ==
  ASSUME RowsTyped, UNCHANGED <<today, team, leaves, orig, cover>>
  PROVE  RowsTyped'
BY DEF RowsTyped, Linked

LEMMA CoversStayLinked ==
  ASSUME RowsTyped, UNCHANGED <<today, team, leaves, orig>>, cover' \in Covers,
         \A x \in Days : \/ cover'[x] = None \/ orig[x] # None
                         \/ cover[x] # None /\ cover'[x].linked = cover[x].linked
  PROVE  RowsTyped'
BY DEF RowsTyped, Linked

LEMMA DutyWritesKeepRows ==
  ASSUME TablesInv, NEW h \in Handlers,
         DropCover(h) \/ DeleteAssignmentsInRange(h) \/ InsertOriginal(h) \/ InsertCover(h) \/ RepointCover(h)
  PROVE  RowsTyped'
<1> DEFINE t == Now(h)
<1>1. TodoInv /\ RowsTyped /\ orig \in Originals /\ cover \in Covers /\ team \in SUBSET Members
  BY DEF TablesInv, RowsTyped
<1>2. CASE DropCover(h)
  <2>1. UNCHANGED <<today, team, leaves, orig>> /\ cover' \in {cover, [cover EXCEPT ![t.d] = None]}
    BY <1>2 DEF DropCover
  <2> HIDE DEF t
  <2>2. cover' \in Covers /\ \A x \in Days : cover'[x] = None \/ cover'[x] = cover[x]
    BY <1>1, <2>1 DEF Covers
  <2>3. \A x \in Days : \/ cover'[x] = None \/ orig[x] # None
                        \/ cover[x] # None /\ cover'[x].linked = cover[x].linked
    BY <2>2
  <2> QED
    BY <1>1, <2>1, <2>2, <2>3, CoversStayLinked
<1>3. CASE DeleteAssignmentsInRange(h)
  <2>1. /\ UNCHANGED <<today, team, leaves>>
        /\ orig' = [d \in Days |-> IF d \in t.days THEN None ELSE orig[d]]
        /\ cover' = [d \in Days |-> IF d \in t.days THEN None ELSE cover[d]]
    BY <1>3 DEF DeleteAssignmentsInRange
  <2> HIDE DEF t
  <2>2. orig' \in Originals /\ cover' \in Covers
    BY <1>1, <2>1 DEF Originals, Covers
  <2>3. \A d \in Days : cover'[d] # None /\ cover'[d].linked => orig'[d] # None
    BY <1>1, <2>1 DEF RowsTyped, Linked
  <2> QED
    BY <1>1, <2>1, <2>2, <2>3 DEF RowsTyped, Linked
<1>4. CASE InsertOriginal(h)
  <2> DEFINE no == FALSE
             row == [member |-> t.m, swapped |-> no, id |-> NewId(t.d)]
  <2>1. /\ t.do = "original" /\ UNCHANGED <<today, team, leaves, cover>>
        /\ \/ orig' = orig
           \/ t.m \in team /\ orig' = [orig EXCEPT ![t.d] = row]
    BY <1>1, <1>4, OriginalInserted
  <2>2. work[h].todo # <<>>
    BY <1>4 DEF InsertOriginal, Doing
  <2>3. t.d \in Days /\ NewId(t.d) \in Nat /\ no \in BOOLEAN
    BY <1>1, <2>1, <2>2, HeadIsTyped, NewIdIsNumber DEF ItemTyped, TodoInv
  <2> HIDE DEF t, no
  <2>4. CASE orig' = orig
    BY <1>1, <2>1, <2>4, RowsStay
  <2>5. CASE t.m \in team /\ orig' = [orig EXCEPT ![t.d] = row]
    <3>1. row \in OriginalRow
      BY <1>1, <2>3, <2>5 DEF OriginalRow
    <3> HIDE DEF row
    <3>2. row # None
      BY <3>1, RowsAreNotNone
    <3>3. orig' \in Originals /\ \A x \in Days : orig[x] # None => orig'[x] # None
      BY <1>1, <2>3, <2>5, <3>1, <3>2 DEF Originals
    <3> QED
      BY <1>1, <2>1, <3>3 DEF RowsTyped, Linked
  <2> QED
    BY <2>1, <2>4, <2>5
<1>5. CASE InsertCover(h)
  <2> DEFINE no == FALSE
             yes == TRUE
             row == [member |-> t.c, swapped |-> no, id |-> NewId(t.d), linked |-> yes]
  <2>1. /\ t.do = "cover" /\ UNCHANGED <<today, team, leaves, orig>>
        /\ \/ cover' = cover
           \/ t.c \in team /\ orig[t.d] # None /\ cover' = [cover EXCEPT ![t.d] = row]
    BY <1>1, <1>5, CoverInserted
  <2>2. work[h].todo # <<>>
    BY <1>5 DEF InsertCover, Doing
  <2>3. t.d \in Days /\ NewId(t.d) \in Nat /\ no \in BOOLEAN /\ yes \in BOOLEAN
    BY <1>1, <2>1, <2>2, HeadIsTyped, NewIdIsNumber DEF ItemTyped, TodoInv
  <2> HIDE DEF t, no, yes
  <2>4. CASE cover' = cover
    BY <1>1, <2>1, <2>4, RowsStay
  <2>5. CASE t.c \in team /\ orig[t.d] # None /\ cover' = [cover EXCEPT ![t.d] = row]
    <3>1. row \in CoverRow
      BY <1>1, <2>3, <2>5 DEF CoverRow
    <3> HIDE DEF row
    <3>2. cover' \in Covers /\ \A x \in Days : cover'[x] = cover[x] \/ orig[x] # None
      BY <1>1, <2>3, <2>5, <3>1 DEF Covers
    <3>3. \A x \in Days : \/ cover'[x] = None \/ orig[x] # None
                          \/ cover[x] # None /\ cover'[x].linked = cover[x].linked
      BY <3>2
    <3> QED
      BY <1>1, <2>1, <3>2, <3>3, CoversStayLinked
  <2> QED
    BY <2>1, <2>4, <2>5
<1>6. CASE RepointCover(h)
  <2>1. /\ t.do = "repoint" /\ UNCHANGED <<today, team, leaves, orig>>
        /\ \/ cover' = cover
           \/ cover[t.d] # None /\ t.c \in team /\ cover' = [cover EXCEPT ![t.d].member = t.c]
    BY <1>1, <1>6, CoverRepointed
  <2>2. work[h].todo # <<>>
    BY <1>6 DEF RepointCover, Doing
  <2>3. t.d \in Days
    BY <1>1, <2>1, <2>2, HeadIsTyped DEF ItemTyped
  <2> HIDE DEF t
  <2>4. CASE cover' = cover
    BY <1>1, <2>1, <2>4, RowsStay
  <2>5. CASE cover[t.d] # None /\ t.c \in team /\ cover' = [cover EXCEPT ![t.d].member = t.c]
    <3>1. t.c \in Members /\ cover' = Held(cover, t.d, t.c)
      BY <1>1, <2>5 DEF Held
    <3> DEFINE p == Held(cover, t.d, t.c)
    <3>3. /\ t.c \in Members /\ cover[t.d] # None /\ cover \in Covers
      BY <1>1, <2>5, <3>1
    <3>5. ASSUME NEW d \in Days, NEW m \in Members, cover[d] # None
          PROVE  /\ Held(cover, d, m) \in Covers
                 /\ \A x \in Days :
                      /\ Held(cover, d, m)[x] = None <=> cover[x] = None
                      /\ cover[x] # None => Held(cover, d, m)[x].linked = cover[x].linked
      BY <3>3, <3>5, CoverHeld
    <3>4. /\ p \in Covers
          /\ \A x \in Days : /\ p[x] = None <=> cover[x] = None
                             /\ cover[x] # None => p[x].linked = cover[x].linked
      BY <2>3, <3>3, <3>5
    <3> HIDE DEF p
    <3>2. /\ cover' \in Covers
          /\ \A x \in Days : /\ cover'[x] = None <=> cover[x] = None
                             /\ cover[x] # None => cover'[x].linked = cover[x].linked
      BY ONLY <3>1, <3>4 DEF p
    <3>6. \A x \in Days : \/ cover'[x] = None \/ orig[x] # None
                          \/ cover[x] # None /\ cover'[x].linked = cover[x].linked
      BY <3>2
    <3> QED
      BY <1>1, <2>1, <3>2, <3>6, CoversStayLinked
  <2> QED
    BY <2>1, <2>4, <2>5
<1> QED
  BY <1>2, <1>3, <1>4, <1>5, <1>6

LEMMA LeaveWritesKeepRows ==
  ASSUME TablesInv, NEW h \in Handlers,
         UpdateLeaveStatus(h) \/ UpdateLeaveRecord(h) \/ DeleteLeaveRecord(h)
  PROVE  RowsTyped'
<1> DEFINE t == Now(h)
<1>1. TodoInv /\ RowsTyped /\ leaves \in LeaveTable /\ CopiesTyped(work[h])
  BY DEF TablesInv, RowsTyped
<1>2. UNCHANGED <<today, team, orig, cover>>
  BY DEF UpdateLeaveStatus, UpdateLeaveRecord, DeleteLeaveRecord
<1>3. leaves' \in LeaveTable
  <2>1. CASE UpdateLeaveStatus(h)
    <3> DEFINE l == t.l
    <3>1. leaves' = leaves \/ (leaves[l] # None /\ leaves' = [leaves EXCEPT ![l].status = "assigned"])
      BY <2>1 DEF UpdateLeaveStatus
    <3> HIDE DEF t, l
    <3>2. CASE leaves' = leaves \/ l \notin Leaves
      BY <1>1, <3>1, <3>2 DEF LeaveTable
    <3>3. CASE l \in Leaves /\ leaves[l] # None /\ leaves' = [leaves EXCEPT ![l].status = "assigned"]
      <4> DEFINE r == [leaves[l] EXCEPT !.status = "assigned"]
      <4>1. leaves[l] \in Leave
        BY <1>1, <3>3 DEF LeaveTable
      <4>2. r \in Leave
        BY <4>1 DEF Leave
      <4>3. leaves' = [leaves EXCEPT ![l] = r]
        BY <3>3
      <4> HIDE DEF r
      <4> QED
        BY <1>1, <4>2, <4>3 DEF LeaveTable
    <3> QED
      BY <3>1, <3>2, <3>3
  <2>2. CASE UpdateLeaveRecord(h)
    <3>1. t.do = "edit" /\ leaves' \in {leaves, [leaves EXCEPT ![t.l] = t.row]}
      BY <1>1, <2>2, LeaveEdited
    <3>2. t.row \in Leave
      <4>1. work[h].todo # <<>>
        BY <2>2 DEF UpdateLeaveRecord, Doing
      <4>2. t \in Range(work[h].todo)
        BY <1>1, <4>1, HeadIsTyped, RangeOfLists DEF IsRequest
      <4> QED
        BY <1>1, <3>1, <4>2 DEF CopiesTyped
    <3> HIDE DEF t
    <3> QED
      BY <1>1, <3>1, <3>2 DEF LeaveTable
  <2>3. CASE DeleteLeaveRecord(h)
    <3>1. leaves' = [leaves EXCEPT ![t.l] = None]
      BY <2>3 DEF DeleteLeaveRecord
    <3> HIDE DEF t
    <3> QED
      BY <1>1, <3>1 DEF LeaveTable
  <2> QED
    BY <2>1, <2>2, <2>3
<1> QED
  BY <1>1, <1>2, <1>3 DEF RowsTyped, Linked

LEMMA StatementKeepsRows ==
  ASSUME TablesInv, NEW h \in Handlers, Statement(h)
  PROVE  RowsTyped'
<1>1. CASE \/ DropCover(h) \/ DeleteAssignmentsInRange(h) \/ InsertOriginal(h) \/ InsertCover(h)
           \/ RepointCover(h)
  BY <1>1, DutyWritesKeepRows
<1>2. CASE UpdateLeaveStatus(h) \/ UpdateLeaveRecord(h) \/ DeleteLeaveRecord(h)
  BY <1>2, LeaveWritesKeepRows
<1>3. CASE UNCHANGED <<today, team, leaves, orig, cover>>
  BY <1>3, RowsStay DEF TablesInv
<1>4. \/ BuildLeaveIndex(h) \/ FindStale(h) \/ GetDatesWithAssignments(h) \/ GetMembers(h)
      \/ ReadLeaves(h) \/ PickOriginal(h) \/ DetermineCoveringMember(h)
      => UNCHANGED <<today, team, leaves, orig, cover>>
  BY DEF BuildLeaveIndex, FindStale, GetDatesWithAssignments, GetMembers, ReadLeaves, PickOriginal,
         DetermineCoveringMember, tables
<1>5. CommitCoverSlot(h) \/ AdvanceR1(h) => UNCHANGED <<today, team, leaves, orig, cover>>
  BY DEF CommitCoverSlot, AdvanceR1
<1>6. \/ LoadLeave(h) \/ LoadTeam(h) \/ EnsureOriginalAssignment(h) \/ ReadOtherLeaves(h)
      \/ PickLeaveCover(h) \/ CreateCoverAssignment(h) \/ HandleLeaveChange(h)
      \/ ReassignNext(h) \/ Reply(h)
      => UNCHANGED <<today, team, leaves, orig, cover>>
  BY DEF LoadLeave, LoadTeam, EnsureOriginalAssignment, ReadOtherLeaves, PickLeaveCover,
         CreateCoverAssignment, HandleLeaveChange, ReassignNext, Reply, tables
<1> QED
  BY <1>1, <1>2, <1>3, <1>4, <1>5, <1>6 DEF Statement

LEMMA StatementKeepsPositions ==
  ASSUME TablesInv, NEW h \in Handlers, Statement(h)
  PROVE  PositionsTyped'
<1> DEFINE t == Now(h)
<1>1. /\ TodoInv /\ r1 \in Position \cup {None} /\ rotation \in RotationRow \cup {None}
      /\ CopiesTyped(work[h]) /\ work[h].team \in SUBSET Members
  BY DEF TablesInv, PositionsTyped, CopiesTyped
<1>2. CASE UNCHANGED <<r1, rotation>>
  BY <1>1, <1>2 DEF PositionsTyped
<1>3. CASE AdvanceR1(h)
  <2> DEFINE pos == [last |-> t.d, slot |-> SlotOf(work[h].team, t.m)]
  <2>1. /\ rotation' = rotation /\ r1' \in {r1, pos} /\ work[h].todo # <<>> /\ t.do = "advance"
    BY <1>3 DEF AdvanceR1, Doing, Now
  <2>2. t.d \in Days /\ SlotOf(work[h].team, t.m) \in Nat
    BY <1>1, <2>1, HeadIsTyped, SlotsAreNumbers DEF ItemTyped
  <2> HIDE DEF t
  <2>3. pos \in Position
    BY <2>2 DEF Position
  <2> HIDE DEF pos
  <2> QED
    BY <1>1, <2>1, <2>3 DEF PositionsTyped
<1>4. CASE CommitCoverSlot(h)
  <2> DEFINE pos == SlotPosition(h)
             r == IF rotation = None THEN None ELSE rotation.reassign
             full == [last |-> pos.last, slot |-> pos.slot, reassign |-> r]
             part == [rotation EXCEPT !.reassign = pos]
  <2>1. /\ r1' = r1 /\ work[h].todo # <<>> /\ t.do = "slot"
        /\ rotation' = None \/ (rotation # None /\ rotation' = part) \/ rotation' = full
    BY <1>4 DEF CommitCoverSlot, Doing, Now
  <2>2. pos \in Position
    <3>1. t.d \in Days /\ SlotOf(work[h].team, t.c) \in Nat
      BY <1>1, <2>1, HeadIsTyped, SlotsAreNumbers DEF ItemTyped
    <3> HIDE DEF t
    <3> QED
      BY <3>1 DEF SlotPosition, Position, t
  <2> HIDE DEF pos
  <2>3. r \in Position \cup {None}
    BY <1>1 DEF RotationRow
  <2>4. full \in RotationRow
    <3> HIDE DEF r
    <3> QED
      BY <2>2, <2>3 DEF RotationRow, Position
  <2>5. rotation # None => part \in RotationRow
    BY <1>1, <2>2 DEF RotationRow
  <2> HIDE DEF full, part, r
  <2> QED
    BY <1>1, <2>1, <2>4, <2>5 DEF PositionsTyped
<1>5. \/ BuildLeaveIndex(h) \/ FindStale(h) \/ GetDatesWithAssignments(h) \/ GetMembers(h)
      \/ ReadLeaves(h) \/ PickOriginal(h) \/ DetermineCoveringMember(h)
      \/ LoadLeave(h) \/ LoadTeam(h) \/ EnsureOriginalAssignment(h) \/ ReadOtherLeaves(h)
      \/ PickLeaveCover(h) \/ CreateCoverAssignment(h) \/ HandleLeaveChange(h)
      \/ ReassignNext(h) \/ Reply(h)
      => UNCHANGED <<r1, rotation>>
  BY DEF BuildLeaveIndex, FindStale, GetDatesWithAssignments, GetMembers, ReadLeaves, PickOriginal,
         DetermineCoveringMember, LoadLeave, LoadTeam, EnsureOriginalAssignment, ReadOtherLeaves,
         PickLeaveCover, CreateCoverAssignment, HandleLeaveChange, ReassignNext, Reply, tables
<1>6. \/ DropCover(h) \/ DeleteAssignmentsInRange(h) \/ InsertOriginal(h) \/ InsertCover(h)
      \/ RepointCover(h) \/ UpdateLeaveStatus(h) \/ UpdateLeaveRecord(h) \/ DeleteLeaveRecord(h)
      => UNCHANGED <<r1, rotation>>
  BY DEF DropCover, DeleteAssignmentsInRange, InsertOriginal, InsertCover, RepointCover,
         UpdateLeaveStatus, UpdateLeaveRecord, DeleteLeaveRecord
<1> QED
  BY <1>2, <1>3, <1>4, <1>5, <1>6 DEF Statement

-----------------------------------------------------------------------------
(* What the requests begin with. *)

Plain(todo) == Opening(todo) /\ \A t \in Range(todo) : t.do # "edit"

\* The statements of a request about leave l: the record is written first.
AboutLeave(todo, l) ==
  /\ Opening(todo)
  /\ \A t \in Range(todo) : t.do \in {"change", "leave", "edit"} /\ t.l = l
  /\ \A t \in Range(todo) : t.do = "edit" => t.row \in Leave /\ \A s \in Range(todo) : s.do # "leave"
  /\ \E t \in Range(todo) : t.do \in {"change", "leave"}
  /\ \A t \in Rest(todo) : t.do = "change"

Opens(job, about, todo, queue) ==
  \/ job = "ensure" /\ about = today /\ todo = EnsureSteps /\ queue = <<>>
  \/ job = "leave" /\ about \in Leaves /\ AboutLeave(todo, about) /\ queue = <<>>
  \/ job \in {"fill", "generate", "delete", "add", "reassign", "swap"} /\ Plain(todo)

LEMMA PlainLists ==
  /\ Plain(<<>>)
  /\ \A lo, hi : /\ Plain(Reconcile(lo, hi)) /\ Plain(Fill(lo, hi))
                 /\ \A wipe : Plain(Generate(lo, hi, wipe))
  /\ \A l : Plain(<<[do |-> "delete", l |-> l]>>)
  /\ \A s, t : Plain(s) /\ Plain(t) => Plain(s \o t)
<1>1. Plain(<<>>)
  BY RequestsOpen, RangesOfShortLists DEF Plain
<1>2. ASSUME NEW a, a.do # "edit", Opening(<<a>>)
      PROVE  Plain(<<a>>)
  <2> DEFINE q == <<a>>
  <2>1. Range(q) = {a} /\ Opening(q)
    BY <1>2, RangesOfShortLists
  <2> HIDE DEF q
  <2>2. Plain(q)
    BY <1>2, <2>1 DEF Plain
  <2> QED
    BY <2>2 DEF q
<1>3. ASSUME NEW lo, NEW hi
      PROVE  /\ Plain(Reconcile(lo, hi)) /\ Plain(Fill(lo, hi))
             /\ \A wipe : Plain(Generate(lo, hi, wipe))
  <2> DEFINE D == DayRange(lo, hi)
             a == [do |-> "index", days |-> D]
             b == [do |-> "dates", days |-> D]
             c(wipe) == [do |-> "members", days |-> D, wipe |-> wipe]
  <2>1. Opening(<<a>>) /\ Opening(<<b>>) /\ \A wipe : Opening(<<c(wipe)>>)
    BY RequestsOpen DEF Reconcile, Fill, Generate
  <2>2. a.do # "edit" /\ b.do # "edit" /\ \A wipe : c(wipe).do # "edit"
    OBVIOUS
  <2> HIDE DEF a, b, c
  <2>3. Plain(<<a>>) /\ Plain(<<b>>) /\ \A wipe : Plain(<<c(wipe)>>)
    BY <1>2, <2>1, <2>2
  <2> QED
    BY <2>3 DEF a, b, c, D, Reconcile, Fill, Generate
<1>4. ASSUME NEW l
      PROVE  Plain(<<[do |-> "delete", l |-> l]>>)
  <2> DEFINE a == [do |-> "delete", l |-> l]
  <2>1. Opening(<<a>>)
    BY RequestsOpen
  <2>2. a.do # "edit"
    OBVIOUS
  <2> HIDE DEF a
  <2>3. Plain(<<a>>)
    BY <1>2, <2>1, <2>2
  <2> QED
    BY <2>3 DEF a
<1>5. ASSUME NEW s, NEW t, Plain(s), Plain(t)
      PROVE  Plain(s \o t)
  <2>1. Opening(s) /\ Opening(t) /\ IsList(s) /\ IsList(t)
    BY <1>5 DEF Plain, Opening
  <2>2. Opening(s \o t) /\ Range(s \o t) = Range(s) \cup Range(t)
    BY <2>1, RequestsOpen, RangeOfJoin
  <2> QED
    BY <1>5, <2>2 DEF Plain
<1> QED
  BY <1>1, <1>3, <1>4, <1>5

LEMMA LeaveRequestsOpen ==
  /\ \A l \in Leaves : /\ AboutLeave(<<[do |-> "change", l |-> l]>>, l)
                       /\ AboutLeave(<<[do |-> "leave", l |-> l]>>, l)
  /\ \A l \in Leaves, row \in Leave :
       AboutLeave(<<[do |-> "edit", l |-> l, row |-> row], [do |-> "change", l |-> l]>>, l)
<1>1. ASSUME NEW a, NEW l, a.do \in {"change", "leave"}, a.l = l, Opening(<<a>>)
      PROVE  AboutLeave(<<a>>, l)
  <2> DEFINE q == <<a>>
  <2>1. Range(q) = {a} /\ Opening(q)
    BY <1>1, RangesOfShortLists
  <2>3. Rest(q) = {}
    BY DEF Rest
  <2> HIDE DEF q
  <2>2. AboutLeave(q, l)
    BY <1>1, <2>1, <2>3 DEF AboutLeave
  <2> QED
    BY <2>2 DEF q
<1>2. ASSUME NEW l \in Leaves
      PROVE  /\ AboutLeave(<<[do |-> "change", l |-> l]>>, l)
             /\ AboutLeave(<<[do |-> "leave", l |-> l]>>, l)
  <2> DEFINE a == [do |-> "change", l |-> l]
             b == [do |-> "leave", l |-> l]
  <2>1. Opening(<<a>>) /\ Opening(<<b>>)
    BY RequestsOpen
  <2>2. a.do = "change" /\ a.l = l /\ b.do = "leave" /\ b.l = l
    OBVIOUS
  <2> HIDE DEF a, b
  <2>3. AboutLeave(<<a>>, l) /\ AboutLeave(<<b>>, l)
    BY <1>1, <2>1, <2>2
  <2> QED
    BY <2>3 DEF a, b
<1>3. ASSUME NEW l \in Leaves, NEW row \in Leave
      PROVE  AboutLeave(<<[do |-> "edit", l |-> l, row |-> row], [do |-> "change", l |-> l]>>, l)
  <2> DEFINE a == [do |-> "edit", l |-> l, row |-> row]
             b == [do |-> "change", l |-> l]
             q == <<a, b>>
  <2>1. Opening(q)
    BY RequestsOpen
  <2>2. a.do = "edit" /\ a.l = l /\ a.row = row /\ b.do = "change" /\ b.l = l
    OBVIOUS
  <2> HIDE DEF a, b
  <2>3. Range(q) = {a, b}
    BY RangesOfShortLists
  <2>5. Rest(q) = {b}
    <3>1. Len(q) = 2 /\ q[2] = b /\ 2..2 = {2}
      OBVIOUS
    <3> HIDE DEF q
    <3> QED
      BY <3>1 DEF Rest
  <2> HIDE DEF q
  <2>4. AboutLeave(q, l)
    BY <2>1, <2>2, <2>3, <2>5 DEF AboutLeave
  <2> QED
    BY <2>4 DEF q, a, b
<1> QED
  BY <1>2, <1>3

LEMMA RequestsOpenSo ==
  ASSUME RowsTyped, NEW h \in Handlers, ViewDashboard(h) \/ Request(h)
  PROVE  \E job, about, todo, queue :
           Opens(job, about, todo, queue) /\ Begin(h, job, about, todo, queue)
<1> DEFINE Goal == \E job, about, todo, queue :
                     Opens(job, about, todo, queue) /\ Begin(h, job, about, todo, queue)
<1>1. ASSUME Begin(h, "ensure", today, EnsureSteps, <<>>)
      PROVE  Goal
  <2>1. Opens("ensure", today, EnsureSteps, <<>>)
    BY Zenon DEF Opens
  <2> QED
    BY <1>1, <2>1, Zenon
<1>2. ASSUME NEW job \in {"fill", "generate", "delete", "add", "reassign", "swap"}, NEW about, NEW todo,
             NEW queue, Plain(todo), Begin(h, job, about, todo, queue)
      PROVE  Goal
  <2>1. Opens(job, about, todo, queue)
    BY <1>2, Zenon DEF Opens
  <2> QED
    BY <1>2, <2>1, Zenon
<1>3. ASSUME NEW l \in Leaves, NEW todo, AboutLeave(todo, l), Begin(h, "leave", l, todo, <<>>)
      PROVE  Goal
  <2>1. Opens("leave", l, todo, <<>>)
    BY <1>3, Zenon DEF Opens
  <2> QED
    BY <1>3, <2>1, Zenon
<1>4. ASSUME ViewDashboard(h)
      PROVE  Goal
  BY <1>1, <1>4, Zenon DEF ViewDashboard
<1>5. ASSUME Reassign(h)
      PROVE  Goal
  <2>1. Begin(h, "reassign", None, <<>>, Chronological)
    BY <1>5 DEF Reassign
  <2> QED
    BY <1>2, <2>1, PlainLists, Zenon
<1>6. ASSUME NEW lo, NEW hi, GenerateDays(h, lo, hi)
      PROVE  Goal
  <2>1. CASE Begin(h, "fill", None, Fill(lo, hi), <<>>)
    BY <1>2, <2>1, PlainLists, Zenon
  <2>2. CASE \E wipe : Begin(h, "generate", None, Generate(lo, hi, wipe), <<>>)
    BY <1>2, <2>2, PlainLists, Zenon
  <2> QED
    BY <1>6, <2>1, <2>2, Zenon DEF GenerateDays
<1>7. ASSUME NEW lo, NEW hi, SwapDays(h, lo, hi)
      PROVE  Goal
  <2>1. Begin(h, "swap", None, <<>>, <<>>)
    BY <1>7, Zenon DEF SwapDays
  <2> QED
    BY <1>2, <2>1, PlainLists, Zenon
<1>8. ASSUME NEW l \in Leaves, NEW m, NEW lo, NEW hi,
             handleLeaveReportPost(h, l, m, lo, hi) \/ handleReportLeave(h, l, m, lo, hi)
      PROVE  Goal
  <2>1. \/ Begin(h, "leave", l, <<[do |-> "change", l |-> l]>>, <<>>)
        \/ Begin(h, "leave", l, <<[do |-> "leave", l |-> l]>>, <<>>)
    BY <1>8, Zenon DEF handleLeaveReportPost, handleReportLeave
  <2> QED
    BY <1>3, <2>1, LeaveRequestsOpen, Zenon
<1>9. ASSUME NEW l \in Leaves, NEW m \in Members, NEW lo \in Days, NEW hi \in Days, EditLeave(h, l, m, lo, hi)
      PROVE  Goal
  <2> DEFINE row == [member |-> m, from |-> lo, to |-> hi, status |-> leaves[l].status]
  <2>1. /\ leaves[l] # None
        /\ Begin(h, "leave", l, <<[do |-> "edit", l |-> l, row |-> row], [do |-> "change", l |-> l]>>, <<>>)
    BY <1>9, Zenon DEF EditLeave
  <2>2. row \in Leave
    <3>1. leaves[l] \in Leave
      BY <2>1 DEF RowsTyped, LeaveTable
    <3> QED
      BY <3>1 DEF Leave
  <2> HIDE DEF row
  <2>3. AboutLeave(<<[do |-> "edit", l |-> l, row |-> row], [do |-> "change", l |-> l]>>, l)
    BY <2>2, LeaveRequestsOpen, Zenon
  <2> QED
    BY <1>3, <2>1, <2>3, Zenon
<1>10. ASSUME NEW l, DeleteLeave(h, l)
       PROVE  Goal
  <2>1. PICK lo, hi : Begin(h, "delete", None,
                            <<[do |-> "delete", l |-> l]>> \o Reconcile(lo, hi) \o Fill(lo, hi), <<>>)
    BY <1>10, Zenon DEF DeleteLeave
  <2>2. Plain(<<[do |-> "delete", l |-> l]>> \o Reconcile(lo, hi))
    BY PlainLists
  <2>3. Plain(<<[do |-> "delete", l |-> l]>> \o Reconcile(lo, hi) \o Fill(lo, hi))
    BY <2>2, PlainLists
  <2> QED
    BY <1>2, <2>1, <2>3, Zenon
<1>11. ASSUME NEW m, handleTeamPost(h, m) \/ handleAddTeam(h, m) \/ DeleteMember(h, m)
       PROVE  Goal
  <2>1. \/ Begin(h, "ensure", today, EnsureSteps, <<>>)
        \/ Begin(h, "add", today, <<>>, <<>>)
    BY <1>11, Zenon DEF handleTeamPost, handleAddTeam, DeleteMember
  <2> QED
    BY <1>1, <1>2, <2>1, PlainLists, Zenon
<1> HIDE DEF Goal
<1>12. Goal
  <2>1. \/ ViewDashboard(h) \/ Reassign(h)
        \/ \E lo, hi \in Days : GenerateDays(h, lo, hi) \/ SwapDays(h, lo, hi)
        \/ \E lo, hi \in Days, l \in Leaves, m \in Members :
             \/ handleLeaveReportPost(h, l, m, lo, hi) \/ handleReportLeave(h, l, m, lo, hi)
             \/ EditLeave(h, l, m, lo, hi)
        \/ \E l \in Leaves : DeleteLeave(h, l)
        \/ \E m \in Members : handleTeamPost(h, m) \/ handleAddTeam(h, m) \/ DeleteMember(h, m)
    BY Zenon DEF Request
  <2> QED
    <3>1. CASE \E lo, hi \in Days : GenerateDays(h, lo, hi) \/ SwapDays(h, lo, hi)
      BY <1>6, <1>7, <3>1, Zenon
    <3>2. CASE \E lo, hi \in Days, l \in Leaves, m \in Members :
                 \/ handleLeaveReportPost(h, l, m, lo, hi) \/ handleReportLeave(h, l, m, lo, hi)
                 \/ EditLeave(h, l, m, lo, hi)
      BY <1>8, <1>9, <3>2, Zenon
    <3>3. CASE \E m \in Members : handleTeamPost(h, m) \/ handleAddTeam(h, m) \/ DeleteMember(h, m)
      BY <1>11, <3>3, Zenon
    <3> QED
      BY ONLY <1>4, <1>5, <1>10, <2>1, <3>1, <3>2, <3>3
<1> QED
  BY <1>12 DEF Goal

-----------------------------------------------------------------------------
(* Requests, the clock, failures and restarts keep the tables typed. *)

LEMMA SwapKeepsRows ==
  ASSUME RowsTyped, NEW h \in Handlers, NEW d \in Days, NEW e \in Days, SwapDays(h, d, e)
  PROVE  RowsTyped'
<1> DEFINE o1(m) == Held(orig, d, m)
           o2(m) == Marked(o1(m), d)
           o3(m, k) == Held(o2(m), e, k)
           o4(m, k) == Marked(o3(m, k), e)
           c1(k) == Held(cover, e, k)
           c2(k) == Marked(c1(k), e)
           c3(m) == Held(cover, d, m)
           c4(m) == Marked(c3(m), d)
           c5(m, k) == Held(c4(m), e, k)
           c6(m, k) == Marked(c5(m, k), e)
<1>1. /\ orig \in Originals /\ cover \in Covers
      /\ UNCHANGED <<today, team, leaves>>
  BY DEF RowsTyped, SwapDays
<1>2. orig[d] # None => orig[d].member \in Members
  BY <1>1 DEF Originals, OriginalRow
<1>3. ASSUME NEW m \in Members, orig[d] # None
      PROVE  o2(m) \in Originals /\ \A x \in Days : o2(m)[x] = None <=> orig[x] = None
  <2>1. o1(m) \in Originals /\ \A x \in Days : o1(m)[x] = None <=> orig[x] = None
    BY <1>1, <1>3, OriginalHeld
  <2> HIDE DEF o1
  <2>2. o2(m) \in Originals /\ \A x \in Days : o2(m)[x] = None <=> o1(m)[x] = None
    BY <1>1, <1>3, <2>1, OriginalHeld
  <2> HIDE DEF o2
  <2> QED
    BY <2>1, <2>2
<1>4. ASSUME NEW m \in Members, NEW k \in Members, orig[d] # None, orig[e] # None
      PROVE  o4(m, k) \in Originals /\ \A x \in Days : o4(m, k)[x] = None <=> orig[x] = None
  <2>1. o2(m) \in Originals /\ \A x \in Days : o2(m)[x] = None <=> orig[x] = None
    BY <1>3, <1>4
  <2> HIDE DEF o2
  <2>2. o3(m, k) \in Originals /\ \A x \in Days : o3(m, k)[x] = None <=> o2(m)[x] = None
    BY <1>4, <2>1, OriginalHeld
  <2> HIDE DEF o3
  <2>3. o4(m, k) \in Originals /\ \A x \in Days : o4(m, k)[x] = None <=> o3(m, k)[x] = None
    BY <1>4, <2>1, <2>2, OriginalHeld
  <2> HIDE DEF o4
  <2> QED
    BY <2>1, <2>2, <2>3
<1>5. ASSUME NEW k \in Members, cover[e] # None
      PROVE  /\ c2(k) \in Covers /\ \A x \in Days : /\ c2(k)[x] = None <=> cover[x] = None
                                                    /\ cover[x] # None => c2(k)[x].linked = cover[x].linked
  <2>1. /\ c1(k) \in Covers /\ \A x \in Days : /\ c1(k)[x] = None <=> cover[x] = None
                                               /\ cover[x] # None => c1(k)[x].linked = cover[x].linked
    BY <1>1, <1>5, CoverHeld
  <2> HIDE DEF c1
  <2>2. /\ c2(k) \in Covers /\ \A x \in Days : /\ c2(k)[x] = None <=> c1(k)[x] = None
                                               /\ c1(k)[x] # None => c2(k)[x].linked = c1(k)[x].linked
    <3>1. c1(k) \in Covers /\ c1(k)[e] # None
      BY <1>5, <2>1
    <3> QED
      BY <1>5, <3>1, CoverHeld
  <2> HIDE DEF c2
  <2> QED
    BY <2>1, <2>2
<1>6. ASSUME NEW m \in Members, NEW k \in Members, cover[d] # None, cover[e] # None
      PROVE  /\ c6(m, k) \in Covers /\ \A x \in Days : /\ c6(m, k)[x] = None <=> cover[x] = None
                                                       /\ cover[x] # None => c6(m, k)[x].linked = cover[x].linked
  <2>1. /\ c3(m) \in Covers /\ \A x \in Days : /\ c3(m)[x] = None <=> cover[x] = None
                                               /\ cover[x] # None => c3(m)[x].linked = cover[x].linked
    BY <1>1, <1>6, CoverHeld
  <2> HIDE DEF c3
  <2>2. /\ c4(m) \in Covers /\ \A x \in Days : /\ c4(m)[x] = None <=> c3(m)[x] = None
                                               /\ c3(m)[x] # None => c4(m)[x].linked = c3(m)[x].linked
    <3>1. c3(m) \in Covers /\ c3(m)[d] # None
      BY <1>6, <2>1
    <3> QED
      BY <1>6, <3>1, CoverHeld
  <2> HIDE DEF c4
  <2>3. /\ c5(m, k) \in Covers /\ \A x \in Days : /\ c5(m, k)[x] = None <=> c4(m)[x] = None
                                                  /\ c4(m)[x] # None => c5(m, k)[x].linked = c4(m)[x].linked
    <3>1. c4(m) \in Covers /\ c4(m)[e] # None
      BY <1>6, <2>1, <2>2
    <3> QED
      BY <1>6, <3>1, CoverHeld
  <2> HIDE DEF c5
  <2>4. /\ c6(m, k) \in Covers
        /\ \A x \in Days : /\ c6(m, k)[x] = None <=> c5(m, k)[x] = None
                           /\ c5(m, k)[x] # None => c6(m, k)[x].linked = c5(m, k)[x].linked
    <3>1. c5(m, k) \in Covers /\ c5(m, k)[e] # None
      BY <1>6, <2>1, <2>2, <2>3
    <3> QED
      BY <1>6, <3>1, CoverHeld
  <2> HIDE DEF c6
  <2> QED
    BY <2>1, <2>2, <2>3, <2>4
<1>7. \/ /\ orig[d] # None /\ orig[e] # None /\ cover' = cover
         /\ orig' = o4(orig[e].member, orig[d].member)
      \/ /\ orig[d] # None /\ cover[e] # None /\ cover' = c2(orig[d].member)
         /\ orig' = o2(cover[e].member)
      \/ /\ cover[d] # None /\ cover[e] # None /\ cover' = c6(cover[e].member, cover[d].member)
         /\ orig' = orig
  BY DEF SwapDays, Held, Marked
<1> HIDE DEF o2, o4, c2, c6
<1>8. /\ orig' \in Originals /\ \A x \in Days : orig'[x] = None <=> orig[x] = None
      /\ cover' \in Covers
      /\ \A x \in Days : /\ cover'[x] = None <=> cover[x] = None
                         /\ cover[x] # None => cover'[x].linked = cover[x].linked
  <2>1. CASE /\ orig[d] # None /\ orig[e] # None /\ cover' = cover
             /\ orig' = o4(orig[e].member, orig[d].member)
    <3>1. orig[e].member \in Members
      BY <1>1, <2>1 DEF Originals, OriginalRow
    <3> QED
      BY <1>1, <1>2, <1>4, <2>1, <3>1
  <2>2. CASE /\ orig[d] # None /\ cover[e] # None /\ cover' = c2(orig[d].member)
             /\ orig' = o2(cover[e].member)
    <3>1. cover[e].member \in Members
      BY <1>1, <2>2 DEF Covers, CoverRow
    <3>2. o2(cover[e].member) \in Originals /\ \A x \in Days : o2(cover[e].member)[x] = None <=> orig[x] = None
      BY <1>3, <2>2, <3>1
    <3>3. \A k \in Members :
            /\ c2(k) \in Covers /\ \A x \in Days : /\ c2(k)[x] = None <=> cover[x] = None
                                                   /\ cover[x] # None => c2(k)[x].linked = cover[x].linked
      BY <1>5, <2>2
    <3> QED
      BY <1>2, <2>2, <3>2, <3>3
  <2>3. CASE /\ cover[d] # None /\ cover[e] # None
             /\ cover' = c6(cover[e].member, cover[d].member) /\ orig' = orig
    <3>1. cover[d].member \in Members /\ cover[e].member \in Members
      BY <1>1, <2>3 DEF Covers, CoverRow
    <3> DEFINE p == c6(cover[e].member, cover[d].member)
    <3>2. /\ p \in Covers /\ \A x \in Days : /\ p[x] = None <=> cover[x] = None
                                             /\ cover[x] # None => p[x].linked = cover[x].linked
      BY <1>6, <2>3, <3>1
    <3>3. cover' = p /\ orig' = orig
      BY <2>3
    <3> HIDE DEF p
    <3> QED
      BY <1>1, <3>2, <3>3
  <2> QED
    BY <1>7, <2>1, <2>2, <2>3
<1> QED
  BY <1>1, <1>8 DEF RowsTyped, Linked

LEMMA MemberDeletionKeepsRows ==
  ASSUME RowsTyped, NEW h \in Handlers, NEW m, DeleteMember(h, m)
  PROVE  RowsTyped'
<1>1. /\ today' = today /\ team' = team \ {m}
      /\ leaves' = [l \in Leaves |-> IF leaves[l] # None /\ leaves[l].member = m THEN None ELSE leaves[l]]
      /\ orig' = [d \in Days |-> IF orig[d] # None /\ orig[d].member = m THEN None ELSE orig[d]]
      /\ cover' = [d \in Days |-> IF cover[d] = None \/ cover[d].member = m THEN None
                                  ELSE [cover[d] EXCEPT !.linked = @ /\ orig'[d] # None]]
  BY DEF DeleteMember
<1>2. /\ today \in Days /\ team \in SUBSET Members
      /\ leaves \in LeaveTable /\ orig \in Originals /\ cover \in Covers
  BY DEF RowsTyped
<1>3. leaves' \in LeaveTable /\ orig' \in Originals
  BY <1>1, <1>2 DEF LeaveTable, Originals
<1>4. ASSUME NEW d \in Days
      PROVE  /\ cover'[d] \in CoverRow \cup {None}
             /\ cover'[d] # None /\ cover'[d].linked => orig'[d] # None
  <2> DEFINE on == cover[d].linked /\ orig'[d] # None
             r == [cover[d] EXCEPT !.linked = on]
  <2>1. CASE cover[d] = None \/ cover[d].member = m
    BY <1>1, <2>1
  <2>2. CASE cover[d] # None /\ cover[d].member # m
    <3>1. cover[d] \in CoverRow /\ on \in BOOLEAN /\ (on => orig'[d] # None)
      BY <1>2, <2>2 DEF Covers, CoverRow
    <3>2. cover'[d] = r
      BY <1>1, <2>2
    <3> HIDE DEF on
    <3>3. r \in CoverRow /\ r.linked = on
      BY <3>1 DEF CoverRow
    <3> HIDE DEF r
    <3> QED
      BY <3>1, <3>2, <3>3
  <2> QED
    BY <2>1, <2>2
<1>5. cover' \in Covers
  <2>1. cover' = [d \in Days |-> cover'[d]]
    BY <1>1
  <2> QED
    BY <1>4, <2>1 DEF Covers
<1> QED
  BY <1>1, <1>2, <1>3, <1>4, <1>5 DEF RowsTyped, Linked

LEMMA LeaveReportKeepsRows ==
  ASSUME RowsTyped, NEW l \in Leaves, NEW m \in Members, NEW lo \in Days, NEW hi \in Days,
         CreateLeaveRecord(l, m, lo, hi)
  PROVE  RowsTyped'
<1> DEFINE row == [member |-> m, from |-> lo, to |-> hi, status |-> "pending"]
<1>1. leaves' = [leaves EXCEPT ![l] = row] /\ UNCHANGED <<today, team, orig, cover>>
  BY DEF CreateLeaveRecord
<1>2. row \in Leave
  BY DEF Leave
<1> HIDE DEF row
<1> QED
  BY <1>1, <1>2 DEF RowsTyped, LeaveTable, Linked

LEMMA RequestKeepsTables ==
  ASSUME TablesInv, NEW h \in Handlers, ViewDashboard(h) \/ Request(h)
  PROVE  RowsTyped' /\ UNCHANGED <<r1, rotation>>
<1>0. RowsTyped
  BY DEF TablesInv
<1>1. ASSUME ViewDashboard(h) \/ Reassign(h)
      PROVE  RowsTyped' /\ UNCHANGED <<r1, rotation>>
  BY <1>0, <1>1, RowsStay DEF ViewDashboard, Reassign, tables
<1>2. ASSUME NEW lo \in Days, NEW hi \in Days, GenerateDays(h, lo, hi)
      PROVE  RowsTyped' /\ UNCHANGED <<r1, rotation>>
  BY <1>0, <1>2, RowsStay DEF GenerateDays, tables
<1>3. ASSUME NEW lo \in Days, NEW hi \in Days, SwapDays(h, lo, hi)
      PROVE  RowsTyped' /\ UNCHANGED <<r1, rotation>>
  <2>1. UNCHANGED <<r1, rotation>>
    BY <1>3 DEF SwapDays
  <2> QED
    BY <1>0, <1>3, <2>1, SwapKeepsRows
<1>4. ASSUME NEW lo \in Days, NEW hi \in Days, NEW l \in Leaves, NEW m \in Members,
             \/ handleLeaveReportPost(h, l, m, lo, hi) \/ handleReportLeave(h, l, m, lo, hi)
      PROVE  RowsTyped' /\ UNCHANGED <<r1, rotation>>
  <2>1. CreateLeaveRecord(l, m, lo, hi)
    BY <1>4 DEF handleLeaveReportPost, handleReportLeave
  <2>2. UNCHANGED <<r1, rotation>>
    BY <2>1 DEF CreateLeaveRecord
  <2> QED
    BY <1>0, <2>1, <2>2, LeaveReportKeepsRows
<1>5. ASSUME NEW lo \in Days, NEW hi \in Days, NEW l \in Leaves, NEW m \in Members,
             EditLeave(h, l, m, lo, hi)
      PROVE  RowsTyped' /\ UNCHANGED <<r1, rotation>>
  BY <1>0, <1>5, RowsStay DEF EditLeave, tables
<1>6. ASSUME NEW l \in Leaves, DeleteLeave(h, l)
      PROVE  RowsTyped' /\ UNCHANGED <<r1, rotation>>
  BY <1>0, <1>6, RowsStay DEF DeleteLeave, tables
<1>7. ASSUME NEW m \in Members, handleTeamPost(h, m) \/ handleAddTeam(h, m)
      PROVE  RowsTyped' /\ UNCHANGED <<r1, rotation>>
  <2>1. team' = team \cup {m} /\ UNCHANGED <<today, leaves, orig, cover, r1, rotation>>
    BY <1>7 DEF handleTeamPost, handleAddTeam, AddTeamMember
  <2> QED
    BY <1>0, <2>1 DEF RowsTyped, Linked
<1>8. ASSUME NEW m \in Members, DeleteMember(h, m)
      PROVE  RowsTyped' /\ UNCHANGED <<r1, rotation>>
  <2>1. UNCHANGED <<r1, rotation>>
    BY <1>8 DEF DeleteMember
  <2> QED
    BY <1>0, <1>8, <2>1, MemberDeletionKeepsRows
<1>9. \/ ViewDashboard(h) \/ Reassign(h)
      \/ \E lo, hi \in Days : GenerateDays(h, lo, hi) \/ SwapDays(h, lo, hi)
      \/ \E lo, hi \in Days, l \in Leaves, m \in Members :
           \/ handleLeaveReportPost(h, l, m, lo, hi) \/ handleReportLeave(h, l, m, lo, hi)
           \/ EditLeave(h, l, m, lo, hi)
      \/ \E l \in Leaves : DeleteLeave(h, l)
      \/ \E m \in Members : handleTeamPost(h, m) \/ handleAddTeam(h, m) \/ DeleteMember(h, m)
  BY Zenon DEF Request
<1>10. CASE \E lo, hi \in Days : GenerateDays(h, lo, hi) \/ SwapDays(h, lo, hi)
  BY <1>2, <1>3, <1>10, Zenon
<1>11. CASE \E lo, hi \in Days, l \in Leaves, m \in Members :
              \/ handleLeaveReportPost(h, l, m, lo, hi) \/ handleReportLeave(h, l, m, lo, hi)
              \/ EditLeave(h, l, m, lo, hi)
  BY <1>4, <1>5, <1>11, Zenon
<1>12. CASE \E m \in Members : handleTeamPost(h, m) \/ handleAddTeam(h, m) \/ DeleteMember(h, m)
  BY <1>7, <1>8, <1>12, Zenon
<1> QED
  BY <1>1, <1>6, <1>9, <1>10, <1>11, <1>12, Zenon

LEMMA CopiesBegin ==
  ASSUME TablesInv, NEW h \in Handlers, NEW job, NEW about, NEW todo, NEW queue,
         Opens(job, about, todo, queue), Begin(h, job, about, todo, queue)
  PROVE  TodoInv' /\ \A g \in Handlers : CopiesTyped(work'[g])
<1>1. TodoInv /\ WorkOK /\ \A g \in Handlers : CopiesTyped(work[g])
  BY DEF TablesInv, TodoInv
<1>2. Plain(EnsureSteps)
  BY PlainLists DEF EnsureSteps
<1>3. Opening(todo) /\ IsList(todo)
  BY <1>2 DEF Opens, Plain, AboutLeave, Opening
<1>4. \A t \in Range(todo) : t.do = "edit" => t.row \in Leave
  BY <1>2 DEF Opens, Plain, AboutLeave
<1>5. TodoInv' /\ work'[h].todo = todo /\ work'[h].team = {} /\ work'[h].anchor = None
  BY <1>1, <1>3, BeginKeepsTypes, BeginStarts
<1>6. \A g \in Handlers : g # h => work'[g] = work[g]
  BY <1>1 DEF Begin, WorkOK
<1>7. CopiesTyped(work'[h])
  BY <1>4, <1>5 DEF CopiesTyped
<1> QED
  BY <1>1, <1>5, <1>6, <1>7

LEMMA IdleCopies ==
  /\ CopiesTyped(Idle)
  /\ \A job, queue : CopiesTyped([Idle EXCEPT !.job = job, !.queue = queue])
<1> DEFINE empty == <<>>
           none == {}
           no == FALSE
<1>1. Idle = [job |-> "none", about |-> None, todo |-> empty, queue |-> empty, team |-> none,
              anchor |-> None, failed |-> no]
  BY DEF Idle
<1>2. Range(empty) = {} /\ none \in SUBSET Members
  BY RangesOfShortLists
<1> HIDE DEF empty, none, no
<1>3. CopiesTyped(Idle)
  BY <1>1, <1>2 DEF CopiesTyped
<1>4. ASSUME NEW job, NEW queue
      PROVE  CopiesTyped([Idle EXCEPT !.job = job, !.queue = queue])
  <2> DEFINE v == [Idle EXCEPT !.job = job]
             w == [Idle EXCEPT !.job = job, !.queue = queue]
  <2>1. w = [v EXCEPT !.queue = queue]
    OBVIOUS
  <2> HIDE DEF w
  <2>2. v = [job |-> job, about |-> None, todo |-> empty, queue |-> empty, team |-> none,
             anchor |-> None, failed |-> no]
    BY <1>1
  <2> HIDE DEF v
  <2>3. w = [job |-> job, about |-> None, todo |-> empty, queue |-> queue, team |-> none,
             anchor |-> None, failed |-> no]
    BY <2>1, <2>2
  <2>4. CopiesTyped(w)
    BY <1>2, <2>3 DEF CopiesTyped
  <2> QED
    BY <2>4 DEF w
<1> QED
  BY <1>3, <1>4

LEMMA StatementKeepsCopies ==
  ASSUME TablesInv, NEW h \in Handlers, Statement(h)
  PROVE  \A g \in Handlers : CopiesTyped(work'[g])
<1>1. /\ TodoInv /\ WorkOK /\ team \in SUBSET Members /\ work[h].team \in SUBSET Members
      /\ \A g \in Handlers : CopiesTyped(work[g])
  BY DEF TablesInv, TodoInv, RowsTyped, CopiesTyped
<1>2. CASE ReassignNext(h)
  <2>1. /\ \A g \in Handlers : g # h => work'[g] = work[g]
        /\ work'[h].team = work[h].team /\ work'[h].anchor = work[h].anchor
        /\ \A s \in Range(work'[h].todo) : s.do = "index" \/ s.do = "leave"
    BY <1>1, <1>2, NextLeaveTaken
  <2>2. CopiesTyped(work'[h])
    BY <1>1, <2>1 DEF CopiesTyped
  <2> QED
    BY <1>1, <2>1, <2>2
<1>3. CASE Reply(h)
  <2>1. work' = [work EXCEPT ![h] = Idle]
    BY <1>3 DEF Reply
  <2>2. \A g \in Handlers : work'[g] = Idle \/ work'[g] = work[g]
    BY <1>1, <2>1 DEF WorkOK
  <2> QED
    BY <1>1, <2>2, IdleCopies
<1>4. CASE ~ReassignNext(h) /\ ~Reply(h)
  <2>1. \/ Abort(h)
        \/ \E S, ms : /\ Continues(h, S, ms) /\ ms \in {work[h].team, team}
                      /\ \A s \in S : s.do # "edit"
    BY <1>1, <1>4, StatementContinues
  <2>2. CASE Abort(h)
    BY <2>2, CopiesAbort
  <2>3. ASSUME NEW S, NEW ms, Continues(h, S, ms), ms \in {work[h].team, team},
               \A s \in S : s.do # "edit"
        PROVE  \A g \in Handlers : CopiesTyped(work'[g])
    <3>1. ms \in SUBSET Members
      BY <1>1, <2>3
    <3> QED
      BY <2>3, <3>1, CopiesContinue
  <2> QED
    BY <2>1, <2>2, <2>3
<1> QED
  BY <1>2, <1>3, <1>4

LEMMA FailKeepsCopies ==
  ASSUME TablesInv, NEW h \in Handlers, Fail(h)
  PROVE  \A g \in Handlers : CopiesTyped(work'[g])
<1>1. TodoInv /\ work[h].team \in SUBSET Members
  BY DEF TablesInv, CopiesTyped
<1>2. Abort(h) \/ Continues(h, {}, work[h].team)
  BY <1>1, FailedRuns
<1> DEFINE S == {}
<1>3. \A s \in S : s.do # "edit"
  OBVIOUS
<1>4. CASE Continues(h, S, work[h].team)
  <2> HIDE DEF S
  <2> QED
    BY <1>1, <1>3, <1>4, CopiesContinue
<1> QED
  BY <1>2, <1>4, CopiesAbort

LEMMA TablesAtFirst ==
  ASSUME Init
  PROVE  TablesInv
<1>1. /\ today = 0 /\ team \in Teams /\ leaves = [l \in Leaves |-> None]
      /\ orig = [d \in Days |-> None] /\ cover = [d \in Days |-> None]
      /\ r1 = None /\ rotation = None /\ work = [h \in Handlers |-> Idle]
  BY DEF Init
<1>2. TodoInv
  <2>1. \A h \in Handlers : IsRequest(work[h]) /\ Typed(work[h])
    BY <1>1, IdleIsTyped
  <2> QED
    BY <1>1, <2>1 DEF TodoInv, WorkOK
<1>3. today \in Days /\ team \in SUBSET Members
  BY <1>1, RotaAssumption DEF Days
<1>4. RowsTyped
  BY <1>1, <1>3 DEF RowsTyped, LeaveTable, Originals, Covers, Linked
<1>5. PositionsTyped
  BY <1>1 DEF PositionsTyped
<1>6. \A h \in Handlers : CopiesTyped(work[h])
  BY <1>1, IdleCopies
<1> QED
  BY <1>2, <1>4, <1>5, <1>6 DEF TablesInv

LEMMA TablesInductive ==
  ASSUME TablesInv, [Next]_vars
  PROVE  TablesInv'
<1>1. TodoInv /\ WorkOK /\ RowsTyped /\ PositionsTyped /\ \A g \in Handlers : CopiesTyped(work[g])
  BY DEF TablesInv, TodoInv
<1>2. ASSUME NEW h \in Handlers, ViewDashboard(h) \/ Request(h)
      PROVE  TablesInv'
  <2>1. RowsTyped' /\ UNCHANGED <<r1, rotation>>
    BY <1>2, RequestKeepsTables
  <2>2. PICK job, about, todo, queue :
          Opens(job, about, todo, queue) /\ Begin(h, job, about, todo, queue)
    BY <1>1, <1>2, RequestsOpenSo
  <2>3. TodoInv' /\ \A g \in Handlers : CopiesTyped(work'[g])
    BY <2>2, CopiesBegin
  <2> QED
    BY <1>1, <2>1, <2>3 DEF TablesInv, PositionsTyped
<1>3. ASSUME NEW h \in Handlers, Statement(h)
      PROVE  TablesInv'
  <2>1. TodoInv' /\ RowsTyped' /\ PositionsTyped' /\ \A g \in Handlers : CopiesTyped(work'[g])
    BY <1>1, <1>3, StatementKeepsTypes, StatementKeepsRows, StatementKeepsPositions, StatementKeepsCopies
  <2> QED
    BY <2>1 DEF TablesInv
<1>4. ASSUME NEW h \in Handlers, Fail(h)
      PROVE  TablesInv'
  <2>1. UNCHANGED tables
    BY <1>4 DEF Fail
  <2>2. TodoInv' /\ \A g \in Handlers : CopiesTyped(work'[g])
    BY <1>1, <1>4, FailKeepsTypes, FailKeepsCopies
  <2>3. RowsTyped' /\ PositionsTyped'
    BY <1>1, <2>1, RowsStay DEF tables, PositionsTyped
  <2> QED
    BY <2>2, <2>3 DEF TablesInv
<1>5. ASSUME NEW h \in Handlers, Restart(h)
      PROVE  TablesInv'
  <2>1. UNCHANGED tables
    BY <1>5 DEF Restart
  <2>2. TodoInv'
    BY <1>5, RestartKeepsTypes
  <2>3. RowsTyped' /\ PositionsTyped'
    BY <1>1, <2>1, RowsStay DEF tables, PositionsTyped
  <2> DEFINE w == [Idle EXCEPT !.job = "boot", !.queue = Chronological]
  <2>4. work' = [g \in Handlers |-> IF g = h THEN w ELSE Idle]
    BY <1>5 DEF Restart
  <2>5. CopiesTyped(w) /\ CopiesTyped(Idle)
    BY IdleCopies
  <2> HIDE DEF w
  <2>6. \A g \in Handlers : CopiesTyped(work'[g])
    BY <2>4, <2>5
  <2> QED
    BY <2>2, <2>3, <2>6 DEF TablesInv
<1>6. CASE Tick
  <2>1. /\ today' = today + 1 /\ today < LastDay
        /\ leaves' = [l \in Leaves |-> IF leaves[l] # None /\ leaves[l].to < today' THEN None ELSE leaves[l]]
        /\ UNCHANGED <<team, orig, cover, r1, rotation, work>>
    BY <1>6 DEF Tick
  <2>2. today' \in Days
    BY <1>1, <2>1, RotaAssumption DEF RowsTyped, Days
  <2>3. leaves' \in LeaveTable
    BY <1>1, <2>1 DEF RowsTyped, LeaveTable
  <2>4. RowsTyped'
    BY <1>1, <2>1, <2>2, <2>3 DEF RowsTyped, Linked
  <2> QED
    BY <1>1, <2>1, <2>4 DEF TablesInv, TodoInv, WorkOK, Typed, IsRequest, PositionsTyped
<1>7. CASE UNCHANGED vars
  <2>1. UNCHANGED <<today, team, leaves, orig, cover, r1, rotation, work>>
    BY <1>7 DEF vars
  <2>2. RowsTyped'
    BY <1>1, <2>1, RowsStay
  <2> QED
    BY <1>1, <2>1, <2>2 DEF TablesInv, TodoInv, WorkOK, Typed, IsRequest, PositionsTyped
<1> QED
  BY <1>2, <1>3, <1>4, <1>5, <1>6, <1>7 DEF Next

(* The tables stay what the schema says, whatever requests interleave, fail *)
(* or are cut short by a restart: assignments and leaves belong to members, *)
(* positions lie in the calendar, a linked cover has an original to stand   *)
(* in for, and a request keeps copies of such rows only.                    *)
THEOREM TablesAreTyped == Spec => []TablesInv
<1>1. Init => TablesInv
  BY TablesAtFirst
<1>2. TablesInv /\ [Next]_vars => TablesInv'
  BY TablesInductive
<1> QED
  BY <1>1, <1>2, PTL DEF Spec

-----------------------------------------------------------------------------
(* EnsureSchedule repairs the window: the invariant. *)

\* What a statement of EnsureSchedule has read is still true of the days to come.
Sound(t) ==
  /\ t.do \in {"index", "compare", "drop", "dates", "members", "leaves", "r1", "r2", "slot",
               "original", "advance", "cover"}
  /\ t.do = "members" => ~t.wipe
  /\ t.do = "compare" => \A d \in t.days : today <= d => t.away[d] = OnLeave(d)
  /\ t.do = "drop" /\ today <= t.d => orig[t.d] # None /\ orig[t.d].member \notin OnLeave(t.d)
  /\ t.do = "r1" /\ today <= t.d => t.away = OnLeave(t.d)
  /\ t.do = "r2" /\ today <= t.d => t.m \in OnLeave(t.d)
  /\ t.do = "original" /\ today <= t.d /\ t.c # t.m => t.m \in OnLeave(t.d)
  /\ t.do = "cover" /\ today <= t.d => orig[t.d] # None /\ orig[t.d].member \in OnLeave(t.d)

\* Statement t leads to an original for day d.
Assigns(t, d) ==
  \/ t.do \in {"dates", "members"} /\ d \in t.days
  \/ t.do \in {"leaves", "r1", "r2", "original"} /\ t.d = d

IsAssigned(d) == orig[d] # None \/ cover[d] # None

\* The cover of day d stands in for a member who is not on leave.
Stale(d) == cover[d] # None /\ cover[d].linked /\ orig[d].member \notin OnLeave(d)

\* Statement t leads to the deletion of the stale cover of day d.
Clears(t, d) ==
  \/ t.do \in {"index", "compare"} /\ d \in t.days
  \/ t.do = "drop" /\ t.d = d /\ t.id = cover[d].id

\* A day of the window that is not in order has a statement to come that sees to it.
InHand(h, d) ==
  /\ IsAssigned(d) \/ \E t \in Range(work[h].todo) : Assigns(t, d)
  /\ Stale(d) => \E t \in Range(work[h].todo) : Clears(t, d)

ToCome(h) == {d \in Window(work[h].about) \cap Working : today <= d}

Ensuring(h) == work[h].job = "ensure" /\ ~work[h].failed

EnsureInv ==
  /\ TablesInv
  /\ \A h \in Handlers : Ensuring(h) =>
       /\ work[h].queue = <<>>
       /\ \A t \in Range(work[h].todo) : Sound(t)
       /\ \A d \in ToCome(h) : InHand(h, d)

-----------------------------------------------------------------------------
(* EnsureSchedule repairs the window: the statements. *)

\* The statements of h other than the next one.
Others(h) == Range(work[h].todo) \ {Now(h)}

LEMMA EnsureContinues ==
  ASSUME OneHandler, EnsureInv, TablesInv', NEW h \in Handlers, Ensuring(h),
         NEW S, NEW ms, Continues(h, S, ms), today' = today,
         \A s \in S : Sound(s)',
         \A t \in Range(work[h].todo) : Sound(t) => Sound(t)',
         \A d \in ToCome(h) : /\ IsAssigned(d)' \/ \E t \in S \cup Others(h) : Assigns(t, d)
                              /\ Stale(d)' => \E t \in S \cup Others(h) : Clears(t, d)'
  PROVE  EnsureInv'
<1>1. /\ work'[h].job = work[h].job /\ work'[h].about = work[h].about
      /\ work'[h].queue = work[h].queue
      /\ S \subseteq Range(work'[h].todo) /\ Range(work'[h].todo) \subseteq S \cup Rest(work[h].todo)
      /\ Range(work[h].todo) \subseteq {Now(h)} \cup Range(work'[h].todo)
  BY DEF Continues
<1>2. /\ work[h].queue = <<>> /\ \A t \in Range(work[h].todo) : Sound(t)
      /\ Rest(work[h].todo) \subseteq Range(work[h].todo)
  BY RangeOfLists DEF EnsureInv, TablesInv, TodoInv, WorkOK, IsRequest
<1>3. S \cup Others(h) \subseteq Range(work'[h].todo)
  BY <1>1 DEF Others
<1>4. \A t \in Range(work'[h].todo) : Sound(t)'
  BY <1>1, <1>2
<1>5. \A d : d \in ToCome(h)' => d \in ToCome(h)
  BY <1>1 DEF ToCome, Window
<1>6. \A d \in ToCome(h)' : InHand(h, d)'
  BY <1>3, <1>5 DEF InHand
<1>7. \A g \in Handlers : g = h
  BY DEF OneHandler
<1> QED
  BY <1>1, <1>2, <1>4, <1>6, <1>7 DEF EnsureInv

\* A statement that reads what concerns the days of the window.
LEMMA EnsureReads ==
  ASSUME OneHandler, EnsureInv, TablesInv', NEW h \in Handlers, Ensuring(h),
         NEW S, NEW ms, Continues(h, S, ms), UNCHANGED <<today, leaves, orig, cover>>,
         \A s \in S : Sound(s),
         \A d \in ToCome(h) :
           /\ Assigns(Now(h), d) => IsAssigned(d) \/ \E s \in S : Assigns(s, d)
           /\ Clears(Now(h), d) /\ Stale(d) => \E s \in S : Clears(s, d)
  PROVE  EnsureInv'
<1>1. \A t : Sound(t)' <=> Sound(t)
  BY DEF Sound, OnLeave
<1>2. \A d : /\ IsAssigned(d)' <=> IsAssigned(d)
             /\ Stale(d)' <=> Stale(d)
             /\ \A t : Clears(t, d)' <=> Clears(t, d)
  BY DEF IsAssigned, Stale, Clears, OnLeave
<1>3. ASSUME NEW d \in ToCome(h)
      PROVE  /\ IsAssigned(d)' \/ \E t \in S \cup Others(h) : Assigns(t, d)
             /\ Stale(d)' => \E t \in S \cup Others(h) : Clears(t, d)'
  <2>1. InHand(h, d)
    BY <1>3 DEF EnsureInv
  <2>2. IsAssigned(d) \/ \E t \in S \cup Others(h) : Assigns(t, d)
    BY <2>1 DEF InHand, Others
  <2>3. Stale(d) => \E t \in S \cup Others(h) : Clears(t, d)
    BY <2>1 DEF InHand, Others
  <2> QED
    BY <1>2, <2>2, <2>3
<1> QED
  BY <1>1, <1>3, EnsureContinues

LEMMA EnsureStatementIsSound ==
  ASSUME EnsureInv, NEW h \in Handlers, Ensuring(h), work[h].todo # <<>>
  PROVE  Sound(Now(h)) /\ ItemTyped(Now(h)) /\ TodoInv /\ TablesInv
<1>1. TodoInv /\ TablesInv /\ IsList(work[h].todo)
  BY DEF EnsureInv, TablesInv, TodoInv, WorkOK, IsRequest
<1>2. Now(h) \in Range(work[h].todo) /\ ItemTyped(Now(h))
  BY <1>1, HeadIsTyped, RangeOfLists
<1> QED
  BY <1>1, <1>2 DEF EnsureInv

LEMMA EnsureCompares ==
  ASSUME OneHandler, EnsureInv, TablesInv', NEW h \in Handlers, Ensuring(h),
         BuildLeaveIndex(h) \/ FindStale(h)
  PROVE  EnsureInv'
<1> DEFINE t == Now(h)
<1>1. work[h].todo # <<>>
  BY DEF BuildLeaveIndex, FindStale, Doing
<1>2. Sound(t) /\ ItemTyped(t) /\ TodoInv /\ TablesInv
  BY <1>1, EnsureStatementIsSound
<1>3. CASE BuildLeaveIndex(h)
  <2>1. /\ t.do = "index" /\ UNCHANGED <<tables, bounds>>
        /\ \E s : /\ Continues(h, {s}, work[h].team)
                  /\ s.do = "compare" /\ s.days = t.days /\ \A d \in s.days : s.away[d] = OnLeave(d)
    BY <1>2, <1>3, IndexRuns
  <2>2. PICK s : /\ Continues(h, {s}, work[h].team)
                 /\ s.do = "compare" /\ s.days = t.days /\ \A d \in s.days : s.away[d] = OnLeave(d)
    BY <2>1
  <2> HIDE DEF t
  <2>3. Sound(s)
    BY <2>2 DEF Sound
  <2>4. \A d : /\ ~Assigns(t, d)
               /\ Clears(t, d) => Clears(s, d)
    BY <2>1, <2>2 DEF Assigns, Clears
  <2> DEFINE S == {s}
  <2>5. Continues(h, S, work[h].team) /\ \A x \in S : Sound(x)
    BY <2>2, <2>3
  <2>6. \A d : Clears(t, d) => \E x \in S : Clears(x, d)
    BY <2>4
  <2>7. UNCHANGED <<today, leaves, orig, cover>>
    BY <2>1 DEF tables
  <2> HIDE DEF S
  <2> QED
    BY <2>4, <2>5, <2>6, <2>7, EnsureReads DEF t
<1>4. CASE FindStale(h)
  <2>1. /\ t.do = "compare" /\ UNCHANGED <<tables, bounds>>
        /\ \E S : /\ Continues(h, S, work[h].team)
                  /\ \A s \in S : s.do = "drop" /\ s.d \in StaleDays(h) /\ s.id = cover[s.d].id
                  /\ \A d \in StaleDays(h) : \E s \in S : s.d = d
    BY <1>2, <1>4, CompareRuns
  <2>2. PICK S : /\ Continues(h, S, work[h].team)
                 /\ \A s \in S : s.do = "drop" /\ s.d \in StaleDays(h) /\ s.id = cover[s.d].id
                 /\ \A d \in StaleDays(h) : \E s \in S : s.d = d
    BY <2>1
  <2>3. UNCHANGED <<today, leaves, orig, cover>>
    BY <2>1 DEF tables
  <2>4. StaleDays(h) = {e \in t.days : IsStale(e, t.away)}
    BY DEF StaleDays
  <2> HIDE DEF t
  <2>5. t.days \subseteq Days /\ \A d \in t.days : today <= d => t.away[d] = OnLeave(d)
    BY <1>2, <2>1 DEF ItemTyped, Sound
  <2>6. ASSUME NEW s \in S
        PROVE  Sound(s)
    <3>1. s.do = "drop" /\ s.d \in t.days /\ IsStale(s.d, t.away) /\ s.d \in Days
      BY <2>2, <2>4, <2>5
    <3>2. orig[s.d] # None /\ orig[s.d].member \notin t.away[s.d]
      BY <1>2, <3>1 DEF IsStale, TablesInv, RowsTyped, Linked
    <3> QED
      BY <2>5, <3>1, <3>2 DEF Sound
  <2>7. ASSUME NEW d \in ToCome(h), Clears(t, d), Stale(d)
        PROVE  \E s \in S : Clears(s, d)
    <3>1. d \in t.days /\ today <= d
      BY <2>1, <2>7 DEF Clears, ToCome
    <3>2. d \in StaleDays(h)
      BY <2>4, <2>5, <2>7, <3>1 DEF Stale, IsStale
    <3>3. PICK s \in S : s.d = d
      BY <2>2, <3>2
    <3> QED
      BY <2>2, <3>3 DEF Clears
  <2>8. \A d : ~Assigns(t, d)
    BY <2>1 DEF Assigns
  <2> QED
    BY <2>2, <2>3, <2>6, <2>7, <2>8, EnsureReads DEF t
<1> QED
  BY <1>3, <1>4

LEMMA EnsurePlans ==
  ASSUME OneHandler, EnsureInv, TablesInv', NEW h \in Handlers, Ensuring(h),
         GetDatesWithAssignments(h) \/ GetMembers(h), ~Abort(h)
  PROVE  EnsureInv'
<1> DEFINE t == Now(h)
<1>1. work[h].todo # <<>>
  BY DEF GetDatesWithAssignments, GetMembers, Doing
<1>2. Sound(t) /\ ItemTyped(t) /\ TodoInv /\ TablesInv
  BY <1>1, EnsureStatementIsSound
<1>3. CASE GetDatesWithAssignments(h)
  <2>1. /\ t.do = "dates" /\ UNCHANGED <<tables, bounds>>
        /\ \E s : /\ Continues(h, {s}, work[h].team)
                  /\ s.do = "members" /\ s.days = Unassigned(t.days) /\ ~s.wipe
    BY <1>2, <1>3, DatesRun
  <2>2. PICK s : /\ Continues(h, {s}, work[h].team)
                 /\ s.do = "members" /\ s.days = Unassigned(t.days) /\ ~s.wipe
    BY <2>1
  <2> HIDE DEF t
  <2>3. Sound(s)
    BY <2>2 DEF Sound
  <2>4. \A d : /\ ~Clears(t, d)
               /\ Assigns(t, d) => IsAssigned(d) \/ Assigns(s, d)
    BY <2>1, <2>2 DEF Assigns, Clears, IsAssigned, Unassigned
  <2> DEFINE S == {s}
  <2>5. Continues(h, S, work[h].team) /\ \A x \in S : Sound(x)
    BY <2>2, <2>3
  <2>6. \A d : Assigns(t, d) => IsAssigned(d) \/ \E x \in S : Assigns(x, d)
    BY <2>4
  <2>7. UNCHANGED <<today, leaves, orig, cover>>
    BY <2>1 DEF tables
  <2> HIDE DEF S
  <2> QED
    BY <2>4, <2>5, <2>6, <2>7, EnsureReads DEF t
<1>4. CASE GetMembers(h)
  <2>1. /\ t.do = "members" /\ UNCHANGED <<tables, bounds>>
        /\ \E S : /\ Continues(h, S, team)
                  /\ \A s \in S : \/ s.do = "leaves" /\ s.d \in t.days \cap Working
                                  \/ s.do = "wipe" /\ t.wipe /\ s.days = t.days
                  /\ \A d \in t.days \cap Working : \E s \in S : s.do = "leaves" /\ s.d = d
    BY <1>2, <1>4, MembersRun
  <2>2. PICK S : /\ Continues(h, S, team)
                 /\ \A s \in S : \/ s.do = "leaves" /\ s.d \in t.days \cap Working
                                 \/ s.do = "wipe" /\ t.wipe /\ s.days = t.days
                 /\ \A d \in t.days \cap Working : \E s \in S : s.do = "leaves" /\ s.d = d
    BY <2>1
  <2>3. UNCHANGED <<today, leaves, orig, cover>>
    BY <2>1 DEF tables
  <2> HIDE DEF t
  <2>4. ~t.wipe
    BY <1>2, <2>1 DEF Sound
  <2>5. \A s \in S : Sound(s)
    BY <2>2, <2>4 DEF Sound
  <2>6. \A d \in ToCome(h) : Assigns(t, d) => \E s \in S : Assigns(s, d)
    BY <2>1, <2>2 DEF Assigns, ToCome
  <2>7. \A d : ~Clears(t, d)
    BY <2>1 DEF Clears
  <2> QED
    BY <2>2, <2>3, <2>5, <2>6, <2>7, EnsureReads DEF t
<1> QED
  BY <1>3, <1>4

LEMMA EnsureChooses ==
  ASSUME OneHandler, EnsureInv, TablesInv', NEW h \in Handlers, Ensuring(h),
         ReadLeaves(h) \/ PickOriginal(h) \/ DetermineCoveringMember(h)
  PROVE  EnsureInv'
<1> DEFINE t == Now(h)
<1>1. work[h].todo # <<>>
  BY DEF ReadLeaves, PickOriginal, DetermineCoveringMember, Doing
<1>2. Sound(t) /\ ItemTyped(t) /\ TodoInv /\ TablesInv
  BY <1>1, EnsureStatementIsSound
<1>3. ASSUME NEW S, Continues(h, S, work[h].team), UNCHANGED <<tables, bounds>>,
             t.do \in {"leaves", "r1", "r2"}, \A s \in S : Sound(s),
             \E s \in S : s.do \in {"r1", "r2", "original"} /\ s.d = t.d
      PROVE  EnsureInv'
  <2>1. UNCHANGED <<today, leaves, orig, cover>>
    BY <1>3 DEF tables
  <2>2. \A d : ~Clears(t, d)
    BY <1>3 DEF Clears
  <2>3. \A d : Assigns(t, d) => \E s \in S : Assigns(s, d)
    BY <1>3 DEF Assigns
  <2> QED
    BY <1>3, <2>1, <2>2, <2>3, EnsureReads
<1>4. CASE ReadLeaves(h)
  <2>1. /\ t.do = "leaves" /\ UNCHANGED <<tables, bounds>>
        /\ \E s : /\ Continues(h, {s}, work[h].team)
                  /\ s.do = "r1" /\ s.d = t.d /\ s.away = OnLeave(s.d)
    BY <1>2, <1>4, LeavesRun
  <2>2. PICK s : /\ Continues(h, {s}, work[h].team)
                 /\ s.do = "r1" /\ s.d = t.d /\ s.away = OnLeave(s.d)
    BY <2>1
  <2>3. Sound(s)
    BY <2>2 DEF Sound
  <2> DEFINE S == {s}
  <2>4. /\ Continues(h, S, work[h].team) /\ \A x \in S : Sound(x)
        /\ \E x \in S : x.do \in {"r1", "r2", "original"} /\ x.d = t.d
    BY <2>2, <2>3
  <2> HIDE DEF S
  <2> QED
    BY <1>3, <2>1, <2>4
<1>5. CASE PickOriginal(h)
  <2>1. /\ t.do = "r1" /\ UNCHANGED <<tables, bounds>>
        /\ \E s : /\ Continues(h, {s}, work[h].team) /\ s.d = t.d
                  /\ \/ s.do = "r2" /\ s.away = t.away /\ s.m \in t.away
                     \/ s.do = "original" /\ s.c = s.m
    BY <1>2, <1>5, OriginalPicked
  <2>2. PICK s : /\ Continues(h, {s}, work[h].team) /\ s.d = t.d
                 /\ \/ s.do = "r2" /\ s.away = t.away /\ s.m \in t.away
                    \/ s.do = "original" /\ s.c = s.m
    BY <2>1
  <2>3. Sound(s)
    BY <1>2, <2>1, <2>2 DEF Sound
  <2> DEFINE S == {s}
  <2>4. /\ Continues(h, S, work[h].team) /\ \A x \in S : Sound(x)
        /\ \E x \in S : x.do \in {"r1", "r2", "original"} /\ x.d = t.d
    BY <2>2, <2>3
  <2> HIDE DEF S
  <2> QED
    BY <1>3, <2>1, <2>4
<1>6. CASE DetermineCoveringMember(h)
  <2>1. /\ t.do = "r2" /\ UNCHANGED <<tables, bounds>>
        /\ \E S : /\ Continues(h, S, work[h].team)
                  /\ \A s \in S : /\ s.do \in {"slot", "original"} /\ s.d = t.d
                                  /\ s.do = "original" => s.m = t.m
                  /\ \E s \in S : s.do = "original"
    BY <1>2, <1>6, CoverDetermined
  <2>2. PICK S : /\ Continues(h, S, work[h].team)
                 /\ \A s \in S : /\ s.do \in {"slot", "original"} /\ s.d = t.d
                                 /\ s.do = "original" => s.m = t.m
                 /\ \E s \in S : s.do = "original"
    BY <2>1
  <2>3. \A s \in S : Sound(s)
    BY <1>2, <2>1, <2>2 DEF Sound
  <2> QED
    BY <1>3, <2>1, <2>2, <2>3
<1> QED
  BY <1>4, <1>5, <1>6

LEMMA EnsureRemembers ==
  ASSUME OneHandler, EnsureInv, TablesInv', NEW h \in Handlers, Ensuring(h),
         Now(h).do \in {"slot", "advance"}, Continues(h, {}, work[h].team),
         UNCHANGED <<today, leaves, orig, cover>>
  PROVE  EnsureInv'
<1> DEFINE t == Now(h)
           S == {}
<1>1. \A d : ~Assigns(t, d) /\ ~Clears(t, d)
  BY DEF Assigns, Clears
<1>2. Continues(h, S, work[h].team) /\ \A s \in S : Sound(s)
  OBVIOUS
<1> HIDE DEF S
<1> QED
  BY <1>1, <1>2, EnsureReads

LEMMA EnsureDrops ==
  ASSUME OneHandler, EnsureInv, TablesInv', NEW h \in Handlers, Ensuring(h), DropCover(h)
  PROVE  EnsureInv'
<1> DEFINE t == Now(h)
           S == {}
<1>1. work[h].todo # <<>> /\ t.do = "drop" /\ UNCHANGED <<today, leaves, orig>>
  BY DEF DropCover, Doing, Now
<1>2. Sound(t) /\ ItemTyped(t) /\ TodoInv /\ TablesInv /\ cover \in Covers
  BY <1>1, EnsureStatementIsSound DEF TablesInv, RowsTyped
<1>3. Continues(h, S, work[h].team) /\ \A s \in S : Sound(s)'
  BY <1>2, WritesRun
<1>4. cover' = IF cover[t.d] # None /\ cover[t.d].id = t.id THEN [cover EXCEPT ![t.d] = None] ELSE cover
  BY DEF DropCover
<1> HIDE DEF S, t
<1>5. t.d \in Days /\ (today <= t.d => orig[t.d] # None)
  BY <1>1, <1>2 DEF Sound, ItemTyped
<1>6. \A s : Sound(s) => Sound(s)'
  BY <1>1 DEF Sound, OnLeave
<1>7. \A d \in Days : /\ cover'[d] \in {cover[d], None}
                      /\ d # t.d => cover'[d] = cover[d]
                      /\ d = t.d /\ cover[d] # None /\ cover[d].id = t.id => cover'[d] = None
  BY <1>2, <1>4, <1>5 DEF Covers
<1>8. ASSUME NEW d \in ToCome(h)
      PROVE  /\ IsAssigned(d)' \/ \E s \in S \cup Others(h) : Assigns(s, d)
             /\ Stale(d)' => \E s \in S \cup Others(h) : Clears(s, d)'
  <2>1. InHand(h, d) /\ d \in Days /\ today <= d
    BY <1>8 DEF EnsureInv, ToCome, Window, DayRange
  <2>2. ~Assigns(t, d)
    BY <1>1 DEF Assigns
  <2>3. IsAssigned(d)' \/ \E s \in S \cup Others(h) : Assigns(s, d)
    <3>1. CASE d = t.d
      BY <1>1, <1>5, <2>1, <3>1 DEF IsAssigned
    <3>2. CASE d # t.d
      <4>1. IsAssigned(d)' <=> IsAssigned(d)
        BY <1>1, <1>7, <2>1, <3>2 DEF IsAssigned
      <4> QED
        BY <2>1, <2>2, <4>1 DEF InHand, Others, t
    <3> QED
      BY <3>1, <3>2
  <2>4. ASSUME Stale(d)'
        PROVE  \E s \in S \cup Others(h) : Clears(s, d)'
    <3>1. cover'[d] = cover[d] /\ cover[d] # None
      BY <1>7, <2>1, <2>4 DEF Stale
    <3>2. Stale(d) /\ \A s : Clears(s, d)' <=> Clears(s, d)
      BY <1>1, <2>4, <3>1 DEF Stale, OnLeave, Clears
    <3>3. ~Clears(t, d)
      BY <1>1, <1>7, <2>1, <3>1 DEF Clears
    <3> QED
      BY <2>1, <3>2, <3>3 DEF InHand, Others, t
  <2> QED
    BY <2>3, <2>4
<1> QED
  BY <1>1, <1>3, <1>6, <1>8, EnsureContinues

LEMMA EnsureAssigns ==
  ASSUME OneHandler, EnsureInv, TablesInv', NEW h \in Handlers, Ensuring(h), InsertOriginal(h), ~Abort(h)
  PROVE  EnsureInv'
<1> DEFINE t == Now(h)
           no == FALSE
           row == [member |-> t.m, swapped |-> no, id |-> NewId(t.d)]
<1>1. work[h].todo # <<>>
  BY DEF InsertOriginal, Doing
<1>2. /\ Sound(t) /\ ItemTyped(t) /\ TodoInv /\ TablesInv /\ orig \in Originals
      /\ team \in SUBSET Members
  BY <1>1, EnsureStatementIsSound DEF TablesInv, RowsTyped
<1>3. /\ t.do = "original" /\ UNCHANGED <<today, team, leaves, cover, r1, rotation, bounds>>
      /\ orig[t.d] = None /\ t.m \in team /\ orig' = [orig EXCEPT ![t.d] = row]
      /\ \E S : /\ Continues(h, S, work[h].team)
                /\ \A s \in S : \/ s.do = "advance" /\ s.d = t.d /\ s.m = t.m
                                \/ s.do = "cover" /\ s.d = t.d /\ s.c = t.c /\ s.c # t.m
  BY <1>2, OriginalInserted
<1>4. PICK S : /\ Continues(h, S, work[h].team)
               /\ \A s \in S : \/ s.do = "advance"
                               \/ s.do = "cover" /\ s.d = t.d /\ s.c = t.c /\ s.c # t.m
  BY <1>3
<1>5. row.member = t.m
  OBVIOUS
<1>0. NewId(t.d) \in Nat /\ no \in BOOLEAN
  BY <1>2, NewIdIsNumber DEF TodoInv
<1> HIDE DEF t, no
<1>8. row \in OriginalRow
  BY <1>0, <1>2, <1>3 DEF OriginalRow
<1> HIDE DEF row
<1>6. t.d \in Days /\ (today <= t.d /\ t.c # t.m => t.m \in OnLeave(t.d))
  BY <1>2, <1>3 DEF Sound, ItemTyped
<1>7. orig'[t.d] = row /\ \A d \in Days : d # t.d => orig'[d] = orig[d]
  BY <1>2, <1>3, <1>6 DEF Originals
<1>9. orig'[t.d] # None
  BY <1>7, <1>8, RowsAreNotNone
<1>10. \A s \in S : Sound(s)'
  BY <1>3, <1>4, <1>5, <1>6, <1>7, <1>9 DEF Sound, OnLeave
<1>11. ASSUME NEW s \in Range(work[h].todo), Sound(s)
       PROVE  Sound(s)'
  <2>1. ASSUME s.do \in {"drop", "cover"}, today <= s.d
        PROVE  orig'[s.d] = orig[s.d]
    <3>1. ItemTyped(s)
      BY <1>2, RangeOfLists DEF TodoInv, WorkOK, IsRequest, Typed
    <3>2. s.d \in Days /\ orig[s.d] # None
      BY <1>11, <2>1, <3>1 DEF ItemTyped, Sound
    <3> QED
      BY <1>3, <1>7, <3>2
  <2> QED
    BY <1>3, <1>11, <2>1 DEF Sound, OnLeave
<1>12. ASSUME NEW d \in ToCome(h)
       PROVE  /\ IsAssigned(d)' \/ \E s \in S \cup Others(h) : Assigns(s, d)
              /\ Stale(d)' => \E s \in S \cup Others(h) : Clears(s, d)'
  <2>1. InHand(h, d) /\ d \in Days /\ today <= d
    BY <1>12 DEF EnsureInv, ToCome, Window, DayRange
  <2>2. \A x : ~Clears(t, x) /\ (Assigns(t, x) => x = t.d)
    BY <1>3 DEF Assigns, Clears
  <2>3. CASE d = t.d
    <3>1. IsAssigned(d)'
      BY <1>9, <2>3 DEF IsAssigned
    <3>2. ~Stale(d)'
      BY <1>2, <1>3, <2>1, <2>3 DEF Stale, TablesInv, RowsTyped, Linked
    <3> QED
      BY <3>1, <3>2
  <2>4. CASE d # t.d
    <3>1. orig'[d] = orig[d] /\ cover' = cover /\ \A x : OnLeave(x)' = OnLeave(x)
      BY <1>3, <1>7, <2>1, <2>4 DEF OnLeave
    <3>2. /\ IsAssigned(d)' <=> IsAssigned(d)
          /\ Stale(d)' <=> Stale(d)
          /\ \A s : Clears(s, d)' <=> Clears(s, d)
      BY <3>1 DEF IsAssigned, Stale, Clears
    <3>3. IsAssigned(d) \/ \E s \in Others(h) : Assigns(s, d)
      BY <2>1, <2>2, <2>4 DEF InHand, Others, t
    <3>4. Stale(d) => \E s \in Others(h) : Clears(s, d)
      BY <2>1, <2>2 DEF InHand, Others, t
    <3> QED
      BY <3>2, <3>3, <3>4
  <2> QED
    BY <2>3, <2>4
<1> QED
  BY <1>3, <1>4, <1>10, <1>11, <1>12, EnsureContinues

LEMMA EnsureCovers ==
  ASSUME OneHandler, EnsureInv, TablesInv', NEW h \in Handlers, Ensuring(h), InsertCover(h), ~Abort(h)
  PROVE  EnsureInv'
<1> DEFINE t == Now(h)
           no == FALSE
           yes == TRUE
           row == [member |-> t.c, swapped |-> no, id |-> NewId(t.d), linked |-> yes]
           S == {}
<1>1. work[h].todo # <<>>
  BY DEF InsertCover, Doing
<1>2. Sound(t) /\ ItemTyped(t) /\ TodoInv /\ TablesInv /\ cover \in Covers
  BY <1>1, EnsureStatementIsSound DEF TablesInv, RowsTyped
<1>3. /\ t.do = "cover" /\ UNCHANGED <<today, team, leaves, orig, r1, rotation, bounds>>
      /\ orig[t.d] # None /\ cover' = [cover EXCEPT ![t.d] = row]
      /\ Continues(h, S, work[h].team)
  BY <1>2, CoverInserted
<1>4. \A s \in S : Sound(s)'
  OBVIOUS
<1> HIDE DEF t, row, S
<1>5. t.d \in Days /\ (today <= t.d => orig[t.d].member \in OnLeave(t.d))
  BY <1>2, <1>3 DEF Sound, ItemTyped
<1>6. \A s : Sound(s) => Sound(s)'
  BY <1>3 DEF Sound, OnLeave
<1>7. \A d \in Days : d # t.d => cover'[d] = cover[d]
  BY <1>2, <1>3, <1>5 DEF Covers
<1>8. ASSUME NEW d \in ToCome(h)
      PROVE  /\ IsAssigned(d)' \/ \E s \in S \cup Others(h) : Assigns(s, d)
             /\ Stale(d)' => \E s \in S \cup Others(h) : Clears(s, d)'
  <2>1. InHand(h, d) /\ d \in Days /\ today <= d
    BY <1>8 DEF EnsureInv, ToCome, Window, DayRange
  <2>2. \A x : ~Clears(t, x) /\ ~Assigns(t, x)
    BY <1>3 DEF Assigns, Clears
  <2>3. CASE d = t.d
    <3>1. IsAssigned(d)' /\ ~Stale(d)'
      BY <1>3, <1>5, <2>1, <2>3 DEF IsAssigned, Stale, OnLeave
    <3> QED
      BY <3>1
  <2>4. CASE d # t.d
    <3>1. cover'[d] = cover[d] /\ orig' = orig /\ \A x : OnLeave(x)' = OnLeave(x)
      BY <1>3, <1>7, <2>1, <2>4 DEF OnLeave
    <3>2. /\ IsAssigned(d)' <=> IsAssigned(d)
          /\ Stale(d)' <=> Stale(d)
          /\ \A s : Clears(s, d)' <=> Clears(s, d)
      BY <3>1 DEF IsAssigned, Stale, Clears
    <3>3. IsAssigned(d) \/ \E s \in Others(h) : Assigns(s, d)
      BY <2>1, <2>2 DEF InHand, Others, t
    <3>4. Stale(d) => \E s \in Others(h) : Clears(s, d)
      BY <2>1, <2>2 DEF InHand, Others, t
    <3> QED
      BY <3>2, <3>3, <3>4
  <2> QED
    BY <2>3, <2>4
<1> QED
  BY <1>3, <1>4, <1>6, <1>8, EnsureContinues

LEMMA EnsureStatement ==
  ASSUME OneHandler, EnsureInv, TablesInv', NEW h \in Handlers, Ensuring(h), Statement(h),
         ~Abort(h), ~Reply(h)
  PROVE  EnsureInv'
<1>1. TodoInv /\ work[h].queue = <<>>
  BY DEF EnsureInv, TablesInv
<1>2. CASE BuildLeaveIndex(h) \/ FindStale(h)
  BY <1>2, EnsureCompares
<1>3. CASE GetDatesWithAssignments(h) \/ GetMembers(h)
  BY <1>3, EnsurePlans
<1>4. CASE ReadLeaves(h) \/ PickOriginal(h) \/ DetermineCoveringMember(h)
  BY <1>4, EnsureChooses
<1>5. CASE DropCover(h)
  BY <1>5, EnsureDrops
<1>6. CASE InsertOriginal(h)
  BY <1>6, EnsureAssigns
<1>7. CASE InsertCover(h)
  BY <1>7, EnsureCovers
<1>8. CASE CommitCoverSlot(h)
  <2>1. /\ Now(h).do = "slot" /\ UNCHANGED <<today, team, leaves, orig, cover, r1, bounds>>
        /\ Continues(h, {}, work[h].team)
    BY <1>1, <1>8, SlotCommitted
  <2> QED
    BY <2>1, EnsureRemembers
<1>9. CASE AdvanceR1(h)
  <2>1. Now(h).do = "advance" /\ Continues(h, {}, work[h].team)
    BY <1>1, <1>9, WritesRun
  <2>2. UNCHANGED <<today, leaves, orig, cover>>
    BY <1>9 DEF AdvanceR1
  <2> QED
    BY <2>1, <2>2, EnsureRemembers
<1>10. ASSUME \/ DeleteAssignmentsInRange(h) \/ LoadLeave(h) \/ LoadTeam(h)
              \/ EnsureOriginalAssignment(h) \/ ReadOtherLeaves(h) \/ PickLeaveCover(h)
              \/ CreateCoverAssignment(h) \/ RepointCover(h) \/ UpdateLeaveStatus(h)
              \/ HandleLeaveChange(h) \/ UpdateLeaveRecord(h) \/ DeleteLeaveRecord(h)
       PROVE  FALSE
  <2>1. /\ work[h].todo # <<>>
        /\ Now(h).do \in {"wipe", "leave", "team", "duty", "away", "turn", "look", "repoint", "status",
                          "change", "edit", "delete"}
    BY <1>10 DEF DeleteAssignmentsInRange, LoadLeave, LoadTeam, EnsureOriginalAssignment, ReadOtherLeaves,
                 PickLeaveCover, CreateCoverAssignment, RepointCover, UpdateLeaveStatus, HandleLeaveChange,
                 UpdateLeaveRecord, DeleteLeaveRecord, Doing, Now
  <2>2. Sound(Now(h))
    BY <2>1, EnsureStatementIsSound
  <2> QED
    BY <2>1, <2>2 DEF Sound
<1>11. ~ReassignNext(h)
  BY <1>1 DEF ReassignNext
<1> QED
  BY <1>2, <1>3, <1>4, <1>5, <1>6, <1>7, <1>8, <1>9, <1>10, <1>11 DEF Statement

\* A step after which the request of h is no EnsureSchedule that goes well.
LEMMA EnsureOver ==
  ASSUME OneHandler, TablesInv', NEW h \in Handlers, ~Ensuring(h)'
  PROVE  EnsureInv'
<1>1. \A g \in Handlers : g = h
  BY DEF OneHandler
<1> QED
  BY <1>1 DEF EnsureInv, Ensuring

LEMMA EnsureBegins ==
  ASSUME OneHandler, EnsureInv, TablesInv', NEW h \in Handlers, ViewDashboard(h) \/ Request(h)
  PROVE  EnsureInv'
<1>1. TablesInv /\ WorkOK
  BY DEF EnsureInv, TablesInv, TodoInv
<1>2. PICK job, about, todo, queue : Opens(job, about, todo, queue) /\ Begin(h, job, about, todo, queue)
  BY <1>1, RequestsOpenSo DEF TablesInv
<1>3. IsList(todo)
  <2>1. Plain(EnsureSteps)
    BY PlainLists DEF EnsureSteps
  <2> QED
    BY <1>2, <2>1 DEF Opens, Plain, AboutLeave, Opening
<1>4. work'[h].job = job /\ work'[h].about = about /\ work'[h].todo = todo /\ work'[h].queue = queue
  BY <1>1, <1>2, <1>3, BeginStarts
<1>5. CASE job # "ensure"
  BY <1>4, <1>5, EnsureOver DEF Ensuring
<1>6. CASE job = "ensure"
  <2> DEFINE D == DayRange(today, today + Ahead)
             a == [do |-> "index", days |-> D]
             b == [do |-> "dates", days |-> D]
  <2>1. about = today /\ todo = <<a>> \o <<b>> /\ queue = <<>>
    BY <1>2, <1>6 DEF Opens, EnsureSteps, Reconcile, Fill
  <2>2. a.do = "index" /\ b.do = "dates" /\ a.days = D /\ b.days = D
    OBVIOUS
  <2> HIDE DEF a, b
  <2>3. Range(todo) = {a, b}
    <3> DEFINE s == <<a>>
               r == <<b>>
    <3>1. IsList(s) /\ IsList(r) /\ Range(s) = {a} /\ Range(r) = {b}
      BY ShortLists, RangesOfShortLists
    <3> HIDE DEF s, r
    <3>2. Range(s \o r) = Range(s) \cup Range(r)
      BY <3>1, RangeOfJoin
    <3>3. Range(s \o r) = {a, b}
      BY <3>1, <3>2
    <3> QED
      BY <2>1, <3>3 DEF s, r
  <2>4. PICK x, y : /\ Range(todo) = {x, y} /\ x.do = "index" /\ y.do = "dates"
                    /\ x.days = Window(about) /\ y.days = Window(about)
    BY <2>1, <2>2, <2>3 DEF Window
  <2>5. \A t \in Range(todo) : Sound(t)'
    BY <2>4 DEF Sound
  <2>6. \A d \in ToCome(h)' : d \in Window(about)
    BY <1>4 DEF ToCome, Window
  <2>7. \A d \in Window(about) : Assigns(y, d) /\ Clears(x, d)'
    BY <2>4 DEF Assigns, Clears
  <2>8. \A d \in ToCome(h)' : InHand(h, d)'
    BY <1>4, <2>4, <2>6, <2>7 DEF InHand
  <2>9. \A g \in Handlers : g = h
    BY DEF OneHandler
  <2> QED
    BY <1>4, <2>1, <2>5, <2>8, <2>9 DEF EnsureInv
<1> QED
  BY <1>5, <1>6

\* At midnight the leaves that are over go, and those of the days to come stay.
LEMMA TickForgetsPast ==
  ASSUME leaves \in LeaveTable, today \in Days, Tick
  PROVE  /\ \A l \in Leaves : leaves'[l] # None => leaves'[l] = leaves[l]
         /\ \A d \in Days : today' <= d => today <= d /\ OnLeave(d)' = OnLeave(d)
<1>1. /\ today' = today + 1
      /\ leaves' = [l \in Leaves |-> IF leaves[l] # None /\ leaves[l].to < today' THEN None ELSE leaves[l]]
  BY DEF Tick
<1>2. today \in Nat
  BY RotaAssumption DEF Days
<1>3. \A d \in Days : d \in Nat /\ (today' <= d => today <= d)
  BY <1>1, <1>2 DEF Days
<1>4. ASSUME NEW d \in Days, today' <= d
      PROVE  OnLeave(d)' = OnLeave(d)
  <2> DEFINE Has(l) == leaves[l] # None /\ d \in DayRange(leaves[l].from, leaves[l].to)
  <2>1. ASSUME NEW l \in Leaves
        PROVE  /\ Has(l)' <=> Has(l)
               /\ Has(l) => leaves'[l] = leaves[l]
    <3>1. leaves[l] # None => leaves[l].to \in Nat
      BY DEF LeaveTable, Leave, Days
    <3>2. leaves'[l] = IF leaves[l] # None /\ leaves[l].to < today' THEN None ELSE leaves[l]
      BY <1>1
    <3>3. today' \in Nat /\ d \in Nat
      BY <1>1, <1>2, <1>3
    <3>4. CASE leaves[l] # None /\ leaves[l].to < today'
      BY <1>4, <3>1, <3>2, <3>3, <3>4 DEF DayRange
    <3>5. CASE ~(leaves[l] # None /\ leaves[l].to < today')
      BY <3>2, <3>5
    <3> QED
      BY <3>4, <3>5
  <2>2. {l \in Leaves : Has(l)}' = {l \in Leaves : Has(l)}
    BY <2>1
  <2> QED
    BY <2>1, <2>2 DEF OnLeave
<1> QED
  BY <1>1, <1>3, <1>4

LEMMA EnsureTicks ==
  ASSUME EnsureInv, TablesInv', Tick
  PROVE  EnsureInv'
<1>1. today' = today + 1 /\ UNCHANGED <<orig, cover, work>>
  BY DEF Tick
<1>2. today \in Days /\ leaves \in LeaveTable /\ TodoInv
  BY DEF EnsureInv, TablesInv, RowsTyped
<1>3. \A d \in Days : today' <= d => today <= d /\ OnLeave(d)' = OnLeave(d)
  BY <1>2, TickForgetsPast
<1>4. ASSUME NEW t, ItemTyped(t), Sound(t)
      PROVE  Sound(t)'
  <2>1. t.do = "compare" => \A d \in t.days : today' <= d => t.away[d] = OnLeave(d)'
    BY <1>3, <1>4 DEF Sound, ItemTyped
  <2>2. ASSUME t.do \in {"drop", "r1", "r2", "original", "cover"}, today' <= t.d
        PROVE  t.d \in Days /\ today <= t.d /\ OnLeave(t.d)' = OnLeave(t.d)
    <3>1. t.d \in Days
      BY <1>4, <2>2 DEF ItemTyped
    <3> QED
      BY <1>3, <2>2, <3>1
  <2> QED
    BY <1>1, <1>4, <2>1, <2>2 DEF Sound
<1>5. ASSUME NEW h \in Handlers, Ensuring(h)
      PROVE  /\ work'[h].queue = <<>>
             /\ \A t \in Range(work'[h].todo) : Sound(t)'
             /\ \A d \in ToCome(h)' : InHand(h, d)'
  <2>1. /\ work[h].queue = <<>> /\ \A t \in Range(work[h].todo) : Sound(t) /\ ItemTyped(t)
        /\ \A d \in ToCome(h) : InHand(h, d)
    BY <1>2, <1>5, RangeOfLists DEF EnsureInv, TodoInv, WorkOK, IsRequest, Typed
  <2>2. ASSUME NEW d \in ToCome(h)'
        PROVE  InHand(h, d)'
    <3>1. d \in Days /\ today' <= d /\ d \in ToCome(h)
      BY <1>1, <1>3, <2>2 DEF ToCome, Window, DayRange
    <3>2. /\ IsAssigned(d)' <=> IsAssigned(d)
          /\ Stale(d)' <=> Stale(d)
          /\ \A t : Clears(t, d)' <=> Clears(t, d)
      BY <1>1, <1>3, <3>1 DEF IsAssigned, Stale, Clears
    <3> QED
      BY <1>1, <2>1, <3>1, <3>2 DEF InHand
  <2> QED
    BY <1>1, <1>4, <2>1, <2>2
<1> QED
  BY <1>1, <1>5 DEF EnsureInv, Ensuring

LEMMA EnsureInductive ==
  ASSUME OneHandler, EnsureInv, [Next]_vars
  PROVE  EnsureInv'
<1>1. TablesInv /\ TodoInv /\ WorkOK
  BY DEF EnsureInv, TablesInv, TodoInv
<1>2. TablesInv'
  BY <1>1, TablesInductive
<1>3. ASSUME NEW h \in Handlers, ViewDashboard(h) \/ Request(h)
      PROVE  EnsureInv'
  BY <1>2, <1>3, EnsureBegins
<1>4. ASSUME NEW h \in Handlers, Statement(h)
      PROVE  EnsureInv'
  <2>1. CASE ~Ensuring(h)'
    BY <1>2, <2>1, EnsureOver
  <2>2. CASE Ensuring(h)'
    <3>1. ~Abort(h)
      BY <1>1, <2>2, AbortStops DEF Ensuring
    <3>2. ~Reply(h)
      <4> SUFFICES ASSUME Reply(h) PROVE FALSE
        OBVIOUS
      <4>1. work'[h] = Idle
        BY <1>1 DEF Reply, WorkOK
      <4> QED
        BY <2>2, <4>1 DEF Ensuring, Idle
    <3>3. work'[h].job = work[h].job /\ work'[h].failed = work[h].failed
      <4>1. CASE ReassignNext(h)
        BY <1>1, <4>1, NextLeaveTaken
      <4>2. CASE ~ReassignNext(h)
        <5>1. \E S, ms : Continues(h, S, ms)
          BY <1>1, <1>4, <3>1, <3>2, <4>2, StatementContinues
        <5> QED
          BY <5>1 DEF Continues
      <4> QED
        BY <4>1, <4>2
    <3>4. Ensuring(h)
      BY <2>2, <3>3 DEF Ensuring
    <3> QED
      BY <1>2, <1>4, <3>1, <3>2, <3>4, EnsureStatement
  <2> QED
    BY <2>1, <2>2
<1>5. ASSUME NEW h \in Handlers, Fail(h)
      PROVE  EnsureInv'
  <2>1. /\ UNCHANGED tables
        /\ Abort(h) \/ (Now(h).do = "slot" /\ Continues(h, {}, work[h].team))
    BY <1>1, <1>5, FailedRuns
  <2>2. CASE ~Ensuring(h)'
    BY <1>2, <2>2, EnsureOver
  <2>3. CASE Ensuring(h)'
    <3>1. ~Abort(h)
      BY <1>1, <2>3, AbortStops DEF Ensuring
    <3>2. Now(h).do = "slot" /\ Continues(h, {}, work[h].team)
      BY <2>1, <3>1
    <3>3. Ensuring(h)
      BY <2>3, <3>2 DEF Ensuring, Continues
    <3>4. UNCHANGED <<today, leaves, orig, cover>>
      BY <2>1 DEF tables
    <3> QED
      BY <1>2, <3>2, <3>3, <3>4, EnsureRemembers
  <2> QED
    BY <2>2, <2>3
<1>6. ASSUME NEW h \in Handlers, Restart(h)
      PROVE  EnsureInv'
  <2> DEFINE queue == Chronological
             v == [Idle EXCEPT !.job = "boot"]
             w == [Idle EXCEPT !.job = "boot", !.queue = queue]
  <2>1. work'[h] = w
    BY <1>6 DEF Restart
  <2> HIDE DEF queue
  <2>2. w = [v EXCEPT !.queue = queue]
    OBVIOUS
  <2> HIDE DEF w
  <2>3. v.job = "boot" /\ w.job = v.job
    BY <2>2 DEF Idle
  <2> HIDE DEF v
  <2>4. ~Ensuring(h)'
    BY <2>1, <2>3 DEF Ensuring
  <2> QED
    BY <1>2, <2>4, EnsureOver
<1>7. CASE Tick
  BY <1>2, <1>7, EnsureTicks
<1>8. CASE UNCHANGED vars
  <2>1. UNCHANGED <<today, leaves, orig, cover, work>>
    BY <1>8 DEF vars
  <2>2. \A t : Sound(t)' <=> Sound(t)
    BY <2>1 DEF Sound, OnLeave
  <2>3. \A h, d : InHand(h, d)' <=> InHand(h, d)
    BY <2>1 DEF InHand, IsAssigned, Stale, Clears, OnLeave
  <2> QED
    BY <1>2, <2>1, <2>2, <2>3 DEF EnsureInv, Ensuring, ToCome
<1> QED
  BY <1>3, <1>4, <1>5, <1>6, <1>7, <1>8 DEF Next

LEMMA EnsureIsRepair ==
  ASSUME EnsureInv
  PROVE  EnsureRepairs
<1> SUFFICES ASSUME NEW h \in Handlers, Done(h, {"ensure"}),
                    NEW d \in Window(work[h].about) \cap Working, today <= d
             PROVE  Unassigned({d}) = {} /\ ~IsStale(d, [e \in Days |-> OnLeave(e)])
  BY DEF EnsureRepairs
<1>1. Ensuring(h) /\ d \in ToCome(h) /\ work[h].todo = <<>> /\ d \in Days
  BY DEF Done, Ensuring, ToCome, Window, DayRange
<1>2. Range(work[h].todo) = {}
  BY <1>1, RangesOfShortLists
<1>3. IsAssigned(d) /\ ~Stale(d)
  BY <1>1, <1>2 DEF EnsureInv, InHand
<1>4. Unassigned({d}) = {}
  BY <1>3 DEF Unassigned, IsAssigned
<1>5. ~IsStale(d, [e \in Days |-> OnLeave(e)])
  BY <1>1, <1>3 DEF IsStale, Stale
<1> QED
  BY <1>4, <1>5

(* Looking at the dashboard repairs the schedule.  With one request at a   *)
(* time, an EnsureSchedule that ran to its end without an error leaves no  *)
(* working day of its window unassigned and no cover for a member who is   *)
(* not on leave, whatever was left behind by requests that failed or were  *)
(* cut short by a restart, and although midnight passes in between.        *)
THEOREM EnsureScheduleRepairs ==
  ASSUME OneHandler
  PROVE  Spec => []EnsureRepairs
<1>1. Init => EnsureInv
  <2> SUFFICES ASSUME Init PROVE EnsureInv
    OBVIOUS
  <2>1. TablesInv
    BY TablesAtFirst
  <2>2. \A h \in Handlers : ~Ensuring(h)
    BY DEF Init, Ensuring, Idle
  <2> QED
    BY <2>1, <2>2 DEF EnsureInv
<1>2. EnsureInv /\ [Next]_vars => EnsureInv'
  BY EnsureInductive
<1>3. EnsureInv => EnsureRepairs
  BY EnsureIsRepair
<1> QED
  BY <1>1, <1>2, <1>3, PTL DEF Spec

-----------------------------------------------------------------------------
(* Leaves are covered: the invariant. *)

\* A request that covers a leave and that no other one disturbs.
Covering(h) == work[h].job = "boot" \/ (work[h].job = "leave" /\ OneHandler)

\* What statement t of such a request, with ms as its team, has read is still true.
Current(ms, t) ==
  /\ t.do \in {"edit", "change", "index", "compare", "drop", "leave", "team", "duty", "away", "turn",
               "look", "status", "slot", "cover", "repoint"}
  /\ t.do = "compare" => \A d \in t.days : today <= d => t.away[d] = OnLeave(d)
  /\ t.do = "drop" /\ today <= t.d => orig[t.d] # None /\ orig[t.d].member \notin OnLeave(t.d)
  /\ t.do \in {"team", "duty"} /\ t.l \in Leaves /\ leaves[t.l] # None => t.m = leaves[t.l].member
  /\ t.do \in {"duty", "away", "turn"} => ms = team
  /\ t.do = "turn" /\ today <= t.d => t.away = OnLeave(t.d)
  /\ t.do \in {"look", "cover", "repoint"} /\ today <= t.d => t.c \notin OnLeave(t.d)
  /\ t.do = "repoint" => cover[t.d] # None

\* Statement t sees to it that day d of leave l is covered.
Sees(t, l, d) ==
  \/ t.do \in {"change", "leave"} /\ t.l = l
  \/ t.do = "team" /\ t.l = l /\ d \in t.days
  \/ t.do = "duty" /\ t.l = l /\ t.d = d
  \/ t.do \in {"away", "turn", "look", "cover", "repoint"} /\ t.d = d

IsLeaveDay(l, d) ==
  today <= d /\ leaves[l] # None /\ d \in DayRange(leaves[l].from, leaves[l].to)
Settled(l, d) == Scheduled(d, leaves[l].member) => IsCovered(d)

\* Request w is to cover leave l: it is about it, or starts the server.
IsFor(w, l) == w.job = "boot" \/ w.about = l

\* A day of a leave without cover has a statement to come that sees to it.
Attended(h, l, d) ==
  IsLeaveDay(l, d) => \/ Settled(l, d)
                      \/ \E q \in Range(work[h].queue) : q.l = l
                      \/ \E t \in Range(work[h].todo) : Sees(t, l, d)

\* The edited record is written first, and the covers are chosen afterwards.
EditsFirst(w) ==
  \A t \in Range(w.todo) : t.do = "edit" =>
    /\ w.job = "leave" /\ t.l = w.about
    /\ \A s \in Range(w.todo) : s.do \in {"edit", "change"}
    /\ \E s \in Range(w.todo) : s.do = "change" /\ s.l = t.l

CoverWork(h) ==
  /\ IsList(work[h].queue)
  /\ work[h].job = "leave" => work[h].queue = <<>> /\ work[h].about \in Leaves
  /\ \A t \in Range(work[h].todo) : Current(work[h].team, t)
  /\ \A t \in Rest(work[h].todo) : t.do \notin {"repoint", "edit"}
  /\ EditsFirst(work[h])
  /\ \A l \in Leaves, d \in Working : IsFor(work[h], l) => Attended(h, l, d)

\* No request is served before the startup reassignment has ended.
Exclusive == \A g, h \in Handlers : Starting(h) /\ g # h => work[g] = Idle

CoverInv ==
  /\ TablesInv /\ Exclusive
  /\ \A h \in Handlers : Covering(h) /\ ~work[h].failed => CoverWork(h)

-----------------------------------------------------------------------------
(* Leaves are covered: the statements. *)

LEMMA CoverContinues ==
  ASSUME TodoInv, TodoInv', NEW h \in Handlers, CoverWork(h), NEW S, NEW ms, Continues(h, S, ms),
         \A s \in S : s.do # "edit" /\ Current(ms, s)',
         \A t \in Rest(work[h].todo) : Current(work[h].team, t) => Current(ms, t)',
         \A l \in Leaves, d \in Working : IsFor(work[h], l) /\ IsLeaveDay(l, d)' =>
           \/ Settled(l, d)'
           \/ \E q \in Range(work[h].queue) : q.l = l
           \/ \E t \in S \cup Others(h) : Sees(t, l, d)
  PROVE  CoverWork(h)'
<1>1. /\ work'[h].job = work[h].job /\ work'[h].about = work[h].about
      /\ work'[h].queue = work[h].queue /\ work'[h].team = ms
      /\ S \subseteq Range(work'[h].todo) /\ Range(work'[h].todo) \subseteq S \cup Rest(work[h].todo)
      /\ Range(work[h].todo) \subseteq {Now(h)} \cup Range(work'[h].todo)
      /\ \A t \in Rest(work'[h].todo) : t.do = "repoint" => t \in Rest(work[h].todo)
  BY DEF Continues
<1>2. Rest(work[h].todo) \subseteq Range(work[h].todo)
  BY RangeOfLists DEF TodoInv, WorkOK, IsRequest
<1>3. \A t \in Range(work'[h].todo) : t.do # "edit" /\ Current(ms, t)'
  BY <1>1, <1>2 DEF CoverWork
<1>4. \A t \in Rest(work'[h].todo) : t.do \notin {"repoint", "edit"}
  <2>1. \A t \in Rest(work'[h].todo) : t \in Range(work'[h].todo) \/ t.do # "edit"
    <3>1. IsList(work'[h].todo)
      BY DEF TodoInv, WorkOK, IsRequest
    <3> QED
      BY <3>1, RangeOfLists
  <2> QED
    BY <1>1, <1>3, <2>1 DEF CoverWork
<1>5. S \cup Others(h) \subseteq Range(work'[h].todo)
  BY <1>1 DEF Others
<1>6. EditsFirst(work'[h])
  BY <1>3 DEF EditsFirst
<1>7. ASSUME NEW l \in Leaves, NEW d \in Working, IsFor(work'[h], l)
      PROVE  Attended(h, l, d)'
  <2>1. IsFor(work[h], l)
    BY <1>1, <1>7 DEF IsFor
  <2> QED
    BY <1>1, <1>5, <2>1 DEF Attended
<1> QED
  BY <1>1, <1>3, <1>4, <1>6, <1>7 DEF CoverWork

\* A statement that writes nothing a cover depends on.
LEMMA CoverReads ==
  ASSUME TodoInv, TodoInv', NEW h \in Handlers, CoverWork(h), NEW S, NEW ms, Continues(h, S, ms),
         UNCHANGED <<today, team, leaves, orig, cover>>, ms \in {work[h].team, team},
         \A s \in S : s.do # "edit" /\ Current(ms, s),
         \A l \in Leaves, d \in Working : IsLeaveDay(l, d) /\ Sees(Now(h), l, d) =>
           Settled(l, d) \/ \E s \in S : Sees(s, l, d)
  PROVE  CoverWork(h)'
<1>1. \A t : Current(ms, t)' <=> Current(ms, t)
  BY DEF Current, OnLeave
<1>2. \A t : Current(work[h].team, t) => Current(ms, t)
  BY DEF Current
<1>3. \A l, d : /\ IsLeaveDay(l, d)' <=> IsLeaveDay(l, d)
                /\ Settled(l, d)' <=> Settled(l, d)
  BY DEF IsLeaveDay, Settled, Scheduled, IsCovered, OnLeave
<1>4. ASSUME NEW l \in Leaves, NEW d \in Working, IsFor(work[h], l), IsLeaveDay(l, d)'
      PROVE  \/ Settled(l, d)'
             \/ \E q \in Range(work[h].queue) : q.l = l
             \/ \E t \in S \cup Others(h) : Sees(t, l, d)
  <2>1. Attended(h, l, d) /\ IsLeaveDay(l, d)
    BY <1>3, <1>4 DEF CoverWork
  <2> QED
    BY <1>3, <2>1 DEF Attended, Others
<1> QED
  BY <1>1, <1>2, <1>4, CoverContinues

LEMMA CoverStatementIsCurrent ==
  ASSUME TablesInv, NEW h \in Handlers, CoverWork(h), work[h].todo # <<>>
  PROVE  Current(work[h].team, Now(h)) /\ ItemTyped(Now(h)) /\ TodoInv
<1>1. TodoInv /\ IsList(work[h].todo)
  BY DEF TablesInv, TodoInv, WorkOK, IsRequest
<1>2. Now(h) \in Range(work[h].todo) /\ ItemTyped(Now(h))
  BY <1>1, HeadIsTyped, RangeOfLists
<1> QED
  BY <1>1, <1>2 DEF CoverWork

LEMMA CoverCompares ==
  ASSUME TablesInv, TablesInv', NEW h \in Handlers, CoverWork(h), BuildLeaveIndex(h) \/ FindStale(h)
  PROVE  CoverWork(h)'
<1> DEFINE t == Now(h)
<1>1. work[h].todo # <<>>
  BY DEF BuildLeaveIndex, FindStale, Doing
<1>2. Current(work[h].team, t) /\ ItemTyped(t) /\ TodoInv /\ TodoInv'
  BY <1>1, CoverStatementIsCurrent DEF TablesInv
<1>3. CASE BuildLeaveIndex(h)
  <2>1. /\ t.do = "index" /\ UNCHANGED <<tables, bounds>>
        /\ \E s : /\ Continues(h, {s}, work[h].team)
                  /\ s.do = "compare" /\ s.days = t.days /\ \A d \in s.days : s.away[d] = OnLeave(d)
    BY <1>2, <1>3, IndexRuns
  <2>2. PICK s, ms : /\ Continues(h, {s}, ms) /\ ms = work[h].team
                     /\ s.do = "compare" /\ s.days = t.days /\ \A d \in s.days : s.away[d] = OnLeave(d)
    BY <2>1
  <2> HIDE DEF t
  <2>3. s.do # "edit" /\ Current(ms, s)
    BY <2>2 DEF Current
  <2>4. \A l, d : ~Sees(t, l, d)
    BY <2>1 DEF Sees
  <2> DEFINE S == {s}
  <2>5. Continues(h, S, ms) /\ \A x \in S : x.do # "edit" /\ Current(ms, x)
    BY <2>2, <2>3
  <2>6. UNCHANGED <<today, team, leaves, orig, cover>> /\ ms \in {work[h].team, team}
    BY <2>1, <2>2 DEF tables
  <2> HIDE DEF S
  <2> QED
    BY <1>2, <2>4, <2>5, <2>6, CoverReads DEF t
<1>4. CASE FindStale(h)
  <2>1. /\ t.do = "compare" /\ UNCHANGED <<tables, bounds>>
        /\ \E S : /\ Continues(h, S, work[h].team)
                  /\ \A s \in S : s.do = "drop" /\ s.d \in StaleDays(h) /\ s.id = cover[s.d].id
    BY <1>2, <1>4, CompareRuns
  <2>2. PICK S, ms : /\ Continues(h, S, ms) /\ ms = work[h].team
                     /\ \A s \in S : s.do = "drop" /\ s.d \in StaleDays(h)
    BY <2>1
  <2>3. UNCHANGED <<today, team, leaves, orig, cover>> /\ ms \in {work[h].team, team}
    BY <2>1, <2>2 DEF tables
  <2>4. StaleDays(h) = {e \in t.days : IsStale(e, t.away)}
    BY DEF StaleDays
  <2> HIDE DEF t
  <2>5. t.days \subseteq Days /\ \A d \in t.days : today <= d => t.away[d] = OnLeave(d)
    BY <1>2, <2>1 DEF ItemTyped, Current
  <2>6. ASSUME NEW s \in S
        PROVE  s.do # "edit" /\ Current(ms, s)
    <3>1. s.do = "drop" /\ s.d \in t.days /\ IsStale(s.d, t.away) /\ s.d \in Days
      BY <2>2, <2>4, <2>5
    <3>2. orig[s.d] # None /\ orig[s.d].member \notin t.away[s.d]
      BY <3>1 DEF IsStale, TablesInv, RowsTyped, Linked
    <3> QED
      BY <2>5, <3>1, <3>2 DEF Current
  <2>7. \A l, d : ~Sees(t, l, d)
    BY <2>1 DEF Sees
  <2> QED
    BY <1>2, <2>2, <2>3, <2>6, <2>7, CoverReads DEF t
<1> QED
  BY <1>3, <1>4

LEMMA CoverLoads ==
  ASSUME TablesInv, TablesInv', NEW h \in Handlers, CoverWork(h), ~Abort(h),
         HandleLeaveChange(h) \/ LoadLeave(h) \/ LoadTeam(h)
  PROVE  CoverWork(h)'
<1> DEFINE t == Now(h)
<1>1. work[h].todo # <<>>
  BY DEF HandleLeaveChange, LoadLeave, LoadTeam, Doing
<1>2. Current(work[h].team, t) /\ ItemTyped(t) /\ TodoInv /\ TodoInv'
  BY <1>1, CoverStatementIsCurrent DEF TablesInv
<1>3. CASE HandleLeaveChange(h)
  <2>1. /\ t.do = "change" /\ UNCHANGED <<tables, bounds>>
        /\ \E S : /\ Continues(h, S, work[h].team)
                  /\ \A s \in S : s.do = "index" \/ (s.do = "leave" /\ s.l = t.l)
                  /\ \E s \in S : s.do = "leave"
    BY <1>2, <1>3, ChangeHandled
  <2>2. PICK S, ms : /\ Continues(h, S, ms) /\ ms = work[h].team
                     /\ \A s \in S : s.do = "index" \/ (s.do = "leave" /\ s.l = t.l)
                     /\ \E s \in S : s.do = "leave"
    BY <2>1
  <2>3. UNCHANGED <<today, team, leaves, orig, cover>> /\ ms \in {work[h].team, team}
    BY <2>1, <2>2 DEF tables
  <2> HIDE DEF t
  <2>4. \A s \in S : s.do # "edit" /\ Current(ms, s)
    BY <2>2 DEF Current
  <2>5. \A l, d : Sees(t, l, d) => \E s \in S : Sees(s, l, d)
    BY <2>1, <2>2 DEF Sees
  <2> QED
    BY <1>2, <2>2, <2>3, <2>4, <2>5, CoverReads DEF t
<1>4. CASE LoadLeave(h)
  <2>1. /\ t.do = "leave" /\ UNCHANGED <<tables, bounds>> /\ leaves[t.l] # None
        /\ \E s : /\ Continues(h, {s}, work[h].team)
                  /\ s.do = "team" /\ s.l = t.l /\ s.m = leaves[s.l].member
                  /\ s.days = DayRange(leaves[s.l].from, leaves[s.l].to) \cap Working
    BY <1>2, <1>4, LeaveLoaded
  <2>2. PICK s, ms : /\ Continues(h, {s}, ms) /\ ms = work[h].team
                     /\ s.do = "team" /\ s.l = t.l /\ s.m = leaves[s.l].member
                     /\ s.days = DayRange(leaves[s.l].from, leaves[s.l].to) \cap Working
    BY <2>1
  <2>3. UNCHANGED <<today, team, leaves, orig, cover>> /\ ms \in {work[h].team, team}
    BY <2>1, <2>2 DEF tables
  <2> HIDE DEF t
  <2>4. s.do # "edit" /\ Current(ms, s)
    BY <2>2 DEF Current
  <2>5. \A l \in Leaves, d \in Working : IsLeaveDay(l, d) /\ Sees(t, l, d) => Sees(s, l, d)
    BY <2>1, <2>2 DEF Sees, IsLeaveDay
  <2> DEFINE S == {s}
  <2>6. Continues(h, S, ms) /\ \A x \in S : x.do # "edit" /\ Current(ms, x)
    BY <2>2, <2>4
  <2>7. \A l \in Leaves, d \in Working :
          IsLeaveDay(l, d) /\ Sees(t, l, d) => \E x \in S : Sees(x, l, d)
    BY <2>5
  <2> HIDE DEF S
  <2> QED
    BY <1>2, <2>3, <2>6, <2>7, CoverReads DEF t
<1>5. CASE LoadTeam(h)
  <2>1. /\ t.do = "team" /\ UNCHANGED <<tables, bounds>>
        /\ \E S : /\ Continues(h, S, team)
                  /\ \A s \in S : s.do = "duty" /\ s.d \in t.days /\ s.l = t.l /\ s.m = t.m
                  /\ \A d \in t.days : \E s \in S : s.d = d
    BY <1>2, <1>5, TeamLoaded
  <2>2. PICK S, ms : /\ Continues(h, S, ms) /\ ms = team
                     /\ \A s \in S : s.do = "duty" /\ s.d \in t.days /\ s.l = t.l /\ s.m = t.m
                     /\ \A d \in t.days : \E s \in S : s.d = d
    BY <2>1
  <2>3. UNCHANGED <<today, team, leaves, orig, cover>> /\ ms \in {work[h].team, team}
    BY <2>1, <2>2 DEF tables
  <2> HIDE DEF t
  <2>4. \A s \in S : s.do # "edit" /\ Current(ms, s)
    BY <1>2, <2>1, <2>2 DEF Current
  <2>5. \A l, d : Sees(t, l, d) => \E s \in S : Sees(s, l, d)
    BY <2>1, <2>2 DEF Sees
  <2> QED
    BY <1>2, <2>2, <2>3, <2>4, <2>5, CoverReads DEF t
<1> QED
  BY <1>3, <1>4, <1>5

\* The day is seen to, one way or the other, once its cover has been chosen.
LEMMA CoverDuties ==
  ASSUME TablesInv, TablesInv', NEW h \in Handlers, CoverWork(h),
         EnsureOriginalAssignment(h) \/ ReadOtherLeaves(h)
  PROVE  CoverWork(h)'
<1> DEFINE t == Now(h)
<1>1. work[h].todo # <<>>
  BY DEF EnsureOriginalAssignment, ReadOtherLeaves, Doing
<1>2. Current(work[h].team, t) /\ ItemTyped(t) /\ TodoInv /\ TodoInv'
  BY <1>1, CoverStatementIsCurrent DEF TablesInv
<1>3. CASE EnsureOriginalAssignment(h)
  <2>1. /\ t.do = "duty" /\ UNCHANGED <<tables, bounds>>
        /\ \/ Scheduled(t.d, t.m) /\ \E s : /\ Continues(h, {s}, work[h].team)
                                            /\ s.do = "away" /\ s.d = t.d /\ s.l = t.l
           \/ ~Scheduled(t.d, t.m) /\ Continues(h, {}, work[h].team)
    BY <1>2, <1>3, DutyFound
  <2>2. UNCHANGED <<today, team, leaves, orig, cover>>
    BY <2>1 DEF tables
  <2>3. CASE \E s : Continues(h, {s}, work[h].team) /\ s.do = "away" /\ s.d = t.d
    <3>1. PICK s, ms : Continues(h, {s}, ms) /\ ms = work[h].team /\ s.do = "away" /\ s.d = t.d
      BY <2>3
    <3>2. s.do # "edit" /\ Current(ms, s) /\ \A l, d : Sees(t, l, d) => Sees(s, l, d)
      BY <1>2, <2>1, <3>1 DEF Current, Sees
    <3> DEFINE S == {s}
    <3>3. /\ Continues(h, S, ms) /\ \A x \in S : x.do # "edit" /\ Current(ms, x)
          /\ \A l, d : Sees(t, l, d) => \E x \in S : Sees(x, l, d)
          /\ ms \in {work[h].team, team}
      BY <3>1, <3>2
    <3> HIDE DEF S
    <3> QED
      BY <1>2, <2>2, <3>3, CoverReads
  <2>4. CASE ~Scheduled(t.d, t.m) /\ Continues(h, {}, work[h].team)
    <3> DEFINE S == {}
    <3>1. PICK ms : Continues(h, S, ms) /\ ms = work[h].team
      BY <2>4
    <3>2. \A s \in S : s.do # "edit" /\ Current(ms, s)
      OBVIOUS
    <3>3. \A l \in Leaves : \A d : IsLeaveDay(l, d) /\ Sees(t, l, d) => Settled(l, d)
      BY <1>2, <2>1, <2>4 DEF Current, Sees, IsLeaveDay, Settled
    <3> HIDE DEF S
    <3>4. ms \in {work[h].team, team}
      BY <3>1
    <3> QED
      BY <1>2, <2>2, <3>1, <3>2, <3>3, <3>4, CoverReads
  <2> QED
    BY <2>1, <2>3, <2>4
<1>4. CASE ReadOtherLeaves(h)
  <2>1. /\ t.do = "away" /\ UNCHANGED <<tables, bounds>>
        /\ \E s : /\ Continues(h, {s}, work[h].team)
                  /\ s.do = "turn" /\ s.d = t.d /\ s.l = t.l /\ s.away = OnLeave(s.d)
    BY <1>2, <1>4, OtherLeavesRead
  <2>2. PICK s, ms : /\ Continues(h, {s}, ms) /\ ms = work[h].team
                     /\ s.do = "turn" /\ s.d = t.d /\ s.away = OnLeave(s.d)
    BY <2>1
  <2>3. UNCHANGED <<today, team, leaves, orig, cover>> /\ ms \in {work[h].team, team}
    BY <2>1, <2>2 DEF tables
  <2>4. s.do # "edit" /\ Current(ms, s) /\ \A l, d : Sees(t, l, d) => Sees(s, l, d)
    BY <1>2, <2>1, <2>2 DEF Current, Sees
  <2> DEFINE S == {s}
  <2>5. /\ Continues(h, S, ms) /\ \A x \in S : x.do # "edit" /\ Current(ms, x)
        /\ \A l, d : Sees(t, l, d) => \E x \in S : Sees(x, l, d)
    BY <2>2, <2>4
  <2> HIDE DEF S
  <2> QED
    BY <1>2, <2>3, <2>5, CoverReads
<1> QED
  BY <1>3, <1>4

\* A position of the table counts turns like any other.
LEMMA StoredTurns ==
  ASSUME NEW ms, IsTeam(ms), NEW pos \in Position \cup RotationRow \cup {None}, NEW d \in Days
  PROVE  TurnOf(pos, d, ms) \in Nat
<1>1. Cardinality(ms) \in Nat \ {0}
  BY TeamSize
<1>2. CASE pos \in Position \cup {None}
  <2>1. TurnOf(pos, d, ms) \in 0..Cardinality(ms)-1
    BY <1>2, TurnsAreSlots
  <2> QED
    BY <1>1, <2>1
<1>3. CASE pos \in RotationRow /\ pos # None
  <2> DEFINE p == [last |-> pos.last, slot |-> pos.slot]
  <2>1. p \in Position /\ p.last = pos.last /\ p.slot = pos.slot
    BY <1>3 DEF RotationRow, Position
  <2> HIDE DEF p
  <2>2. p # None
    BY <2>1, RowsAreNotNone
  <2>3. TurnOf(pos, d, ms) = TurnOf(p, d, ms)
    BY <1>3, <2>1, <2>2 DEF TurnOf, Turn
  <2>4. TurnOf(p, d, ms) \in 0..Cardinality(ms)-1
    BY <2>1, TurnsAreSlots
  <2> QED
    BY <1>1, <2>3, <2>4
<1> QED
  BY <1>2, <1>3

\* The cover chosen is at work, if anybody is.
LEMMA CoverIsFree ==
  ASSUME NEW ms \in SUBSET Members, NEW away, NEW pos \in Position \cup RotationRow \cup {None},
         NEW d \in Days, NEW c, c = FindCover(ms, away, TurnOf(pos, d, ms))
  PROVE  IF ms \subseteq away THEN c = None ELSE c # None /\ c \in ms /\ c \notin away
<1>1. CASE ms \subseteq away
  BY <1>1 DEF FindCover
<1>2. CASE ~(ms \subseteq away)
  <2>1. IsTeam(ms)
    <3>1. Members \in SUBSET Nat /\ IsFiniteSet(Members)
      BY RotaAssumption, FiniteAssumption
    <3> QED
      BY <1>2, <3>1, FS_Subset DEF IsTeam
  <2>2. TurnOf(pos, d, ms) \in Nat
    BY <2>1, StoredTurns
  <2>3. c \in ms \ away
    BY <1>2, <2>1, <2>2, FindCoverIsFree
  <2> QED
    BY <1>2, <2>3, RotaAssumption
<1> QED
  BY <1>1, <1>2

LEMMA CoverTurns ==
  ASSUME TablesInv, TablesInv', NEW h \in Handlers, CoverWork(h), PickLeaveCover(h)
  PROVE  CoverWork(h)'
<1> DEFINE t == Now(h)
<1>1. work[h].todo # <<>>
  BY DEF PickLeaveCover, Doing
<1>2. Current(work[h].team, t) /\ ItemTyped(t) /\ TodoInv /\ TodoInv'
  BY <1>1, CoverStatementIsCurrent DEF TablesInv
<1>3. /\ t.do = "turn" /\ UNCHANGED <<tables, bounds>>
      /\ \E c : /\ c = FindCover(work[h].team, t.away, TurnOf(Counted(h), t.d, work[h].team))
                /\ IF c = None
                   THEN Continues(h, {}, work[h].team)
                   ELSE \E S : /\ Continues(h, S, work[h].team)
                               /\ \A s \in S : \/ s.do = "look" /\ s.d = t.d /\ s.c = c
                                               \/ s.do = "status"
                                               \/ s.do = "slot" /\ s.d = t.d /\ s.c = c
                               /\ \E s \in S : s.do = "look"
  BY <1>2, LeaveCoverPicked
<1>4. UNCHANGED <<today, team, leaves, orig, cover>>
  BY <1>3 DEF tables
<1>5. PICK c : /\ c = FindCover(work[h].team, t.away, TurnOf(Counted(h), t.d, work[h].team))
               /\ IF c = None
                  THEN Continues(h, {}, work[h].team)
                  ELSE \E S : /\ Continues(h, S, work[h].team)
                              /\ \A s \in S : \/ s.do = "look" /\ s.d = t.d /\ s.c = c
                                              \/ s.do = "status"
                                              \/ s.do = "slot" /\ s.d = t.d /\ s.c = c
                              /\ \E s \in S : s.do = "look"
  BY <1>3
<1>6. /\ work[h].team = team /\ team \in SUBSET Members /\ t.d \in Days
      /\ (today <= t.d => t.away = OnLeave(t.d))
      /\ Counted(h) \in Position \cup RotationRow \cup {None}
  BY <1>2, <1>3 DEF Current, ItemTyped, TablesInv, RowsTyped, PositionsTyped, CopiesTyped, Counted
<1> HIDE DEF t
<1>7. IF team \subseteq t.away THEN c = None ELSE c # None /\ c \notin t.away
  BY <1>5, <1>6, CoverIsFree
<1>8. CASE c = None
  <2> DEFINE S == {}
  <2>1. PICK ms : Continues(h, S, ms) /\ ms = work[h].team
    BY <1>5, <1>8
  <2>2. \A s \in S : s.do # "edit" /\ Current(ms, s)
    OBVIOUS
  <2>3. \A l, d : IsLeaveDay(l, d) /\ Sees(t, l, d) => Settled(l, d)
    BY <1>3, <1>6, <1>7, <1>8 DEF Sees, IsLeaveDay, Settled, IsCovered
  <2> HIDE DEF S
  <2>4. ms \in {work[h].team, team}
    BY <2>1
  <2> QED
    BY <1>2, <1>4, <2>1, <2>2, <2>3, <2>4, CoverReads DEF t
<1>9. CASE c # None
  <2>1. PICK S, ms : /\ Continues(h, S, ms) /\ ms = work[h].team
                     /\ \A s \in S : \/ s.do = "look" /\ s.d = t.d /\ s.c = c
                                     \/ s.do = "status"
                                     \/ s.do = "slot" /\ s.d = t.d /\ s.c = c
                     /\ \E s \in S : s.do = "look"
    BY <1>5, <1>9
  <2>2. today <= t.d => c \notin OnLeave(t.d)
    BY <1>6, <1>7, <1>9
  <2>3. \A s \in S : s.do # "edit" /\ Current(ms, s)
    BY <2>1, <2>2 DEF Current
  <2>4. \A l, d : Sees(t, l, d) => \E s \in S : Sees(s, l, d)
    BY <1>3, <2>1 DEF Sees
  <2>5. ms \in {work[h].team, team}
    BY <2>1
  <2> QED
    BY <1>2, <1>4, <2>1, <2>3, <2>4, <2>5, CoverReads DEF t
<1> QED
  BY <1>8, <1>9

LEMMA CoverLooks ==
  ASSUME TablesInv, TablesInv', NEW h \in Handlers, CoverWork(h), CreateCoverAssignment(h)
  PROVE  CoverWork(h)'
<1> DEFINE t == Now(h)
<1>1. work[h].todo # <<>>
  BY DEF CreateCoverAssignment, Doing
<1>2. Current(work[h].team, t) /\ ItemTyped(t) /\ TodoInv /\ TodoInv'
  BY <1>1, CoverStatementIsCurrent DEF TablesInv
<1>3. /\ t.do = "look" /\ UNCHANGED <<tables, bounds>>
      /\ \/ /\ cover[t.d] # None /\ (cover[t.d].swapped \/ cover[t.d].member = t.c)
            /\ Continues(h, {}, work[h].team)
         \/ \E s : /\ Continues(h, {s}, work[h].team)
                   /\ s.d = t.d /\ s.c = t.c
                   /\ s.do = "cover" \/ (s.do = "repoint" /\ cover[s.d] # None)
  BY <1>2, LookRuns
<1>4. UNCHANGED <<today, team, leaves, orig, cover>>
  BY <1>3 DEF tables
<1>5. today <= t.d => t.c \notin OnLeave(t.d)
  BY <1>2, <1>3 DEF Current
<1>6. CASE /\ cover[t.d] # None /\ (cover[t.d].swapped \/ cover[t.d].member = t.c)
           /\ Continues(h, {}, work[h].team)
  <2> DEFINE S == {}
  <2>1. PICK ms : Continues(h, S, ms) /\ ms = work[h].team
    BY <1>6
  <2>2. \A s \in S : s.do # "edit" /\ Current(ms, s)
    OBVIOUS
  <2>3. \A l, d : IsLeaveDay(l, d) /\ Sees(t, l, d) => Settled(l, d)
    BY <1>3, <1>5, <1>6 DEF Sees, IsLeaveDay, Settled, IsCovered
  <2> HIDE DEF S
  <2>4. ms \in {work[h].team, team}
    BY <2>1
  <2> QED
    BY <1>2, <1>4, <2>1, <2>2, <2>3, <2>4, CoverReads
<1>7. CASE \E s : /\ Continues(h, {s}, work[h].team)
                  /\ s.d = t.d /\ s.c = t.c
                  /\ s.do = "cover" \/ (s.do = "repoint" /\ cover[s.d] # None)
  <2>1. PICK s, ms : /\ Continues(h, {s}, ms) /\ ms = work[h].team
                     /\ s.d = t.d /\ s.c = t.c
                     /\ s.do = "cover" \/ (s.do = "repoint" /\ cover[s.d] # None)
    BY <1>7
  <2>2. s.do # "edit" /\ Current(ms, s) /\ \A l, d : Sees(t, l, d) => Sees(s, l, d)
    BY <1>3, <1>5, <2>1 DEF Current, Sees
  <2> DEFINE S == {s}
  <2>3. /\ Continues(h, S, ms) /\ \A x \in S : x.do # "edit" /\ Current(ms, x)
        /\ \A l, d : Sees(t, l, d) => \E x \in S : Sees(x, l, d)
        /\ ms \in {work[h].team, team}
    BY <2>1, <2>2
  <2> HIDE DEF S
  <2> QED
    BY <1>2, <1>4, <2>3, CoverReads
<1> QED
  BY <1>3, <1>6, <1>7

LEMMA CoverIdles ==
  ASSUME TablesInv, TablesInv', NEW h \in Handlers, CoverWork(h), Now(h).do = "slot",
         Continues(h, {}, work[h].team), UNCHANGED <<today, team, leaves, orig, cover>>
  PROVE  CoverWork(h)'
<1> DEFINE S == {}
<1>1. PICK ms : Continues(h, S, ms) /\ ms = work[h].team
  OBVIOUS
<1>2. \A s \in S : s.do # "edit" /\ Current(ms, s)
  OBVIOUS
<1>3. \A l, d : ~Sees(Now(h), l, d)
  BY DEF Sees
<1> HIDE DEF S
<1>4. ms \in {work[h].team, team} /\ TodoInv /\ TodoInv'
  BY <1>1 DEF TablesInv
<1> QED
  BY <1>1, <1>2, <1>3, <1>4, CoverReads

\* The days and the members of the leaves are what the covers depend on.
LEMMA StatusIsNoMatter ==
  ASSUME NEW h \in Handlers, leaves \in LeaveTable, UpdateLeaveStatus(h)
  PROVE  /\ UNCHANGED <<today, team, orig, cover>> /\ \A d : OnLeave(d)' = OnLeave(d)
         /\ \A l \in Leaves : /\ leaves'[l] = None <=> leaves[l] = None
                              /\ leaves[l] # None => /\ leaves'[l].member = leaves[l].member
                                                     /\ leaves'[l].from = leaves[l].from
                                                     /\ leaves'[l].to = leaves[l].to
<1> DEFINE k == Now(h).l
<1>1. /\ UNCHANGED <<today, team, orig, cover>>
      /\ leaves' = IF leaves[k] = None THEN leaves ELSE [leaves EXCEPT ![k].status = "assigned"]
  BY DEF UpdateLeaveStatus
<1> HIDE DEF k
<1>2. ASSUME NEW l \in Leaves
      PROVE  /\ leaves'[l] = None <=> leaves[l] = None
             /\ leaves[l] # None => /\ leaves'[l].member = leaves[l].member
                                    /\ leaves'[l].from = leaves[l].from
                                    /\ leaves'[l].to = leaves[l].to
  <2>1. CASE leaves'[l] = leaves[l]
    BY <2>1
  <2>2. CASE l = k /\ leaves[k] # None
    <3> DEFINE r == leaves[k]
               n == [r EXCEPT !.status = "assigned"]
    <3>1. leaves'[l] = n
      BY <1>1, <1>2, <2>2 DEF LeaveTable
    <3>2. r \in Leave
      BY <1>2, <2>2 DEF LeaveTable
    <3> HIDE DEF r
    <3>3. n \in Leave /\ n.member = r.member /\ n.from = r.from /\ n.to = r.to
      BY <3>2 DEF Leave
    <3>4. n # None
      BY <3>3, RowsAreNotNone
    <3> QED
      BY <2>2, <3>1, <3>3, <3>4 DEF r
  <2> QED
    BY <1>1, <2>1, <2>2 DEF LeaveTable
<1>3. ASSUME NEW d
      PROVE  OnLeave(d)' = OnLeave(d)
  <2> DEFINE Has(l) == leaves[l] # None /\ d \in DayRange(leaves[l].from, leaves[l].to)
  <2>1. {l \in Leaves : Has(l)}' = {l \in Leaves : Has(l)}
    BY <1>2 DEF DayRange
  <2>2. \A l \in Leaves : Has(l) => leaves'[l].member = leaves[l].member
    BY <1>2
  <2> QED
    BY <2>1, <2>2 DEF OnLeave
<1> QED
  BY <1>1, <1>2, <1>3

LEMMA CoverMarks ==
  ASSUME TablesInv, TablesInv', NEW h \in Handlers, CoverWork(h), UpdateLeaveStatus(h)
  PROVE  CoverWork(h)'
<1> DEFINE S == {}
<1>1. TodoInv /\ TodoInv' /\ leaves \in LeaveTable
  BY DEF TablesInv, RowsTyped
<1>2. /\ UNCHANGED <<today, team, orig, cover>> /\ \A d : OnLeave(d)' = OnLeave(d)
      /\ \A l \in Leaves : /\ leaves'[l] = None <=> leaves[l] = None
                           /\ leaves[l] # None => /\ leaves'[l].member = leaves[l].member
                                                  /\ leaves'[l].from = leaves[l].from
                                                  /\ leaves'[l].to = leaves[l].to
  BY <1>1, StatusIsNoMatter
<1>3. Now(h).do = "status" /\ Continues(h, S, work[h].team)
  BY <1>1, WritesRun
<1>4. PICK ms : Continues(h, S, ms) /\ ms = work[h].team
  BY <1>3
<1>5. \A s \in S : s.do # "edit" /\ Current(ms, s)'
  OBVIOUS
<1> HIDE DEF S
<1>6. \A t : Current(work[h].team, t) => Current(ms, t)'
  BY <1>2, <1>4 DEF Current
<1>7. ASSUME NEW l \in Leaves, NEW d \in Working, IsFor(work[h], l), IsLeaveDay(l, d)'
      PROVE  \/ Settled(l, d)'
             \/ \E q \in Range(work[h].queue) : q.l = l
             \/ \E t \in S \cup Others(h) : Sees(t, l, d)
  <2>1. IsLeaveDay(l, d) /\ (Settled(l, d)' <=> Settled(l, d))
    BY <1>2, <1>7 DEF IsLeaveDay, Settled, Scheduled, IsCovered
  <2>2. Attended(h, l, d) /\ ~Sees(Now(h), l, d)
    BY <1>3, <1>7 DEF CoverWork, Sees
  <2> QED
    BY <2>1, <2>2 DEF Attended, Others
<1> QED
  BY <1>1, <1>4, <1>5, <1>6, <1>7, CoverContinues

\* A statement that writes the cover of one day and keeps the other tables.
LEMMA CoverWrites ==
  ASSUME TablesInv, TablesInv', NEW h \in Handlers, CoverWork(h), Continues(h, {}, work[h].team),
         UNCHANGED <<today, team, leaves, orig>>, Now(h).do \in {"drop", "cover", "repoint"},
         NEW e, Now(h).d = e, \A d \in Days : d # e => cover'[d] = cover[d],
         \A l \in Leaves : IsLeaveDay(l, e) /\ (Settled(l, e) \/ Now(h).do # "drop") => Settled(l, e)'
  PROVE  CoverWork(h)'
<1> DEFINE S == {}
<1>1. TodoInv /\ TodoInv'
  BY DEF TablesInv
<1>2. PICK ms : Continues(h, S, ms) /\ ms = work[h].team
  OBVIOUS
<1>3. \A s \in S : s.do # "edit" /\ Current(ms, s)'
  OBVIOUS
<1> HIDE DEF S
<1>4. \A d : OnLeave(d)' = OnLeave(d)
  BY DEF OnLeave
<1>5. ASSUME NEW s \in Rest(work[h].todo), Current(work[h].team, s)
      PROVE  Current(ms, s)'
  <2>1. s.do # "repoint"
    BY <1>5 DEF CoverWork
  <2> QED
    BY <1>2, <1>4, <1>5, <2>1 DEF Current
<1>6. ASSUME NEW l \in Leaves, NEW d \in Working, IsFor(work[h], l), IsLeaveDay(l, d)'
      PROVE  \/ Settled(l, d)'
             \/ \E q \in Range(work[h].queue) : q.l = l
             \/ \E s \in S \cup Others(h) : Sees(s, l, d)
  <2>1. IsLeaveDay(l, d) /\ Attended(h, l, d) /\ d \in Days
    BY <1>6, RotaAssumption DEF IsLeaveDay, CoverWork, Days
  <2>2. CASE d = e
    BY <2>1, <2>2 DEF Attended, Others, Sees
  <2>3. CASE d # e
    <3>1. Settled(l, d)' <=> Settled(l, d)
      BY <1>4, <2>1, <2>3 DEF Settled, Scheduled, IsCovered
    <3>2. ~Sees(Now(h), l, d)
      BY <2>3 DEF Sees
    <3> QED
      BY <2>1, <3>1, <3>2 DEF Attended, Others
  <2> QED
    BY <2>2, <2>3
<1> QED
  BY <1>1, <1>2, <1>3, <1>5, <1>6, CoverContinues

LEMMA CoverDrops ==
  ASSUME TablesInv, TablesInv', NEW h \in Handlers, CoverWork(h), DropCover(h)
  PROVE  CoverWork(h)'
<1> DEFINE t == Now(h)
<1>1. work[h].todo # <<>> /\ t.do = "drop" /\ UNCHANGED <<today, team, leaves, orig>>
  BY DEF DropCover, Doing, Now
<1>2. Current(work[h].team, t) /\ ItemTyped(t) /\ TodoInv /\ cover \in Covers
  BY <1>1, CoverStatementIsCurrent DEF TablesInv, RowsTyped
<1>3. Continues(h, {}, work[h].team)
  BY <1>2, WritesRun
<1>4. cover' = IF cover[t.d] # None /\ cover[t.d].id = t.id THEN [cover EXCEPT ![t.d] = None] ELSE cover
  BY DEF DropCover
<1> HIDE DEF t
<1>5. PICK e \in Days :
        e = t.d /\ (today <= e => orig[e] # None /\ orig[e].member \notin OnLeave(e))
  BY <1>1, <1>2 DEF Current, ItemTyped
<1>6. \A d \in Days : /\ d # e => cover'[d] = cover[d]
                      /\ cover'[d] \in {cover[d], None}
  BY <1>2, <1>4, <1>5 DEF Covers
<1>7. \A d : OnLeave(d)' = OnLeave(d)
  BY <1>1 DEF OnLeave
<1>8. ASSUME NEW l \in Leaves, IsLeaveDay(l, e), Settled(l, e)
      PROVE  Settled(l, e)'
  <2>1. leaves[l].member \in OnLeave(e) /\ today <= e
    BY <1>8 DEF IsLeaveDay, OnLeave
  <2>2. CASE cover'[e] = cover[e]
    BY <1>1, <1>7, <1>8, <2>2 DEF Settled, Scheduled, IsCovered
  <2>3. CASE cover'[e] = None
    BY <1>1, <1>5, <2>1, <2>3 DEF Settled, Scheduled
  <2> QED
    BY <1>5, <1>6, <2>2, <2>3
<1> QED
  BY <1>1, <1>3, <1>5, <1>6, <1>8, CoverWrites DEF t

LEMMA CoverFills ==
  ASSUME TablesInv, TablesInv', NEW h \in Handlers, CoverWork(h), ~Abort(h),
         InsertCover(h) \/ RepointCover(h)
  PROVE  CoverWork(h)'
<1>1. work[h].todo # <<>> /\ Now(h).do \in {"cover", "repoint"}
  BY DEF InsertCover, RepointCover, Doing, Now
<1>2. /\ Current(work[h].team, Now(h)) /\ ItemTyped(Now(h)) /\ WorkOK /\ TodoInv
      /\ cover \in Covers /\ team \in SUBSET Members
  BY <1>1, CoverStatementIsCurrent DEF TablesInv, RowsTyped, TodoInv
<1>3. PICK e \in Days : e = Now(h).d
  BY <1>1, <1>2 DEF ItemTyped
<1>4. PICK c, id : c = Now(h).c /\ id = NewId(e) /\ id \in Nat
  BY <1>2, NewIdIsNumber
<1>5. /\ UNCHANGED <<today, team, leaves, orig>> /\ Continues(h, {}, work[h].team)
      /\ \/ /\ cover' = [cover EXCEPT ![e] =
                  [member |-> c, swapped |-> FALSE, id |-> id, linked |-> TRUE]]
            /\ c \in team
         \/ cover' = cover /\ cover[e] # None /\ cover[e].swapped
         \/ cover[e] # None /\ cover' = [cover EXCEPT ![e].member = c] /\ c \in team
  <2>1. Now(h).do = "repoint" => cover[e] # None
    BY <1>2, <1>3 DEF Current
  <2> QED
    BY <1>2, <1>3, <1>4, <2>1, CoverInserted, CoverRepointed
<1>6. (today <= e => c \notin OnLeave(e)) /\ \A d : OnLeave(d)' = OnLeave(d)
  BY <1>1, <1>2, <1>3, <1>4, <1>5 DEF Current, OnLeave
<1>7. /\ \A d \in Days : d # e => cover'[d] = cover[d]
      /\ cover'[e] # None /\ (cover'[e].swapped \/ cover'[e].member = c)
  <2>1. ASSUME NEW r \in CoverRow, cover' = [cover EXCEPT ![e] = r], r.member = c
        PROVE  /\ \A d \in Days : d # e => cover'[d] = cover[d]
               /\ cover'[e] # None /\ cover'[e].member = c
    <3>1. cover'[e] = r /\ \A d \in Days : d # e => cover'[d] = cover[d]
      BY <1>2, <2>1 DEF Covers
    <3> QED
      BY <2>1, <3>1, RowsAreNotNone
  <2>2. CASE /\ cover' = [cover EXCEPT ![e] = [member |-> c, swapped |-> FALSE, id |-> id, linked |-> TRUE]]
             /\ c \in team
    <3> DEFINE r == [member |-> c, swapped |-> FALSE, id |-> id, linked |-> TRUE]
    <3>1. r \in CoverRow /\ r.member = c
      BY <1>2, <1>4, <2>2 DEF CoverRow
    <3>2. cover' = [cover EXCEPT ![e] = r]
      BY <2>2
    <3> HIDE DEF r
    <3> QED
      BY <2>1, <3>1, <3>2
  <2>3. CASE cover' = cover /\ cover[e] # None /\ cover[e].swapped
    BY <2>3
  <2>4. CASE cover[e] # None /\ cover' = [cover EXCEPT ![e].member = c] /\ c \in team
    <3> DEFINE o == cover[e]
               r == [o EXCEPT !.member = c]
    <3>1. o \in CoverRow /\ cover' = [cover EXCEPT ![e] = r]
      BY <1>2, <2>4 DEF Covers
    <3> HIDE DEF o
    <3>2. r \in CoverRow /\ r.member = c
      BY <1>2, <2>4, <3>1 DEF CoverRow
    <3> HIDE DEF r
    <3> QED
      BY <2>1, <3>1, <3>2
  <2> QED
    BY <1>5, <2>2, <2>3, <2>4
<1>8. ASSUME NEW l \in Leaves, IsLeaveDay(l, e)
      PROVE  Settled(l, e)'
  <2>1. IsCovered(e)'
    BY <1>5, <1>6, <1>7, <1>8 DEF IsLeaveDay, IsCovered
  <2> QED
    BY <2>1 DEF Settled
<1> QED
  BY <1>1, <1>3, <1>5, <1>7, <1>8, CoverWrites

\* The leave of an edit is looked at again once it has been written.
LEMMA CoverEdits ==
  ASSUME TablesInv, TablesInv', NEW h \in Handlers, CoverWork(h), ~Abort(h), UpdateLeaveRecord(h)
  PROVE  CoverWork(h)'
<1> DEFINE S == {}
<1>1. work[h].todo # <<>> /\ TodoInv /\ TodoInv'
  BY DEF UpdateLeaveRecord, Doing, TablesInv
<1>2. Now(h).do = "edit" /\ Continues(h, S, work[h].team)
  BY <1>1, LeaveEdited
<1>3. PICK ms : Continues(h, S, ms)
  BY <1>2
<1>4. \A s \in S : s.do # "edit" /\ Current(ms, s)'
  OBVIOUS
<1> HIDE DEF S
<1>5. Now(h) \in Range(work[h].todo) /\ Rest(work[h].todo) \subseteq Range(work[h].todo)
  BY <1>1, <1>3, RangeOfLists DEF Continues, TodoInv, WorkOK, IsRequest
<1>6. /\ work[h].job = "leave" /\ \A s \in Range(work[h].todo) : s.do \in {"edit", "change"}
      /\ \E s \in Range(work[h].todo) : s.do = "change" /\ s.l = work[h].about
  BY <1>2, <1>5 DEF CoverWork, EditsFirst
<1>7. \A s \in Rest(work[h].todo) : Current(ms, s)'
  <2>1. \A s \in Rest(work[h].todo) : s.do = "change"
    BY <1>5, <1>6 DEF CoverWork
  <2> QED
    BY <2>1 DEF Current
<1>8. PICK s \in Others(h) : s.do = "change" /\ s.l = work[h].about
  BY <1>2, <1>6 DEF Others
<1>9. \A l, d : IsFor(work[h], l) => Sees(s, l, d)
  BY <1>6, <1>8 DEF IsFor, Sees
<1> QED
  BY <1>1, <1>3, <1>4, <1>7, <1>9, CoverContinues

LEMMA RangeOfTail ==
  ASSUME NEW q, IsList(q), q # <<>>
  PROVE  IsList(Tail(q)) /\ \A x \in Range(q) : x = Head(q) \/ x \in Range(Tail(q))
<1>1. /\ IsList(Tail(q)) /\ Len(Tail(q)) = Len(q) - 1 /\ \A i \in 1..Len(Tail(q)) : Tail(q)[i] = q[i + 1]
      /\ Len(q) \in Nat \ {0} /\ Head(q) = q[1]
  BY ListTail, ListLength
<1>2. Range(q) = {q[1]} \cup Rest(q) /\ Range(Tail(q)) = {Tail(q)[i] : i \in 1..Len(Tail(q))}
  BY <1>1, RangeOfLists
<1>3. ASSUME NEW i \in 2..Len(q)
      PROVE  q[i] \in Range(Tail(q))
  <2>1. i - 1 \in 1..Len(Tail(q)) /\ (i - 1) + 1 = i
    BY <1>1
  <2>2. Tail(q)[i - 1] = q[i]
    BY <1>1, <2>1
  <2> QED
    BY <1>2, <2>1, <2>2
<1> QED
  BY <1>1, <1>2, <1>3 DEF Rest

\* A leave taken from the list is looked at instead.
LEMMA CoverTakesNext ==
  ASSUME TablesInv, TablesInv', NEW h \in Handlers, CoverWork(h), ReassignNext(h)
  PROVE  CoverWork(h)'
<1>1. TodoInv /\ IsList(work'[h].todo) /\ IsList(work[h].queue)
  BY DEF TablesInv, TodoInv, WorkOK, IsRequest, CoverWork
<1>2. /\ work[h].todo = <<>> /\ work[h].queue # <<>> /\ UNCHANGED <<tables, bounds>>
      /\ work'[h].job = work[h].job /\ work'[h].about = work[h].about
      /\ work'[h].queue = Tail(work[h].queue)
      /\ \A s \in Range(work'[h].todo) :
           s.do = "index" \/ (s.do = "leave" /\ s.l = Head(work[h].queue).l)
      /\ \E s \in Range(work'[h].todo) : s.do = "leave"
  BY <1>1, NextLeaveTaken
<1>3. /\ IsList(work'[h].queue)
      /\ \A q \in Range(work[h].queue) : q = Head(work[h].queue) \/ q \in Range(work'[h].queue)
  BY <1>1, <1>2, RangeOfTail
<1>4. work[h].job # "leave"
  BY <1>2 DEF CoverWork
<1>5. Rest(work'[h].todo) \subseteq Range(work'[h].todo)
  BY <1>1, RangeOfLists
<1>6. \A t \in Range(work'[h].todo) : Current(work[h].team, t)'
  BY <1>2 DEF Current
<1>7. (\A t \in Rest(work'[h].todo) : t.do \notin {"repoint", "edit"}) /\ EditsFirst(work'[h])
  BY <1>2, <1>5 DEF EditsFirst
<1>8. ASSUME NEW l \in Leaves, NEW d \in Working, IsFor(work'[h], l)
      PROVE  Attended(h, l, d)'
  <2>1. /\ IsLeaveDay(l, d)' <=> IsLeaveDay(l, d)
        /\ Settled(l, d)' <=> Settled(l, d)
    BY <1>2 DEF IsLeaveDay, Settled, Scheduled, IsCovered, OnLeave, tables
  <2>2. Attended(h, l, d) /\ Range(work[h].todo) = {}
    BY <1>2, <1>8, RangesOfShortLists DEF IsFor, CoverWork
  <2>3. CASE ~IsLeaveDay(l, d) \/ Settled(l, d)
    BY <2>1, <2>3 DEF Attended
  <2>4. CASE \E q \in Range(work[h].queue) : q.l = l
    <3>1. PICK q \in Range(work[h].queue) : q.l = l
      BY <2>4
    <3>2. CASE q = Head(work[h].queue)
      <4>1. PICK s \in Range(work'[h].todo) : s.do = "leave" /\ s.l = l
        BY <1>2, <3>1, <3>2
      <4>2. Sees(s, l, d)
        BY <4>1 DEF Sees
      <4> QED
        BY <4>1, <4>2 DEF Attended
    <3>3. CASE q \in Range(work'[h].queue)
      BY <3>1, <3>3 DEF Attended
    <3> QED
      BY <1>3, <3>1, <3>2, <3>3
  <2> QED
    BY <2>2, <2>3, <2>4 DEF Attended
<1>9. IsList(work'[h].queue) /\ work'[h].job # "leave"
  BY <1>2, <1>3, <1>4
<1> QED
  BY <1>6, <1>7, <1>8, <1>9 DEF CoverWork

LEMMA CoverStatement ==
  ASSUME TablesInv, TablesInv', NEW h \in Handlers, CoverWork(h), Statement(h), ~Abort(h), ~Reply(h)
  PROVE  CoverWork(h)'
<1>1. TodoInv
  BY DEF TablesInv
<1>2. CASE BuildLeaveIndex(h) \/ FindStale(h)
  BY <1>2, CoverCompares
<1>3. CASE HandleLeaveChange(h) \/ LoadLeave(h) \/ LoadTeam(h)
  BY <1>3, CoverLoads
<1>4. CASE EnsureOriginalAssignment(h) \/ ReadOtherLeaves(h)
  BY <1>4, CoverDuties
<1>5. CASE PickLeaveCover(h)
  BY <1>5, CoverTurns
<1>6. CASE CreateCoverAssignment(h)
  BY <1>6, CoverLooks
<1>7. CASE CommitCoverSlot(h)
  <2>1. /\ Now(h).do = "slot" /\ UNCHANGED <<today, team, leaves, orig, cover, r1, bounds>>
        /\ Continues(h, {}, work[h].team)
    BY <1>1, <1>7, SlotCommitted
  <2> QED
    BY <2>1, CoverIdles
<1>8. CASE UpdateLeaveStatus(h)
  BY <1>8, CoverMarks
<1>9. CASE DropCover(h)
  BY <1>9, CoverDrops
<1>10. CASE InsertCover(h) \/ RepointCover(h)
  BY <1>10, CoverFills
<1>11. CASE UpdateLeaveRecord(h)
  BY <1>11, CoverEdits
<1>12. CASE ReassignNext(h)
  BY <1>12, CoverTakesNext
<1>13. ASSUME \/ GetDatesWithAssignments(h) \/ GetMembers(h) \/ DeleteAssignmentsInRange(h)
              \/ ReadLeaves(h) \/ PickOriginal(h) \/ DetermineCoveringMember(h)
              \/ InsertOriginal(h) \/ AdvanceR1(h) \/ DeleteLeaveRecord(h)
       PROVE  FALSE
  <2>1. /\ work[h].todo # <<>>
        /\ Now(h).do \in {"dates", "members", "wipe", "leaves", "r1", "r2", "original", "advance", "delete"}
    BY <1>13 DEF GetDatesWithAssignments, GetMembers, DeleteAssignmentsInRange, ReadLeaves, PickOriginal,
                 DetermineCoveringMember, InsertOriginal, AdvanceR1, DeleteLeaveRecord, Doing, Now
  <2>2. Current(work[h].team, Now(h))
    BY <2>1, CoverStatementIsCurrent
  <2> QED
    BY <2>1, <2>2 DEF Current
<1> QED
  BY <1>2, <1>3, <1>4, <1>5, <1>6, <1>7, <1>8, <1>9, <1>10, <1>11, <1>12, <1>13 DEF Statement

-----------------------------------------------------------------------------
(* Leaves are covered: the other steps. *)

\* The list of the startup reassignment has every leave in it.
LEMMA ListOfLeaves ==
  ASSUME leaves \in LeaveTable
  PROVE  /\ IsList(Chronological)
         /\ \A l \in Leaves : leaves[l] # None => \E q \in Range(Chronological) : q.l = l
<1> DEFINE live == {l \in Leaves : leaves[l] # None}
           Before(k, l) == leaves[k].from < leaves[l].from \/ (leaves[k].from = leaves[l].from /\ k < l)
           before == [l \in live |-> {k \in live : Before(k, l)}]
           order == Ranked(live, before)
           Item(l) == [l |-> l, from |-> leaves[l].from, to |-> leaves[l].to]
           q == [i \in DOMAIN order |-> Item(order[i])]
<1>1. Chronological = q
  BY DEF Chronological
<1>2. IsFiniteSet(live) /\ live \subseteq Leaves
  BY FiniteAssumption, FS_Subset
<1>3. \A l \in live : l \in Nat /\ leaves[l].from \in Nat
  BY RotaAssumption DEF LeaveTable, Leave, Days
<1>4. /\ before \in [live -> SUBSET live]
      /\ \A l \in live : \A k : k \in before[l] <=> k \in live /\ Before(k, l)
  OBVIOUS
<1>5. \A l \in live : ~Before(l, l)
  BY <1>3
<1>6. \A k, l \in live : k = l \/ Before(k, l) \/ Before(l, k)
  BY <1>3
<1>7. \A j, k, l \in live : Before(j, k) /\ Before(k, l) => Before(j, l)
  BY <1>3
<1> HIDE DEF live, Before, before
<1>8. IsOrder(live, before)
  <2>1. \A k, l \in live : k \in before[l] => before[k] \subseteq before[l]
    BY <1>4, <1>7
  <2> QED
    BY <1>2, <1>4, <1>5, <1>6, <2>1 DEF IsOrder
<1>9. order \in Seq(live) /\ \A l \in live : \E i \in 1..Len(order) : order[i] = l
  BY <1>8, RankedLists
<1> HIDE DEF order
<1>10. /\ DOMAIN order = 1..Len(order) /\ Len(order) \in Nat
       /\ \A i \in 1..Len(order) : order[i] \in live
  BY <1>9, LenProperties
<1> DEFINE S == {Item(l) : l \in live}
<1>11. q \in Seq(S) /\ Len(q) = Len(order)
  <2>1. q \in [1..Len(order) -> S]
    BY <1>10
  <2> HIDE DEF S, Item, q
  <2> QED
    BY <1>10, <2>1
<1>12. \A l \in live : \E x \in Range(q) : x.l = l
  <2> SUFFICES ASSUME NEW l \in live PROVE \E x \in Range(q) : x.l = l
    OBVIOUS
  <2>1. PICK i \in DOMAIN order : order[i] = l
    BY <1>9, <1>10
  <2>2. q[i] = Item(l) /\ i \in DOMAIN q
    BY <2>1
  <2>3. Item(l).l = l
    OBVIOUS
  <2>4. q[i] \in Range(q)
    BY <2>2 DEF Range
  <2> QED
    BY <2>2, <2>3, <2>4
<1> HIDE DEF S, q
<1>13. IsList(q)
  BY <1>11, SequencesAreLists
<1> QED
  BY <1>1, <1>12, <1>13 DEF live

LEMMA RestartStarts ==
  ASSUME NEW h \in Handlers, Restart(h)
  PROVE  /\ UNCHANGED tables /\ \A g \in Handlers : g # h => work'[g] = Idle
         /\ work'[h].job = "boot" /\ work'[h].todo = <<>> /\ work'[h].queue = Chronological
<1> DEFINE queue == Chronological
           empty == <<>>
           none == {}
           no == FALSE
           v == [Idle EXCEPT !.job = "boot"]
           w == [Idle EXCEPT !.job = "boot", !.queue = queue]
<1>1. Idle = [job |-> "none", about |-> None, todo |-> empty, queue |-> empty, team |-> none,
              anchor |-> None, failed |-> no]
  BY DEF Idle
<1>2. UNCHANGED tables /\ work' = [g \in Handlers |-> IF g = h THEN w ELSE Idle]
  BY DEF Restart
<1> HIDE DEF queue
<1>3. w = [v EXCEPT !.queue = queue]
  OBVIOUS
<1> HIDE DEF w, none, no
<1>4. v = [job |-> "boot", about |-> None, todo |-> empty, queue |-> empty, team |-> none,
           anchor |-> None, failed |-> no]
  BY <1>1
<1> HIDE DEF v
<1>5. w.job = "boot" /\ w.todo = empty /\ w.queue = queue
  BY <1>3, <1>4
<1> QED
  BY <1>2, <1>5 DEF queue

LEMMA CoverRestarts ==
  ASSUME TablesInv, TablesInv', NEW h \in Handlers, Restart(h)
  PROVE  CoverWork(h)'
<1>1. /\ UNCHANGED tables /\ work'[h].job = "boot" /\ work'[h].todo = <<>>
      /\ work'[h].queue = Chronological
  BY RestartStarts
<1>2. leaves \in LeaveTable
  BY DEF TablesInv, RowsTyped
<1>3. /\ IsList(work'[h].queue)
      /\ \A l \in Leaves : leaves[l] # None => \E q \in Range(work'[h].queue) : q.l = l
  BY <1>1, <1>2, ListOfLeaves
<1>4. Range(work'[h].todo) = {} /\ Rest(work'[h].todo) = {}
  <2>1. Range(<<>>) = {} /\ Rest(<<>>) \subseteq Range(<<>>)
    BY RangesOfShortLists, ShortLists, RangeOfLists
  <2> QED
    BY <1>1, <2>1
<1>5. \A l \in Leaves, d \in Working : Attended(h, l, d)'
  BY <1>1, <1>3 DEF Attended, IsLeaveDay, tables
<1> QED
  BY <1>1, <1>3, <1>4, <1>5 DEF CoverWork, EditsFirst

LEMMA CoverBegins ==
  ASSUME TablesInv, TablesInv', NEW h \in Handlers, NEW about \in Leaves, NEW todo,
         AboutLeave(todo, about), Begin(h, "leave", about, todo, <<>>)
  PROVE  CoverWork(h)'
<1> DEFINE empty == <<>>
<1>1. IsList(todo) /\ WorkOK
  BY DEF AboutLeave, Opening, TablesInv, TodoInv
<1>2. IsList(empty)
  BY ShortLists
<1>3. Begin(h, "leave", about, todo, empty)
  OBVIOUS
<1> HIDE DEF empty
<1>4. work'[h].job = "leave" /\ work'[h].about = about /\ work'[h].todo = todo /\ work'[h].queue = empty
  BY <1>1, <1>3, BeginStarts
<1>5. \A t \in Range(todo) : Current(work[h].team, t)'
  BY DEF AboutLeave, Current
<1>6. EditsFirst(work'[h]) /\ \A t \in Rest(todo) : t.do \notin {"repoint", "edit"}
  BY <1>4 DEF AboutLeave, EditsFirst
<1>7. ASSUME NEW l \in Leaves, NEW d \in Working, IsFor(work'[h], l)
      PROVE  Attended(h, l, d)'
  <2>1. PICK t \in Range(todo) : t.do \in {"change", "leave"} /\ t.l = l
    BY <1>4, <1>7 DEF AboutLeave, IsFor
  <2>2. Sees(t, l, d)
    BY <2>1 DEF Sees
  <2> QED
    BY <1>4, <2>2 DEF Attended
<1> QED
  BY <1>2, <1>4, <1>5, <1>6, <1>7 DEF CoverWork, empty

LEMMA CoverTicks ==
  ASSUME TablesInv, NEW h \in Handlers, CoverWork(h), Tick
  PROVE  CoverWork(h)'
<1>1. UNCHANGED <<team, orig, cover, work>>
  BY DEF Tick
<1>2. today \in Days /\ leaves \in LeaveTable /\ TodoInv
  BY DEF TablesInv, RowsTyped
<1>3. /\ \A l \in Leaves : leaves'[l] # None => leaves'[l] = leaves[l]
      /\ \A d \in Days : today' <= d => today <= d /\ OnLeave(d)' = OnLeave(d)
  BY <1>2, TickForgetsPast
<1>4. ASSUME NEW ms, NEW t, ItemTyped(t), Current(ms, t)
      PROVE  Current(ms, t)'
  <2>1. t.do = "compare" => \A d \in t.days : today' <= d => t.away[d] = OnLeave(d)'
    BY <1>3, <1>4 DEF Current, ItemTyped
  <2>2. ASSUME t.do \in {"drop", "turn", "look", "cover", "repoint"}, today' <= t.d
        PROVE  today <= t.d /\ OnLeave(t.d)' = OnLeave(t.d)
    <3>1. t.d \in Days
      BY <1>4, <2>2 DEF ItemTyped
    <3> QED
      BY <1>3, <2>2, <3>1
  <2> QED
    BY <1>1, <1>3, <1>4, <2>1, <2>2 DEF Current
<1>5. \A t \in Range(work[h].todo) : ItemTyped(t) /\ Current(work[h].team, t)
  BY <1>2, RangeOfLists DEF TodoInv, WorkOK, IsRequest, Typed, CoverWork
<1>6. ASSUME NEW l \in Leaves, NEW d \in Working, IsFor(work[h], l)
      PROVE  Attended(h, l, d)'
  <2>1. Attended(h, l, d) /\ d \in Days
    BY <1>6, RotaAssumption DEF CoverWork, Days
  <2>2. ASSUME IsLeaveDay(l, d)'
        PROVE  IsLeaveDay(l, d) /\ (Settled(l, d)' <=> Settled(l, d))
    <3>1. leaves'[l] = leaves[l] /\ today <= d /\ OnLeave(d)' = OnLeave(d)
      BY <1>3, <2>1, <2>2 DEF IsLeaveDay
    <3> QED
      BY <1>1, <2>2, <3>1 DEF IsLeaveDay, Settled, Scheduled, IsCovered
  <2> QED
    BY <1>1, <2>1, <2>2 DEF Attended
<1> QED
  BY <1>1, <1>4, <1>5, <1>6 DEF CoverWork

\* What a step of request h does to the others and to its own place.
LEMMA StepsAreApart ==
  ASSUME TodoInv, NEW h \in Handlers, Statement(h) \/ Fail(h)
  PROVE  /\ \A g \in Handlers : g # h => work'[g] = work[g]
         /\ work'[h].job = work[h].job \/ work'[h] = Idle
         /\ work[h] # Idle
<1>1. WorkOK
  BY DEF TodoInv
<1>2. ASSUME Abort(h)
      PROVE  /\ \A g \in Handlers : g # h => work'[g] = work[g]
             /\ work'[h].job = work[h].job
  <2> DEFINE w == [work[h] EXCEPT !.todo = <<>>, !.failed = TRUE]
  <2>1. work' = [work EXCEPT ![h] = w]
    BY <1>2 DEF Abort
  <2> HIDE DEF w
  <2>2. \A g \in Handlers : g # h => work'[g] = work[g]
    BY <1>1, <2>1, OthersWait
  <2> QED
    BY <1>1, <1>2, <2>2, AbortStops
<1>3. ASSUME NEW S, NEW ms, Continues(h, S, ms)
      PROVE  /\ \A g \in Handlers : g # h => work'[g] = work[g]
             /\ work'[h].job = work[h].job
  BY <1>3 DEF Continues
<1>4. /\ \A g \in Handlers : g # h => work'[g] = work[g]
      /\ work'[h].job = work[h].job \/ work'[h] = Idle
  <2>1. CASE Fail(h)
    BY <1>2, <1>3, <2>1, FailedRuns
  <2>2. CASE ReassignNext(h)
    BY <2>2, NextLeaveTaken
  <2>3. CASE Reply(h)
    BY <1>1, <2>3 DEF Reply, WorkOK
  <2>4. CASE Statement(h) /\ ~ReassignNext(h) /\ ~Reply(h)
    <3>1. Abort(h) \/ \E S, ms : Continues(h, S, ms)
      BY <2>4, StatementContinues
    <3> QED
      BY <1>2, <1>3, <3>1
  <2> QED
    BY <2>1, <2>2, <2>3, <2>4
<1>5. work[h].todo # <<>> \/ work[h].queue # <<>> \/ work[h].job # "none"
  BY DEF Fail, Statement, BuildLeaveIndex, FindStale, DropCover, GetDatesWithAssignments, GetMembers,
         DeleteAssignmentsInRange, ReadLeaves, PickOriginal, DetermineCoveringMember, CommitCoverSlot,
         InsertOriginal, AdvanceR1, InsertCover, LoadLeave, LoadTeam, EnsureOriginalAssignment,
         ReadOtherLeaves, PickLeaveCover, CreateCoverAssignment, RepointCover, UpdateLeaveStatus,
         HandleLeaveChange, UpdateLeaveRecord, DeleteLeaveRecord, ReassignNext, Reply, Doing
<1>6. Idle.todo = <<>> /\ Idle.queue = <<>> /\ Idle.job = "none"
  BY DEF Idle
<1>7. work[h] # Idle
  BY <1>5, <1>6
<1> QED
  BY <1>4, <1>7

LEMMA ExclusiveInductive ==
  ASSUME TablesInv, Exclusive, [Next]_vars
  PROVE  Exclusive'
<1>1. TodoInv /\ WorkOK /\ RowsTyped /\ Idle.job = "none"
  BY DEF TablesInv, TodoInv, Idle
<1>2. ASSUME NEW h \in Handlers, ViewDashboard(h) \/ Request(h)
      PROVE  Exclusive'
  <2>1. PICK job, about, todo, queue : Opens(job, about, todo, queue) /\ Begin(h, job, about, todo, queue)
    BY <1>1, <1>2, RequestsOpenSo
  <2>2. IsList(todo)
    <3>1. Plain(EnsureSteps)
      BY PlainLists DEF EnsureSteps
    <3> QED
      BY <2>1, <3>1 DEF Opens, Plain, AboutLeave, Opening
  <2>3. work'[h].job = job /\ \A g \in Handlers : ~Starting(g)
    BY <1>1, <2>1, <2>2, BeginStarts
  <2>4. job # "boot"
    BY <2>1 DEF Opens
  <2>5. \A g \in Handlers : g # h => work'[g] = work[g]
    BY <1>1, <2>1 DEF Begin, WorkOK
  <2>6. \A g \in Handlers : work'[g].job # "boot"
    BY <2>3, <2>4, <2>5 DEF Starting
  <2> QED
    BY <2>6 DEF Exclusive, Starting
<1>3. ASSUME NEW h \in Handlers, Statement(h) \/ Fail(h)
      PROVE  Exclusive'
  <2>1. /\ \A g \in Handlers : g # h => work'[g] = work[g]
        /\ work'[h].job = work[h].job \/ work'[h] = Idle
        /\ work[h] # Idle
    BY <1>1, <1>3, StepsAreApart
  <2> SUFFICES ASSUME NEW g \in Handlers, NEW a \in Handlers, work'[g].job = "boot", g # a
               PROVE  work'[a] = Idle
    BY DEF Exclusive, Starting
  <2>2. work[g].job = "boot"
    BY <1>1, <2>1
  <2>3. work[a] = Idle
    BY <2>2 DEF Exclusive, Starting
  <2> QED
    BY <2>1, <2>3
<1>4. ASSUME NEW h \in Handlers, Restart(h)
      PROVE  Exclusive'
  <2>1. \A g \in Handlers : g # h => work'[g] = Idle
    BY <1>4, RestartStarts
  <2> QED
    BY <1>1, <2>1 DEF Exclusive, Starting
<1>5. CASE work' = work
  BY <1>5 DEF Exclusive, Starting
<1> QED
  BY <1>2, <1>3, <1>4, <1>5 DEF Next, Tick, vars

\* While request h runs, no other one covers a leave.
LEMMA CoverAlone ==
  ASSUME Exclusive, NEW h \in Handlers, work[h] # Idle \/ \A g \in Handlers : ~Starting(g),
         \A g \in Handlers : g # h => work'[g] = work[g]
  PROVE  \A g \in Handlers : g # h => ~Covering(g)'
<1> SUFFICES ASSUME NEW g \in Handlers, g # h, Covering(g)'
             PROVE  FALSE
  OBVIOUS
<1>1. ~OneHandler
  BY DEF OneHandler
<1>2. work[g].job = "boot"
  BY <1>1 DEF Covering, OneHandler
<1> QED
  BY <1>2 DEF Exclusive, Starting

LEMMA CoverInductive ==
  ASSUME CoverInv, [Next]_vars
  PROVE  CoverInv'
<1>1. TablesInv /\ Exclusive /\ TodoInv /\ WorkOK /\ RowsTyped
  BY DEF CoverInv, TablesInv, TodoInv
<1>2. TablesInv' /\ Exclusive'
  BY <1>1, TablesInductive, ExclusiveInductive
<1>3. ASSUME NEW h \in Handlers, \A g \in Handlers : g # h => ~Covering(g)',
             Covering(h)' /\ ~work'[h].failed => CoverWork(h)'
      PROVE  CoverInv'
  BY <1>2, <1>3 DEF CoverInv
<1>4. ASSUME NEW h \in Handlers, ViewDashboard(h) \/ Request(h)
      PROVE  CoverInv'
  <2>1. PICK job, about, todo, queue : Opens(job, about, todo, queue) /\ Begin(h, job, about, todo, queue)
    BY <1>1, <1>4, RequestsOpenSo
  <2>2. IsList(todo)
    <3>1. Plain(EnsureSteps)
      BY PlainLists DEF EnsureSteps
    <3> QED
      BY <2>1, <3>1 DEF Opens, Plain, AboutLeave, Opening
  <2>3. work'[h].job = job /\ \A g \in Handlers : ~Starting(g)
    BY <1>1, <2>1, <2>2, BeginStarts
  <2>4. \A g \in Handlers : g # h => work'[g] = work[g]
    BY <1>1, <2>1 DEF Begin, WorkOK
  <2>5. \A g \in Handlers : g # h => ~Covering(g)'
    BY <1>1, <2>3, <2>4, CoverAlone
  <2>6. ASSUME Covering(h)'
        PROVE  CoverWork(h)'
    <3>1. job = "leave"
      BY <2>1, <2>3, <2>6 DEF Covering, Opens
    <3>2. about \in Leaves /\ AboutLeave(todo, about) /\ queue = <<>>
      BY <2>1, <3>1 DEF Opens
    <3>3. Begin(h, "leave", about, todo, <<>>)
      BY <2>1, <3>1, <3>2
    <3> QED
      BY <1>1, <1>2, <3>2, <3>3, CoverBegins
  <2> QED
    BY <1>3, <2>5, <2>6
<1>5. ASSUME NEW h \in Handlers, Statement(h) \/ Fail(h)
      PROVE  CoverInv'
  <2>1. /\ \A g \in Handlers : g # h => work'[g] = work[g]
        /\ work'[h].job = work[h].job \/ work'[h] = Idle
        /\ work[h] # Idle
    BY <1>1, <1>5, StepsAreApart
  <2>2. \A g \in Handlers : g # h => ~Covering(g)'
    BY <1>1, <2>1, CoverAlone
  <2>3. ASSUME Covering(h)', ~work'[h].failed
        PROVE  CoverWork(h)'
    <3>1. ~Abort(h)
      BY <1>1, <2>3, AbortStops
    <3>2. Covering(h) /\ work'[h] # Idle
      BY <2>1, <2>3 DEF Covering, Idle
    <3>3. CASE Fail(h)
      <4>1. UNCHANGED tables /\ Now(h).do = "slot" /\ Continues(h, {}, work[h].team)
        BY <1>1, <3>1, <3>3, FailedRuns
      <4>2. CoverWork(h) /\ UNCHANGED <<today, team, leaves, orig, cover>>
        BY <2>3, <3>2, <4>1 DEF CoverInv, Continues, tables
      <4> QED
        BY <1>1, <1>2, <4>1, <4>2, CoverIdles
    <3>4. CASE Statement(h)
      <4>1. ~Reply(h)
        BY <1>1, <3>2 DEF Reply, WorkOK
      <4>2. work'[h].failed = work[h].failed
        <5>1. CASE ReassignNext(h)
          BY <1>1, <5>1, NextLeaveTaken
        <5>2. CASE ~ReassignNext(h)
          <6>1. \E S, ms : Continues(h, S, ms)
            BY <1>1, <3>1, <3>4, <4>1, <5>2, StatementContinues
          <6> QED
            BY <6>1 DEF Continues
        <5> QED
          BY <5>1, <5>2
      <4>3. CoverWork(h)
        BY <2>3, <3>2, <4>2 DEF CoverInv
      <4> QED
        BY <1>1, <1>2, <3>1, <3>4, <4>1, <4>3, CoverStatement
    <3> QED
      BY <1>5, <3>3, <3>4
  <2> QED
    BY <1>3, <2>2, <2>3
<1>6. ASSUME NEW h \in Handlers, Restart(h)
      PROVE  CoverInv'
  <2>1. \A g \in Handlers : g # h => work'[g] = Idle
    BY <1>6, RestartStarts
  <2>2. \A g \in Handlers : g # h => ~Covering(g)'
    BY <2>1 DEF Covering, Idle
  <2>3. CoverWork(h)'
    BY <1>1, <1>2, <1>6, CoverRestarts
  <2> QED
    BY <1>3, <2>2, <2>3
<1>7. CASE Tick
  <2>1. \A h \in Handlers : Covering(h)' /\ ~work'[h].failed => CoverWork(h)'
    <3> SUFFICES ASSUME NEW h \in Handlers, Covering(h)', ~work'[h].failed
                 PROVE  CoverWork(h)'
      OBVIOUS
    <3>1. Covering(h) /\ ~work[h].failed
      BY <1>7 DEF Tick, Covering
    <3>2. CoverWork(h)
      BY <3>1 DEF CoverInv
    <3> QED
      BY <1>1, <1>7, <3>2, CoverTicks
  <2> QED
    BY <1>2, <2>1 DEF CoverInv
<1>8. CASE UNCHANGED vars
  <2>1. UNCHANGED <<today, team, leaves, orig, cover, work>>
    BY <1>8 DEF vars
  <2>2. \A ms, t : Current(ms, t)' <=> Current(ms, t)
    BY <2>1 DEF Current, OnLeave
  <2>3. \A h, l, d : Attended(h, l, d)' <=> Attended(h, l, d)
    BY <2>1 DEF Attended, IsLeaveDay, Settled, Scheduled, IsCovered, OnLeave
  <2>4. \A h \in Handlers : CoverWork(h) => CoverWork(h)'
    BY <2>1, <2>2, <2>3 DEF CoverWork
  <2> QED
    BY <1>2, <2>1, <2>4 DEF CoverInv, Covering
<1> QED
  BY <1>4, <1>5, <1>6, <1>7, <1>8 DEF Next

\* A covering request that has ended well leaves its leaves covered.
LEMMA CoverIsDone ==
  ASSUME CoverInv, NEW h \in Handlers, Covering(h), work[h].todo = <<>>, work[h].queue = <<>>,
         ~work[h].failed, NEW l \in Leaves, IsFor(work[h], l)
  PROVE  LeaveIsCovered(l)
<1>1. Range(work[h].todo) = {} /\ Range(work[h].queue) = {}
  BY RangesOfShortLists
<1>2. \A d \in Working : Attended(h, l, d)
  BY DEF CoverInv, CoverWork
<1>3. \A d \in Working : IsLeaveDay(l, d) => Settled(l, d)
  BY <1>1, <1>2 DEF Attended
<1> QED
  BY <1>3 DEF LeaveIsCovered, IsLeaveDay, Settled

LEMMA CoverAtFirst ==
  ASSUME Init
  PROVE  CoverInv
<1>1. TablesInv
  BY TablesAtFirst
<1>2. \A h \in Handlers : work[h] = Idle /\ ~Covering(h) /\ ~Starting(h)
  BY DEF Init, Covering, Starting, Idle
<1> QED
  BY <1>1, <1>2 DEF CoverInv, Exclusive

(* A leave that was reported or edited is covered.  With one request at a  *)
(* time, handleLeaveReportPost, handleReportLeave and the edit of a leave  *)
(* that ran to their end without an error leave no coming day of the leave *)
(* to its member alone: a cover who is at work takes it, unless the whole  *)
(* team is away or a swap decided who does.  This stands until the next    *)
(* request, although the cover was chosen statement by statement, its slot *)
(* may have failed to be saved and midnight may have passed in between.    *)
THEOREM ReportedLeavesAreCovered ==
  ASSUME OneHandler
  PROVE  Spec => []ReportedLeaveIsCovered
<1>1. Init => CoverInv
  BY CoverAtFirst
<1>2. CoverInv /\ [Next]_vars => CoverInv'
  BY CoverInductive
<1>3. CoverInv => ReportedLeaveIsCovered
  <2> SUFFICES ASSUME CoverInv, NEW h \in Handlers, Done(h, {"leave"})
               PROVE  LeaveIsCovered(work[h].about)
    BY DEF ReportedLeaveIsCovered
  <2>1. /\ work[h].job = "leave" /\ work[h].todo = <<>> /\ work[h].queue = <<>> /\ ~work[h].failed
        /\ Covering(h)
    BY DEF Done, Covering
  <2>2. work[h].about \in Leaves /\ IsFor(work[h], work[h].about)
    BY <2>1 DEF CoverInv, CoverWork, IsFor
  <2> QED
    BY <2>1, <2>2, CoverIsDone
<1> QED
  BY <1>1, <1>2, <1>3, PTL DEF Spec

(* A restart heals what the crash cut short.  When ReassignCovers has run  *)
(* at startup without an error, and before the first request is served,    *)
(* every coming day of every leave record is covered, whatever requests of *)
(* however many handlers were stopped, failed or interleaved before it.    *)
THEOREM RestartsHeal == Spec => []RestartHeals
<1>1. Init => CoverInv
  BY CoverAtFirst
<1>2. CoverInv /\ [Next]_vars => CoverInv'
  BY CoverInductive
<1>3. CoverInv => RestartHeals
  <2> SUFFICES ASSUME CoverInv, NEW h \in Handlers, Done(h, {"boot"}), NEW l \in Leaves
               PROVE  LeaveIsCovered(l)
    BY DEF RestartHeals
  <2>1. /\ work[h].job = "boot" /\ work[h].todo = <<>> /\ work[h].queue = <<>> /\ ~work[h].failed
        /\ Covering(h) /\ IsFor(work[h], l)
    BY DEF Done, Covering, IsFor
  <2> QED
    BY <2>1, CoverIsDone
<1> QED
  BY <1>1, <1>2, <1>3, PTL DEF Spec

\* The request of h goes on with these statements, and nobody else does anything.
GoesTo(h, todo, queue, ms, anchor) ==
  /\ work'[h].todo = todo /\ work'[h].queue = queue /\ work'[h].team = ms
  /\ work'[h].anchor = anchor /\ work'[h].job = work[h].job
  /\ \A g \in Handlers : g # h => work'[g] = work[g]

LEMMA ConsLists ==
  ASSUME NEW r, IsList(r)
  PROVE  /\ \A a : /\ IsList(Cons(a, r)) /\ Cons(a, r) # <<>>
                   /\ Head(Cons(a, r)) = a /\ Tail(Cons(a, r)) = r
         /\ <<>> \o r = r
         /\ \A a : <<a>> \o r = Cons(a, r)
         /\ \A a, b : <<a, b>> \o r = Cons(a, Cons(b, r))
         /\ \A a, b, c : <<a, b, c>> \o r = Cons(a, Cons(b, Cons(c, r)))
<1> DEFINE R == {r[i] : i \in DOMAIN r}
<1>1. r \in Seq(R)
  BY DEF IsList
<1> HIDE DEF R
<1>2. ASSUME NEW S, NEW s \in Seq(S), NEW a \in S
      PROVE  /\ Cons(a, s) \in Seq(S) /\ Cons(a, s) # <<>>
             /\ Head(Cons(a, s)) = a /\ Tail(Cons(a, s)) = s
  BY DEF Cons
<1>3. ASSUME NEW a
      PROVE  /\ IsList(Cons(a, r)) /\ Cons(a, r) # <<>>
             /\ Head(Cons(a, r)) = a /\ Tail(Cons(a, r)) = r
  <2> DEFINE S == R \cup {a}
  <2>1. r \in Seq(S) /\ a \in S
    BY <1>1, SeqMonotonic
  <2> HIDE DEF S
  <2> QED
    BY <1>2, <2>1, SequencesAreLists
<1>4. <<>> \o r = r
  BY <1>1
<1>7. ASSUME NEW S, NEW a \in S, NEW b \in S
      PROVE  <<a, b>> = <<a>> \o <<b>>
  <2>1. <<a, b>> \in Seq(S) /\ <<a>> \in Seq(S) /\ <<b>> \in Seq(S)
    OBVIOUS
  <2>2. /\ <<a>> \o <<b>> \in Seq(S) /\ Len(<<a>> \o <<b>>) = Len(<<a, b>>)
        /\ \A i \in 1..Len(<<a, b>>) : <<a, b>>[i] = (<<a>> \o <<b>>)[i]
    BY <2>1
  <2> QED
    BY <2>1, <2>2, SeqEqual
<1>8. ASSUME NEW S, NEW a \in S, NEW b \in S, NEW c \in S
      PROVE  <<a, b, c>> = <<a, b>> \o <<c>>
  <2>1. <<a, b, c>> \in Seq(S) /\ <<a, b>> \in Seq(S) /\ <<c>> \in Seq(S)
    OBVIOUS
  <2>2. /\ <<a, b>> \o <<c>> \in Seq(S) /\ Len(<<a, b>> \o <<c>>) = Len(<<a, b, c>>)
        /\ \A i \in 1..Len(<<a, b, c>>) : <<a, b, c>>[i] = (<<a, b>> \o <<c>>)[i]
    BY <2>1
  <2> QED
    BY <2>1, <2>2, SeqEqual
<1>5. ASSUME NEW a, NEW b
      PROVE  <<a, b>> \o r = Cons(a, Cons(b, r))
  <2> DEFINE S == R \cup {a, b}
  <2>1. r \in Seq(S) /\ a \in S /\ b \in S
    BY <1>1, SeqMonotonic
  <2> HIDE DEF S
  <2>2. <<a>> \in Seq(S) /\ <<b>> \in Seq(S) /\ <<a, b>> = <<a>> \o <<b>>
    BY <2>1, <1>7
  <2>3. (<<a>> \o <<b>>) \o r = <<a>> \o (<<b>> \o r)
    BY <2>1, <2>2, ConcatAssociative
  <2> QED
    BY <2>2, <2>3 DEF Cons
<1>6. ASSUME NEW a, NEW b, NEW c
      PROVE  <<a, b, c>> \o r = Cons(a, Cons(b, Cons(c, r)))
  <2> DEFINE S == R \cup {a, b, c}
  <2>1. r \in Seq(S) /\ a \in S /\ b \in S /\ c \in S
    BY <1>1, SeqMonotonic
  <2> HIDE DEF S
  <2>2. /\ <<a, b>> \in Seq(S) /\ <<c>> \in Seq(S) /\ <<a, b, c>> = <<a, b>> \o <<c>>
    BY <2>1, <1>8
  <2>3. (<<a, b>> \o <<c>>) \o r = <<a, b>> \o (<<c>> \o r)
    BY <2>1, <2>2, ConcatAssociative
  <2>4. IsList(<<c>> \o r) /\ <<c>> \o r = Cons(c, r)
    BY <2>1, <1>3 DEF Cons
  <2>5. <<a, b>> \o (<<c>> \o r) = <<a>> \o (<<b>> \o (<<c>> \o r))
    <3>1. <<a>> \in Seq(S) /\ <<b>> \in Seq(S) /\ <<a, b>> = <<a>> \o <<b>> /\ <<c>> \o r \in Seq(S)
      BY <2>1, <1>7
    <3> DEFINE p == <<a>>
               q == <<b>>
               t == <<c>> \o r
    <3>2. (p \o q) \o t = p \o (q \o t)
      <4> HIDE DEF p, q, t
      <4>1. p \in Seq(S) /\ q \in Seq(S) /\ t \in Seq(S)
        BY <3>1 DEF p, q, t
      <4> QED
        BY <4>1, ConcatAssociative
    <3> QED
      BY <3>1, <3>2
  <2> QED
    BY <2>2, <2>3, <2>5 DEF Cons
<1>9. \A a : <<a>> \o r = Cons(a, r)
  BY DEF Cons
<1> QED
  BY <1>3, <1>4, <1>5, <1>6, <1>9

LEMMA ThenGoesTo ==
  ASSUME TodoInv, NEW h \in Handlers, NEW a, NEW r, IsList(r), work[h].todo = Cons(a, r),
         NEW steps, IsList(steps), Then(h, steps)
  PROVE  /\ Now(h) = a /\ IsList(steps \o r)
         /\ GoesTo(h, steps \o r, work[h].queue, work[h].team, work[h].anchor)
<1>1. Cons(a, r) # <<>> /\ Head(Cons(a, r)) = a /\ Tail(Cons(a, r)) = r
  BY ConsLists
<1>2. WorkOK /\ IsRequest(work[h])
  BY DEF TodoInv, WorkOK
<1>3. /\ work'[h] = [work[h] EXCEPT !.todo = work'[h].todo]
      /\ work'[h].todo = steps \o Tail(work[h].todo)
  BY <1>1, <1>2, ThenRuns
<1>4. PICK todo : todo = work'[h].todo
  OBVIOUS
<1>5. [work[h] EXCEPT !.todo = todo] =
        [job |-> work[h].job, about |-> work[h].about, todo |-> todo, queue |-> work[h].queue,
         team |-> work[h].team, anchor |-> work[h].anchor, failed |-> work[h].failed]
  BY <1>2, RequestFields
<1>6. /\ work'[h].queue = work[h].queue /\ work'[h].team = work[h].team
      /\ work'[h].anchor = work[h].anchor /\ work'[h].job = work[h].job
  BY <1>3, <1>4, <1>5
<1>7. \A g \in Handlers : g # h => work'[g] = work[g]
  BY <1>2 DEF Then, WorkOK
<1>8. IsList(steps \o r)
  BY ListsJoin
<1> QED
  BY <1>1, <1>3, <1>6, <1>7, <1>8 DEF GoesTo, Now

-----------------------------------------------------------------------------
(* Two runs of ReassignCovers, on what their choices depend. *)

LeaveDays(l) == DayRange(leaves[l].from, leaves[l].to)

\* What LoadTeam runs for a leave.
DutyList(l) ==
  IF leaves[l] = None THEN <<>>
  ELSE PerDay({[do |-> "duty", d |-> d, l |-> l, m |-> leaves[l].member] : d \in LeaveDays(l) \cap Working})

\* Who has day d whatever the run chooses for it.
Holders(d) ==
  {m \in Members :
     \/ orig[d] # None /\ orig[d].member = m
     \/ cover[d] # None /\ cover[d].linked /\ cover[d].swapped /\ cover[d].member = m /\ ~Stale(d)}

\* What a run reads and does not change.
World ==
  [team |-> team, away |-> [d \in Days |-> OnLeave(d)], holders |-> [d \in Days |-> Holders(d)],
   duties |-> [l \in Leaves |-> DutyList(l)], list |-> Chronological]

(* How far a run has come: the leaves and the duties to come, the position  *)
(* from which it counts, and its choice for each day so far.               *)
AtFirst(w) == [queue |-> w.list, todo |-> <<>>, anchor |-> None, chosen |-> [d \in Days |-> None]]
AtEnd(x) == x.todo = <<>> /\ x.queue = <<>>

Chosen(w, x) ==
  LET t == Head(x.todo) IN FindCover(w.team, w.away[t.d], TurnOf(x.anchor, t.d, w.team))
Takes(w, x) == Head(x.todo).m \in w.holders[Head(x.todo).d] /\ Chosen(w, x) # None

NextLeave(w, x) ==
  [queue |-> Tail(x.queue), todo |-> w.duties[Head(x.queue).l], anchor |-> x.anchor, chosen |-> x.chosen]
Passes(x) ==
  [queue |-> x.queue, todo |-> Tail(x.todo), anchor |-> x.anchor, chosen |-> x.chosen]
Gives(w, x) ==
  [queue |-> x.queue, todo |-> Tail(x.todo),
   anchor |-> [last |-> Head(x.todo).d, slot |-> SlotOf(w.team, Chosen(w, x))],
   chosen |-> [e \in Days |-> IF e = Head(x.todo).d THEN Chosen(w, x) ELSE x.chosen[e]]]

Following(w, x) ==
  IF x.todo = <<>> THEN NextLeave(w, x) ELSE IF Takes(w, x) THEN Gives(w, x) ELSE Passes(x)

(* The leaves and duties to come are as the tables say, the covers of days *)
(* that are done or being done stand in for somebody on leave, and the     *)
(* choices made are the covers.                                            *)
IsListed(r) ==
  /\ r.l \in Leaves /\ leaves[r.l] # None
  /\ r.from = leaves[r.l].from /\ r.to = leaves[r.l].to

IsDuty(t) ==
  /\ t.do = "duty" /\ t.l \in Leaves /\ leaves[t.l] # None /\ t.m = leaves[t.l].member
  /\ t.d \in LeaveDays(t.l) \cap Working /\ ~Stale(t.d)

IsSwept(l) == \A d \in LeaveDays(l) : ~Stale(d)

SweptBut(q) == \A l \in Leaves : leaves[l] # None => IsSwept(l) \/ \E r \in Range(q) : r.l = l

Covered(chosen) ==
  \A d \in Days : chosen[d] # None =>
    /\ cover[d] # None /\ ~Stale(d)
    /\ cover[d].swapped \/ cover[d].member = chosen[d]

Waits(x) ==
  /\ IsList(x.queue) /\ IsList(x.todo) /\ x.anchor \in Position \cup {None}
  /\ \A r \in Range(x.queue) : IsListed(r)
  /\ \A t \in Range(x.todo) : IsDuty(t)
  /\ SweptBut(x.queue)

Stands(x) == Waits(x) /\ Covered(x.chosen)

\* The leaves but for their status, the team, the originals and the covers are the same.
SameLeave(l) ==
  /\ leaves'[l] = None <=> leaves[l] = None
  /\ leaves[l] # None => /\ leaves'[l].member = leaves[l].member
                         /\ leaves'[l].from = leaves[l].from
                         /\ leaves'[l].to = leaves[l].to

SameView ==
  /\ UNCHANGED <<team, orig, cover>>
  /\ \A d : OnLeave(d)' = OnLeave(d)
  /\ \A l \in Leaves : SameLeave(l)

\* The leaves in the order of Chronological.
LiveIn(f) == {l \in Leaves : f[l] # None}
EarlierIn(f) ==
  [l \in LiveIn(f) |->
     {k \in LiveIn(f) : f[k].from < f[l].from \/ (f[k].from = f[l].from /\ k < l)}]
OrderOf(f) == Ranked(LiveIn(f), EarlierIn(f))
ListOf(f, order) ==
  [i \in DOMAIN order |-> [l |-> order[i], from |-> f[order[i]].from, to |-> f[order[i]].to]]

LEMMA LeavesInOrder ==
  ASSUME NEW f \in LeaveTable
  PROVE  /\ OrderOf(f) \in Seq(LiveIn(f)) /\ \A i \in DOMAIN OrderOf(f) : OrderOf(f)[i] \in LiveIn(f)
         /\ \A l \in LiveIn(f) : \E i \in DOMAIN OrderOf(f) : OrderOf(f)[i] = l
<1> DEFINE live == LiveIn(f)
           Before(k, l) == f[k].from < f[l].from \/ (f[k].from = f[l].from /\ k < l)
           before == [l \in live |-> {k \in live : Before(k, l)}]
<1>1. before = EarlierIn(f)
  BY DEF EarlierIn
<1>2. IsFiniteSet(live) /\ live \subseteq Leaves
  BY FiniteAssumption, FS_Subset DEF LiveIn
<1>3. \A l \in live : l \in Nat /\ f[l].from \in Nat
  BY RotaAssumption DEF LeaveTable, Leave, Days, LiveIn
<1>4. /\ before \in [live -> SUBSET live]
      /\ \A l \in live : \A k : k \in before[l] <=> k \in live /\ Before(k, l)
  OBVIOUS
<1>5. \A l \in live : ~Before(l, l)
  BY <1>3
<1>6. \A k, l \in live : k = l \/ Before(k, l) \/ Before(l, k)
  BY <1>3
<1>7. \A j, k, l \in live : Before(j, k) /\ Before(k, l) => Before(j, l)
  BY <1>3
<1> HIDE DEF live, Before, before
<1>8. IsOrder(live, before)
  <2>1. \A k, l \in live : k \in before[l] => before[k] \subseteq before[l]
    BY <1>4, <1>7
  <2> QED
    BY <1>2, <1>4, <1>5, <1>6, <2>1 DEF IsOrder
<1> DEFINE order == Ranked(live, before)
<1>9. order \in Seq(live) /\ \A l \in live : \E i \in 1..Len(order) : order[i] = l
  BY <1>8, RankedLists
<1>10. order = OrderOf(f)
  BY <1>1 DEF OrderOf, live
<1> HIDE DEF order
<1>11. DOMAIN order = 1..Len(order) /\ \A i \in 1..Len(order) : order[i] \in live
  BY <1>9, LenProperties, ElementOfSeq
<1> QED
  BY <1>9, <1>10, <1>11 DEF live

LEMMA ChronologicalList == Chronological = ListOf(leaves, OrderOf(leaves))
BY Zenon DEF Chronological, ListOf, OrderOf, LiveIn, EarlierIn

LEMMA ListsStay ==
  ASSUME leaves \in LeaveTable, \A l \in Leaves : SameLeave(l)
  PROVE  /\ Chronological' = Chronological /\ \A l \in Leaves : DutyList(l)' = DutyList(l)
         /\ \A r : IsListed(r)' <=> IsListed(r)
         /\ \A l \in Leaves : leaves[l] # None => LeaveDays(l)' = LeaveDays(l)
<1>1. ASSUME NEW l \in Leaves, leaves[l] # None
      PROVE  LeaveDays(l)' = LeaveDays(l) /\ leaves'[l] # None /\ leaves'[l].member = leaves[l].member
  <2>1. /\ leaves'[l].from = leaves[l].from /\ leaves'[l].to = leaves[l].to /\ leaves'[l] # None
        /\ leaves'[l].member = leaves[l].member
    BY <1>1 DEF SameLeave
  <2> QED
    BY <2>1 DEF LeaveDays, DayRange
<1>2. ASSUME NEW l \in Leaves
      PROVE  DutyList(l)' = DutyList(l)
  <2>1. CASE leaves[l] = None
    BY <2>1 DEF DutyList, SameLeave
  <2>2. CASE leaves[l] # None
    <3> DEFINE S(D, m) == {[do |-> "duty", d |-> d, l |-> l, m |-> m] : d \in D \cap Working}
    <3>1. /\ LeaveDays(l)' = LeaveDays(l) /\ leaves'[l] # None /\ leaves'[l].member = leaves[l].member
      BY <1>1, <2>2
    <3>2. /\ DutyList(l) = PerDay(S(LeaveDays(l), leaves[l].member))
          /\ DutyList(l)' = PerDay(S(LeaveDays(l)', leaves'[l].member))
      BY <2>2, <3>1, Zenon DEF DutyList
    <3> QED
      BY <3>1, <3>2, Zenon
  <2> QED
    BY <2>1, <2>2
<1>3. \A r : IsListed(r)' <=> IsListed(r)
  BY DEF IsListed, SameLeave
<1>4. Chronological' = Chronological
  <2>1. PICK f, g : f = leaves /\ g = leaves'
    OBVIOUS
  <2>2. LiveIn(g) = LiveIn(f)
    BY <2>1 DEF SameLeave, LiveIn
  <2>3. \A l \in LiveIn(f) : g[l].from = f[l].from /\ g[l].to = f[l].to
    BY <2>1 DEF SameLeave, LiveIn
  <2>4. EarlierIn(g) = EarlierIn(f)
    <3>1. EarlierIn(g) =
            [l \in LiveIn(f) |->
               {k \in LiveIn(f) : g[k].from < g[l].from \/ (g[k].from = g[l].from /\ k < l)}]
      BY <2>2, Zenon DEF EarlierIn
    <3>2. ASSUME NEW l \in LiveIn(f)
          PROVE  {k \in LiveIn(f) : g[k].from < g[l].from \/ (g[k].from = g[l].from /\ k < l)} =
                 {k \in LiveIn(f) : f[k].from < f[l].from \/ (f[k].from = f[l].from /\ k < l)}
      BY <2>3, <3>2
    <3> QED
      BY <3>1, <3>2 DEF EarlierIn
  <2>5. \A i \in DOMAIN OrderOf(f) : OrderOf(f)[i] \in LiveIn(f)
    BY <2>1, LeavesInOrder
  <2>6. ListOf(g, OrderOf(f)) = ListOf(f, OrderOf(f))
    BY <2>3, <2>5 DEF ListOf
  <2>7. Chronological = ListOf(f, OrderOf(f)) /\ Chronological' = ListOf(g, OrderOf(g))
    <3>1. Chronological' = ListOf(g, OrderOf(g))
      BY <2>1, Zenon DEF Chronological, ListOf, OrderOf, LiveIn, EarlierIn
    <3> QED
      BY <2>1, <3>1, ChronologicalList
  <2> QED
    BY <2>2, <2>4, <2>6, <2>7 DEF OrderOf
<1> QED
  BY <1>1, <1>2, <1>3, <1>4

\* Nothing the run depends on changes.
LEMMA ViewStays ==
  ASSUME leaves \in LeaveTable, SameView
  PROVE  /\ World' = World /\ \A d \in Days : Stale(d)' <=> Stale(d)
         /\ \A x : Waits(x) => Waits(x)'
         /\ \A chosen : Covered(chosen) => Covered(chosen)'
         /\ SteadyRota => SteadyRota'
<1>1. /\ team' = team /\ orig' = orig /\ cover' = cover /\ \A d : OnLeave(d)' = OnLeave(d)
      /\ \A l \in Leaves : SameLeave(l)
  BY DEF SameView
<1>2. /\ Chronological' = Chronological /\ \A l \in Leaves : DutyList(l)' = DutyList(l)
      /\ \A r : IsListed(r)' <=> IsListed(r)
      /\ \A l \in Leaves : leaves[l] # None => LeaveDays(l)' = LeaveDays(l)
  BY <1>1, ListsStay
<1>3. \A d : Stale(d)' <=> Stale(d)
  BY <1>1 DEF Stale
<1>4. \A d : Holders(d)' = Holders(d)
  BY <1>1, <1>3 DEF Holders
<1>5. World' = World
  <2>1. [d \in Days |-> OnLeave(d)]' = [d \in Days |-> OnLeave(d)]
    BY <1>1
  <2>2. [d \in Days |-> Holders(d)]' = [d \in Days |-> Holders(d)]
    BY <1>4
  <2>3. [l \in Leaves |-> DutyList(l)]' = [l \in Leaves |-> DutyList(l)]
    BY <1>2
  <2> QED
    BY <1>1, <1>2, <2>1, <2>2, <2>3 DEF World
<1>6. ASSUME NEW x, Waits(x)
      PROVE  Waits(x)'
  <2>1. \A t : IsDuty(t) => IsDuty(t)'
    BY <1>1, <1>2, <1>3 DEF IsDuty, SameLeave
  <2>2. SweptBut(x.queue)'
    <3>1. \A l \in Leaves : leaves[l] # None /\ IsSwept(l) => IsSwept(l)'
      BY <1>2, <1>3 DEF IsSwept
    <3> QED
      BY <1>1, <1>6, <3>1 DEF Waits, SweptBut, SameLeave
  <2> QED
    BY <1>2, <1>6, <2>1, <2>2 DEF Waits
<1>8. \A chosen : Covered(chosen) => Covered(chosen)'
  BY <1>1, <1>3 DEF Covered
<1>7. ASSUME SteadyRota
      PROVE  SteadyRota'
  BY <1>1, <1>7 DEF SteadyRota
<1> QED
  BY <1>3, <1>5, <1>6, <1>7, <1>8

\* The rota is written for one day: somebody at work covers it for its holder on leave.
Puts(d, c) ==
  /\ UNCHANGED <<team, leaves, orig>>
  /\ \A e \in Days : e # d => cover'[e] = cover[e]
  /\ cover'[d] # None /\ cover'[d].member = c /\ ~cover'[d].swapped /\ c \notin OnLeave(d)
  /\ IF cover[d] = None
     THEN orig[d].member \in OnLeave(d)
     ELSE ~cover[d].swapped /\ ~Stale(d) /\ cover'[d].linked = cover[d].linked

LEMMA PutsKeep ==
  ASSUME NEW d \in Days, NEW c, Puts(d, c)
  PROVE  /\ World' = World /\ \A e \in Days : Stale(e)' <=> Stale(e)
         /\ \A x : Waits(x) => Waits(x)'
         /\ \A chosen : Covered(chosen) => Covered([e \in Days |-> IF e = d THEN c ELSE chosen[e]])'
         /\ SteadyRota => SteadyRota'
<1>1. /\ team' = team /\ leaves' = leaves /\ orig' = orig
      /\ \A e \in Days : e # d => cover'[e] = cover[e]
      /\ cover'[d] # None /\ cover'[d].member = c /\ ~cover'[d].swapped /\ c \notin OnLeave(d)
  BY DEF Puts
<1>2. \A e : OnLeave(e)' = OnLeave(e)
  BY <1>1 DEF OnLeave
<1>3. ~Stale(d) /\ ~Stale(d)'
  BY <1>1, <1>2 DEF Stale, Puts
<1>4. \A e \in Days : Stale(e)' <=> Stale(e)
  BY <1>1, <1>2, <1>3 DEF Stale
<1>5. \A e \in Days : Holders(e)' = Holders(e)
  <2>1. ASSUME NEW e \in Days, e # d
        PROVE  Holders(e)' = Holders(e)
    BY <1>1, <1>4, <2>1 DEF Holders
  <2>2. Holders(d)' = Holders(d)
    BY <1>1 DEF Holders, Puts
  <2> QED
    BY <2>1, <2>2
<1>6. \A l : LeaveDays(l)' = LeaveDays(l) /\ DutyList(l)' = DutyList(l) /\ LeaveDays(l) \subseteq Days
  BY <1>1, Zenon DEF LeaveDays, DutyList, DayRange
<1>7. Chronological' = Chronological
  BY <1>1, Zenon DEF Chronological
<1>8. World' = World
  <2>1. [e \in Days |-> OnLeave(e)]' = [e \in Days |-> OnLeave(e)]
    BY <1>2
  <2>2. [e \in Days |-> Holders(e)]' = [e \in Days |-> Holders(e)]
    BY <1>5
  <2>3. [l \in Leaves |-> DutyList(l)]' = [l \in Leaves |-> DutyList(l)]
    BY <1>6
  <2> QED
    BY <1>1, <1>7, <2>1, <2>2, <2>3 DEF World
<1>9. ASSUME NEW x, Waits(x)
      PROVE  Waits(x)'
  <2>1. \A t : IsDuty(t) => IsDuty(t)'
    BY <1>1, <1>4, <1>6 DEF IsDuty
  <2>2. \A l : IsSwept(l) => IsSwept(l)'
    BY <1>4, <1>6 DEF IsSwept
  <2>3. \A r : IsListed(r) => IsListed(r)'
    BY <1>1 DEF IsListed
  <2> QED
    BY <1>1, <1>9, <2>1, <2>2, <2>3 DEF Waits, SweptBut
<1>10. ASSUME NEW chosen, Covered(chosen)
       PROVE  Covered([e \in Days |-> IF e = d THEN c ELSE chosen[e]])'
  <2> DEFINE more == [e \in Days |-> IF e = d THEN c ELSE chosen[e]]
  <2>1. \A e \in Days : more[e] = IF e = d THEN c ELSE chosen[e]
    OBVIOUS
  <2> HIDE DEF more
  <2> QED
    BY <1>1, <1>3, <1>4, <1>10, <2>1 DEF Covered
<1>11. ASSUME SteadyRota
       PROVE  SteadyRota'
  <2> SUFFICES ASSUME NEW e \in Working,
                      cover'[e] # None /\ cover'[e].linked /\ ~cover'[e].swapped /\ cover'[e].member \in OnLeave(e)'
               PROVE  team' \subseteq OnLeave(e)'
    BY DEF SteadyRota
  <2>1. e \in Days /\ e # d
    BY <1>1, <1>2, RotaAssumption DEF Days
  <2> QED
    BY <1>1, <1>2, <1>11, <2>1 DEF SteadyRota
<1> QED
  BY <1>4, <1>8, <1>9, <1>10, <1>11

\* A stale cover of a day is deleted.
Forgets(d) ==
  /\ UNCHANGED <<team, leaves, orig>>
  /\ \A e \in Days : e # d => cover'[e] = cover[e]
  /\ cover'[d] = None /\ Stale(d)

LEMMA ClearingKeeps ==
  ASSUME NEW d \in Days, Forgets(d)
  PROVE  /\ World' = World /\ \A e \in Days : Stale(e)' => Stale(e)
         /\ \A x : Waits(x) => Waits(x)'
         /\ \A chosen : Covered(chosen) => Covered(chosen)'
         /\ SteadyRota => SteadyRota'
<1>1. /\ team' = team /\ leaves' = leaves /\ orig' = orig
      /\ \A e \in Days : e # d => cover'[e] = cover[e]
      /\ cover'[d] = None /\ Stale(d)
  BY DEF Forgets
<1>2. \A e : OnLeave(e)' = OnLeave(e)
  BY <1>1 DEF OnLeave
<1>4. /\ \A e \in Days : e # d => (Stale(e)' <=> Stale(e))
      /\ ~Stale(d)'
  BY <1>1, <1>2 DEF Stale
<1>5. \A e \in Days : Holders(e)' = Holders(e)
  <2>1. ASSUME NEW e \in Days, e # d
        PROVE  Holders(e)' = Holders(e)
    BY <1>1, <1>4, <2>1 DEF Holders
  <2>2. Holders(d)' = Holders(d)
    BY <1>1 DEF Holders
  <2> QED
    BY <2>1, <2>2
<1>6. \A l : LeaveDays(l)' = LeaveDays(l) /\ DutyList(l)' = DutyList(l) /\ LeaveDays(l) \subseteq Days
  BY <1>1, Zenon DEF LeaveDays, DutyList, DayRange
<1>7. Chronological' = Chronological
  BY <1>1, Zenon DEF Chronological
<1>8. World' = World
  <2>1. [e \in Days |-> OnLeave(e)]' = [e \in Days |-> OnLeave(e)]
    BY <1>2
  <2>2. [e \in Days |-> Holders(e)]' = [e \in Days |-> Holders(e)]
    BY <1>5
  <2>3. [l \in Leaves |-> DutyList(l)]' = [l \in Leaves |-> DutyList(l)]
    BY <1>6
  <2> QED
    BY <1>1, <1>7, <2>1, <2>2, <2>3 DEF World
<1>9. ASSUME NEW x, Waits(x)
      PROVE  Waits(x)'
  <2>1. \A t : IsDuty(t) => IsDuty(t)'
    BY <1>1, <1>4, <1>6 DEF IsDuty
  <2>2. \A l : IsSwept(l) => IsSwept(l)'
    BY <1>4, <1>6 DEF IsSwept
  <2>3. \A r : IsListed(r) => IsListed(r)'
    BY <1>1 DEF IsListed
  <2> QED
    BY <1>1, <1>9, <2>1, <2>2, <2>3 DEF Waits, SweptBut
<1>10. ASSUME NEW chosen, Covered(chosen)
       PROVE  Covered(chosen)'
  BY <1>1, <1>4, <1>10 DEF Covered
<1>11. ASSUME SteadyRota
       PROVE  SteadyRota'
  <2> SUFFICES ASSUME NEW e \in Working,
                      cover'[e] # None /\ cover'[e].linked /\ ~cover'[e].swapped /\ cover'[e].member \in OnLeave(e)'
               PROVE  team' \subseteq OnLeave(e)'
    BY DEF SteadyRota
  <2>1. e \in Days /\ e # d
    BY <1>1, RotaAssumption DEF Days
  <2> QED
    BY <1>1, <1>2, <1>11, <2>1 DEF SteadyRota
<1> QED
  BY <1>4, <1>8, <1>9, <1>10, <1>11

LEMMA NextSnapshots ==
  ASSUME RowsTyped, NEW w, w = World, NEW x, Waits(x)
  PROVE  /\ x.todo # <<>> => /\ IsDuty(Head(x.todo)) /\ Waits(Passes(x))
                             /\ Chosen(w, x) # None => Waits(Gives(w, x))
         /\ x.todo = <<>> /\ x.queue # <<>> =>
              /\ IsListed(Head(x.queue))
              /\ IsSwept(Head(x.queue).l) => Waits(NextLeave(w, x))
<1>1. /\ IsList(x.queue) /\ IsList(x.todo) /\ x.anchor \in Position \cup {None}
      /\ \A r \in Range(x.queue) : IsListed(r)
      /\ \A t \in Range(x.todo) : IsDuty(t)
      /\ SweptBut(x.queue)
  BY DEF Waits
<1>2. ASSUME NEW q, IsList(q), q # <<>>
      PROVE  /\ IsList(Tail(q)) /\ Head(q) \in Range(q) /\ Range(Tail(q)) \subseteq Range(q)
             /\ \A r \in Range(q) : r = Head(q) \/ r \in Range(Tail(q))
  <2>1. /\ Len(Tail(q)) = Len(q) - 1 /\ \A i \in 1..Len(Tail(q)) : Tail(q)[i] = q[i + 1]
        /\ Len(q) \in Nat \ {0} /\ Head(q) = q[1] /\ IsList(Tail(q))
    BY <1>2, ListTail, ListLength
  <2>2. /\ Range(q) = {q[i] : i \in 1..Len(q)}
        /\ Range(Tail(q)) = {Tail(q)[i] : i \in 1..Len(Tail(q))}
    BY <1>2, <2>1, RangeOfLists
  <2>3. Head(q) \in Range(q)
    BY <2>1, <2>2
  <2>4. ASSUME NEW i \in 1..Len(Tail(q))
        PROVE  Tail(q)[i] \in Range(q)
    <3>1. i + 1 \in 1..Len(q) /\ Tail(q)[i] = q[i + 1]
      BY <2>1
    <3> QED
      BY <2>2, <3>1
  <2> QED
    BY <1>2, <2>1, <2>2, <2>3, <2>4, RangeOfTail
<1>3. ASSUME x.todo # <<>>
      PROVE  /\ IsDuty(Head(x.todo)) /\ Waits(Passes(x))
             /\ Chosen(w, x) # None => Waits(Gives(w, x))
  <2>1. /\ IsList(Tail(x.todo)) /\ Head(x.todo) \in Range(x.todo)
        /\ Range(Tail(x.todo)) \subseteq Range(x.todo)
    BY <1>1, <1>2, <1>3
  <2>2. IsDuty(Head(x.todo)) /\ \A t \in Range(Tail(x.todo)) : IsDuty(t)
    BY <1>1, <2>1
  <2>3. Waits(Passes(x))
    BY <1>1, <2>1, <2>2 DEF Waits, Passes
  <2>4. [last |-> Head(x.todo).d, slot |-> SlotOf(w.team, Chosen(w, x))] \in Position
    <3>1. Head(x.todo).d \in Days
      BY <2>2 DEF IsDuty, LeaveDays, DayRange
    <3>2. w.team \in SUBSET Members
      BY DEF World, RowsTyped
    <3>3. SlotOf(w.team, Chosen(w, x)) \in Nat
      BY <3>2, SlotsAreNumbers
    <3> QED
      BY <3>1, <3>3 DEF Position
  <2>5. Waits(Gives(w, x))
    BY <1>1, <2>1, <2>2, <2>4 DEF Waits, Gives
  <2> QED
    BY <2>2, <2>3, <2>5
<1>4. ASSUME x.todo = <<>>, x.queue # <<>>
      PROVE  /\ IsListed(Head(x.queue))
             /\ IsSwept(Head(x.queue).l) => Waits(NextLeave(w, x))
  <2> DEFINE l == Head(x.queue).l
  <2>1. /\ IsList(Tail(x.queue)) /\ Head(x.queue) \in Range(x.queue)
        /\ Range(Tail(x.queue)) \subseteq Range(x.queue)
        /\ \A r \in Range(x.queue) : r = Head(x.queue) \/ r \in Range(Tail(x.queue))
    BY <1>1, <1>2, <1>4
  <2>2. IsListed(Head(x.queue)) /\ l \in Leaves /\ leaves[l] # None
    BY <1>1, <2>1 DEF IsListed
  <2>3. ASSUME IsSwept(l)
        PROVE  Waits(NextLeave(w, x))
    <3> DEFINE D == LeaveDays(l) \cap Working
               step == Duties(D, l, leaves[l].member)
               S == {[do |-> "duty", d |-> d, l |-> l, m |-> leaves[l].member] : d \in D}
    <3>1. D \in SUBSET Days /\ \A d \in D : step[d].d = d /\ IsDuty(step[d])
      BY <2>2, <2>3 DEF LeaveDays, DayRange, Duties, IsDuty, IsSwept
    <3>2. S = {step[d] : d \in D}
      BY DEF Duties
    <3>3. w.duties[l] = PerDay(S)
      BY <2>2 DEF World, DutyList
    <3> HIDE DEF D, step, S, l
    <3>4. RunsOver(PerDay(S), D, step)
      BY <3>1, <3>2, PerDayRunsOver
    <3>5. IsList(w.duties[l]) /\ \A t \in Range(w.duties[l]) : IsDuty(t)
      BY <3>1, <3>3, <3>4, RangeOfLists DEF RunsOver
    <3>6. SweptBut(Tail(x.queue))
      BY <1>1, <2>1, <2>3 DEF SweptBut, l
    <3> QED
      BY <1>1, <2>1, <3>5, <3>6 DEF Waits, NextLeave, l
  <2> QED
    BY <2>2, <2>3
<1> QED
  BY <1>3, <1>4

-----------------------------------------------------------------------------
(* Where a run of request h stands: x is how far it has come. *)

LeaveItem(r) == [do |-> "leave", l |-> r.l]

Ready(h, x) ==
  /\ work[h].todo = x.todo /\ work[h].queue = x.queue /\ work[h].anchor = x.anchor
  /\ x.todo # <<>> => work[h].team = team

\* The covers found stale are still to drop, and no others.
Dropping(q, r) ==
  /\ IsList(q) /\ q # <<>> /\ q[Len(q)] = LeaveItem(r)
  /\ \A i \in 1..Len(q)-1 :
       /\ q[i].do = "drop" /\ q[i].d \in LeaveDays(r.l)
       /\ cover[q[i].d] # None /\ cover[q[i].d].id = q[i].id => Stale(q[i].d)
  /\ \A d \in LeaveDays(r.l) : Stale(d) =>
       \E i \in 1..Len(q)-1 : q[i].d = d /\ q[i].id = cover[d].id

SweepsFor(q, r) ==
  \/ q = Cons([do |-> "index", days |-> LeaveDays(r.l)], <<LeaveItem(r)>>)
  \/ q = Cons([do |-> "compare", days |-> LeaveDays(r.l), away |-> [d \in LeaveDays(r.l) |-> OnLeave(d)]],
              <<LeaveItem(r)>>)
  \/ Dropping(q, r)
  \/ /\ IsSwept(r.l)
     /\ q = Cons([do |-> "team", l |-> r.l, m |-> leaves[r.l].member, days |-> LeaveDays(r.l) \cap Working],
                 <<>>)

Sweeps(h, x) ==
  /\ x.todo = <<>> /\ x.queue # <<>>
  /\ work[h].queue = Tail(x.queue) /\ work[h].anchor = x.anchor
  /\ SweepsFor(work[h].todo, Head(x.queue))

\* The statements that read, and the one that writes the cover.
Reads(t, q) ==
  \/ q = [do |-> "away", d |-> t.d, l |-> t.l, id |-> orig[t.d].id]
  \/ q = [do |-> "turn", d |-> t.d, l |-> t.l, id |-> orig[t.d].id, away |-> OnLeave(t.d)]

Writes(t, c, q) ==
  \/ q = [do |-> "look", d |-> t.d, id |-> orig[t.d].id, c |-> c]
  \/ q = [do |-> "cover", d |-> t.d, c |-> c, id |-> orig[t.d].id] /\ cover[t.d] = None
  \/ q = [do |-> "repoint", d |-> t.d, c |-> c] /\ cover[t.d] # None /\ ~cover[t.d].swapped

MarkItem(t) == [do |-> "status", l |-> t.l]
SlotItem(d, c) == [do |-> "slot", d |-> d, c |-> c]

DecidesFor(q, w, x) ==
  /\ x.todo # <<>> /\ orig[Head(x.todo).d] # None
  /\ LET t == Head(x.todo)
     IN \/ /\ t.m \in w.holders[t.d] \/ team \subseteq OnLeave(t.d)
           /\ \E s : Reads(t, s) /\ q = Cons(s, Tail(x.todo))
        \/ /\ Takes(w, x)
           /\ \E s : /\ Writes(t, Chosen(w, x), s)
                     /\ q = Cons(s, Cons(MarkItem(t), Cons(SlotItem(t.d, Chosen(w, x)), Tail(x.todo))))

Decides(h, w, x) ==
  /\ work[h].queue = x.queue /\ work[h].anchor = x.anchor /\ work[h].team = team
  /\ DecidesFor(work[h].todo, w, x)

Marks(h, x) ==
  /\ work[h].queue = x.queue /\ work[h].team = team
  /\ \E d, c, t : /\ x.anchor = [last |-> d, slot |-> SlotOf(team, c)]
                  /\ \/ work[h].todo = Cons(MarkItem(t), Cons(SlotItem(d, c), x.todo))
                     \/ work[h].todo = Cons(SlotItem(d, c), x.todo)

InRun(h, w, x) == Ready(h, x) \/ Sweeps(h, x) \/ Decides(h, w, x) \/ Marks(h, x)

\* A step changes covers only so: a stale one of a leave's day goes, or the day is given.
Choosing(y) ==
  \A d \in Days :
    /\ Stale(d)' => Stale(d)
    /\ \/ cover'[d] = cover[d]
       \/ cover'[d] = None /\ Stale(d) /\ \E l \in Leaves : leaves[l] # None /\ d \in LeaveDays(l)
       \/ /\ cover[d] = None \/ ~cover[d].swapped
          /\ cover'[d] # None /\ ~cover'[d].swapped /\ y.chosen[d] # None

Moves(h, w, x) ==
  /\ World' = w /\ SteadyRota' /\ \A l \in Leaves : SameLeave(l)
  /\ \E y : /\ y = x \/ (y = Following(w, x) /\ ~AtEnd(x))
            /\ Stands(y)' /\ InRun(h, w, y)' /\ Choosing(y)

LEMMA QuietMoves ==
  ASSUME RowsTyped, NEW h \in Handlers, NEW w, w = World, NEW x, NEW y, Stands(y), SteadyRota, SameView,
         y = x \/ (y = Following(w, x) /\ ~AtEnd(x)), InRun(h, w, y)'
  PROVE  Moves(h, w, x)
<1>1. leaves \in LeaveTable /\ cover' = cover
  BY DEF RowsTyped, SameView
<1>2. World' = World /\ SteadyRota' /\ Stands(y)' /\ \A d \in Days : Stale(d)' <=> Stale(d)
  BY <1>1, ViewStays DEF Stands
<1>3. Choosing(y) /\ \A l \in Leaves : SameLeave(l)
  BY <1>1, <1>2 DEF Choosing, SameView
<1> QED
  BY <1>2, <1>3 DEF Moves

LEMMA SameTables ==
  ASSUME UNCHANGED <<team, leaves, orig, cover>>
  PROVE  SameView
BY DEF SameView, SameLeave, OnLeave

\* What request h does next is told by its first statement.
LEMMA StatementIs ==
  ASSUME NEW h \in Handlers, Statement(h), work[h].todo # <<>>
  PROVE  /\ Now(h).do = "index" => BuildLeaveIndex(h)
         /\ Now(h).do = "compare" => FindStale(h)
         /\ Now(h).do = "drop" => DropCover(h)
         /\ Now(h).do = "leave" => LoadLeave(h)
         /\ Now(h).do = "team" => LoadTeam(h)
         /\ Now(h).do = "duty" => EnsureOriginalAssignment(h)
         /\ Now(h).do = "away" => ReadOtherLeaves(h)
         /\ Now(h).do = "turn" => PickLeaveCover(h)
         /\ Now(h).do = "look" => CreateCoverAssignment(h)
         /\ Now(h).do = "cover" => InsertCover(h)
         /\ Now(h).do = "repoint" => RepointCover(h)
         /\ Now(h).do = "status" => UpdateLeaveStatus(h)
         /\ Now(h).do = "slot" => CommitCoverSlot(h)
<1>1. \E s \in {"index", "compare", "drop", "dates", "members", "wipe", "leaves", "r1", "r2", "slot",
                "original", "advance", "cover", "leave", "team", "duty", "away", "turn", "look", "repoint",
                "status", "change", "edit", "delete"} : Now(h).do = s /\ Doing(h, s)
  BY DEF Statement, Reply, ReassignNext, Doing, Now, BuildLeaveIndex, FindStale, DropCover,
         GetDatesWithAssignments, GetMembers, DeleteAssignmentsInRange, ReadLeaves, PickOriginal,
         DetermineCoveringMember, CommitCoverSlot, InsertOriginal, AdvanceR1, InsertCover, LoadLeave,
         LoadTeam, EnsureOriginalAssignment, ReadOtherLeaves, PickLeaveCover, CreateCoverAssignment,
         RepointCover, UpdateLeaveStatus, HandleLeaveChange, UpdateLeaveRecord, DeleteLeaveRecord
<1> QED
  BY <1>1 DEF Statement, Reply, ReassignNext, Doing, Now, BuildLeaveIndex, FindStale, DropCover,
         GetDatesWithAssignments, GetMembers, DeleteAssignmentsInRange, ReadLeaves, PickOriginal,
         DetermineCoveringMember, CommitCoverSlot, InsertOriginal, AdvanceR1, InsertCover, LoadLeave,
         LoadTeam, EnsureOriginalAssignment, ReadOtherLeaves, PickLeaveCover, CreateCoverAssignment,
         RepointCover, UpdateLeaveStatus, HandleLeaveChange, UpdateLeaveRecord, DeleteLeaveRecord

-----------------------------------------------------------------------------
(* The statements of a run: the covers of a leave's days that are stale. *)

\* A run is where x is, with a steady rota.
MidRun(h, w, x) ==
  TablesInv /\ w = World /\ Stands(x) /\ SteadyRota /\ work[h].job = "reassign"

LEMMA MidRunFacts ==
  ASSUME NEW h \in Handlers, NEW w, NEW x, MidRun(h, w, x)
  PROVE  /\ TodoInv /\ RowsTyped /\ Linked /\ w = World /\ Stands(x) /\ Waits(x) /\ SteadyRota
         /\ Reassigning(h) /\ WorkOK /\ IsRequest(work[h]) /\ IsList(work[h].todo)
         /\ leaves \in LeaveTable /\ team \in SUBSET Members /\ IsList(x.todo) /\ IsList(x.queue)
         /\ x.anchor \in Position \cup {None}
BY DEF MidRun, TablesInv, TodoInv, RowsTyped, Stands, Waits, WorkOK, IsRequest, Reassigning

LEMMA ThenTail ==
  ASSUME TodoInv, NEW h \in Handlers, work[h].todo # <<>>, NEW steps, IsList(steps), Then(h, steps)
  PROVE  GoesTo(h, steps \o Tail(work[h].todo), work[h].queue, work[h].team, work[h].anchor)
<1>1. WorkOK /\ IsRequest(work[h])
  BY DEF TodoInv, WorkOK
<1>2. /\ work'[h] = [work[h] EXCEPT !.todo = work'[h].todo]
      /\ work'[h].todo = steps \o Tail(work[h].todo)
  BY <1>1, ThenRuns
<1>3. PICK todo : todo = work'[h].todo
  OBVIOUS
<1>4. [work[h] EXCEPT !.todo = todo] =
        [job |-> work[h].job, about |-> work[h].about, todo |-> todo, queue |-> work[h].queue,
         team |-> work[h].team, anchor |-> work[h].anchor, failed |-> work[h].failed]
  BY <1>1, RequestFields
<1>5. /\ work'[h].queue = work[h].queue /\ work'[h].team = work[h].team
      /\ work'[h].anchor = work[h].anchor /\ work'[h].job = work[h].job
  BY <1>2, <1>3, <1>4
<1>6. \A g \in Handlers : g # h => work'[g] = work[g]
  BY <1>1 DEF Then, WorkOK
<1> QED
  BY <1>2, <1>5, <1>6 DEF GoesTo

\* A run goes on sweeping.
LEMMA SweepGoesOn ==
  ASSUME NEW h \in Handlers, NEW w, NEW x, MidRun(h, w, x), Sweeps(h, x),
         UNCHANGED <<team, leaves, orig, cover>>, NEW todo,
         GoesTo(h, todo, work[h].queue, work[h].team, work[h].anchor), SweepsFor(todo, Head(x.queue))
  PROVE  Moves(h, w, x)
<1>1. RowsTyped /\ w = World /\ Stands(x) /\ SteadyRota
  BY MidRunFacts
<1>2. SameView
  BY SameTables
<1>3. SweepsFor(todo, Head(x.queue))'
  <2>1. /\ \A l : LeaveDays(l)' = LeaveDays(l) /\ (IsSwept(l)' <=> IsSwept(l))
        /\ \A d : OnLeave(d)' = OnLeave(d) /\ (Stale(d)' <=> Stale(d))
    <3>1. \A d : OnLeave(d)' = OnLeave(d) /\ (Stale(d)' <=> Stale(d))
      BY DEF OnLeave, Stale
    <3>2. \A l : LeaveDays(l)' = LeaveDays(l)
      BY DEF LeaveDays
    <3> QED
      BY <3>1, <3>2 DEF IsSwept
  <2> DEFINE r == Head(x.queue)
  <2>2. Dropping(todo, r) => Dropping(todo, r)'
    BY <2>1 DEF Dropping
  <2>3. [d \in LeaveDays(r.l) |-> OnLeave(d)]' = [d \in LeaveDays(r.l) |-> OnLeave(d)]
    BY <2>1
  <2> HIDE DEF r
  <2> QED
    BY <2>1, <2>2, <2>3 DEF SweepsFor, r
<1>4. Sweeps(h, x)'
  BY <1>3 DEF Sweeps, GoesTo
<1> QED
  BY <1>1, <1>2, <1>4, QuietMoves DEF InRun

LEMMA LeaveTaken ==
  ASSUME NEW h \in Handlers, NEW w, NEW x, MidRun(h, w, x), Ready(h, x), ReassignNext(h)
  PROVE  Moves(h, w, x)
<1>1. TodoInv /\ RowsTyped /\ w = World /\ Stands(x) /\ Waits(x) /\ SteadyRota
  BY MidRunFacts
<1> DEFINE r == Head(x.queue)
           index == [do |-> "index", days |-> LeaveDays(r.l)]
<1>2. /\ x.todo = <<>> /\ x.queue # <<>> /\ UNCHANGED <<team, leaves, orig, cover>>
      /\ work'[h].queue = Tail(x.queue) /\ work'[h].anchor = x.anchor
      /\ work'[h].todo = Reconcile(r.from, r.to) \o <<LeaveItem(r)>>
  BY <1>1, NextLeaveTaken DEF Ready, LeaveItem, tables
<1>3. IsListed(r)
  BY <1>1, <1>2, NextSnapshots
<1>4. Reconcile(r.from, r.to) = <<index>>
  BY <1>3 DEF Reconcile, IsListed, LeaveDays
<1>5. work'[h].todo = Cons(index, <<LeaveItem(r)>>)
  BY <1>2, <1>4 DEF Cons
<1>6. index' = index
  BY <1>2 DEF LeaveDays
<1> HIDE DEF index
<1>7. (work'[h].todo = Cons(index', <<LeaveItem(r)>>)) => SweepsFor(work[h].todo, r)'
  BY DEF SweepsFor, index, LeaveItem
<1>8. Sweeps(h, x)'
  BY <1>2, <1>5, <1>6, <1>7 DEF Sweeps
<1> QED
  BY <1>1, <1>2, <1>8, SameTables, QuietMoves DEF InRun

LEMMA SweepIs ==
  ASSUME NEW h \in Handlers, NEW w, NEW x, MidRun(h, w, x), Sweeps(h, x), NEW r, r = Head(x.queue)
  PROVE  /\ work[h].todo # <<>> /\ Now(h).do \in {"index", "compare", "drop", "leave", "team"}
         /\ Now(h).do = "index" =>
              work[h].todo = Cons([do |-> "index", days |-> LeaveDays(r.l)], <<LeaveItem(r)>>)
         /\ Now(h).do = "compare" =>
              work[h].todo = Cons([do |-> "compare", days |-> LeaveDays(r.l),
                                   away |-> [d \in LeaveDays(r.l) |-> OnLeave(d)]], <<LeaveItem(r)>>)
         /\ Now(h).do \in {"drop", "leave"} => Dropping(work[h].todo, r)
         /\ Now(h).do = "team" =>
              /\ IsSwept(r.l)
              /\ work[h].todo = Cons([do |-> "team", l |-> r.l, m |-> leaves[r.l].member,
                                      days |-> LeaveDays(r.l) \cap Working], <<>>)
<1> DEFINE q == work[h].todo
<1>1. SweepsFor(q, r)
  BY DEF Sweeps
<1>2. IsList(<<LeaveItem(r)>>) /\ IsList(<<>>)
  BY ShortLists
<1>3. ASSUME NEW a, NEW rest, IsList(rest), q = Cons(a, rest)
      PROVE  q # <<>> /\ Now(h) = a
  BY <1>3, ConsLists DEF Now
<1>4. ASSUME Dropping(q, r)
      PROVE  q # <<>> /\ Now(h).do \in {"drop", "leave"}
  <2>1. IsList(q) /\ q # <<>> /\ q[Len(q)].do = "leave" /\ \A i \in 1..Len(q)-1 : q[i].do = "drop"
    BY <1>4 DEF Dropping, LeaveItem
  <2>2. Len(q) \in Nat \ {0} /\ Now(h) = q[1]
    BY <2>1, ListLength DEF Now
  <2>3. \A n \in Nat \ {0} : n = 1 \/ 1 \in 1..n-1
    OBVIOUS
  <2> QED
    BY <2>1, <2>2, <2>3
<1> HIDE DEF q
<1>5. CASE q = Cons([do |-> "index", days |-> LeaveDays(r.l)], <<LeaveItem(r)>>)
  <2>1. q # <<>> /\ Now(h).do = "index"
    BY <1>2, <1>3, <1>5
  <2> QED
    BY <2>1, <1>5 DEF q
<1>6. CASE q = Cons([do |-> "compare", days |-> LeaveDays(r.l),
                     away |-> [d \in LeaveDays(r.l) |-> OnLeave(d)]], <<LeaveItem(r)>>)
  <2>1. q # <<>> /\ Now(h).do = "compare"
    BY <1>2, <1>3, <1>6
  <2> QED
    BY <2>1, <1>6 DEF q
<1>7. CASE Dropping(q, r)
  BY <1>4, <1>7 DEF q
<1>8. CASE IsSwept(r.l) /\ q = Cons([do |-> "team", l |-> r.l, m |-> leaves[r.l].member,
                                     days |-> LeaveDays(r.l) \cap Working], <<>>)
  <2> DEFINE a == [do |-> "team", l |-> r.l, m |-> leaves[r.l].member, days |-> LeaveDays(r.l) \cap Working]
  <2>1. a.do = "team" /\ q = Cons(a, <<>>)
    BY <1>8
  <2> HIDE DEF a
  <2>2. q # <<>> /\ Now(h).do = "team"
    BY <1>2, <1>3, <2>1
  <2> QED
    BY <2>2, <1>8 DEF q
<1> QED
  BY <1>1, <1>5, <1>6, <1>7, <1>8 DEF SweepsFor

LEMMA IndexBuilt ==
  ASSUME NEW h \in Handlers, NEW w, NEW x, MidRun(h, w, x), Sweeps(h, x), BuildLeaveIndex(h)
  PROVE  Moves(h, w, x)
<1> DEFINE r == Head(x.queue)
           a == [do |-> "index", days |-> LeaveDays(r.l)]
           b == [do |-> "compare", days |-> LeaveDays(r.l), away |-> [d \in LeaveDays(r.l) |-> OnLeave(d)]]
<1>1. TodoInv /\ Now(h).do = "index" /\ UNCHANGED <<team, leaves, orig, cover>>
  BY MidRunFacts DEF BuildLeaveIndex, Doing, Now, tables
<1>2. work[h].todo = Cons(a, <<LeaveItem(r)>>)
  BY <1>1, SweepIs
<1>3. Now(h) = a /\ IsList(<<LeaveItem(r)>>) /\ IsList(<<b>>)
  BY <1>2, ConsLists, ShortLists DEF Now
<1>4. Then(h, <<b>>)
  BY <1>3 DEF BuildLeaveIndex
<1> HIDE DEF b, a
<1>5. GoesTo(h, <<b>> \o <<LeaveItem(r)>>, work[h].queue, work[h].team, work[h].anchor)
  BY <1>1, <1>2, <1>3, <1>4, ThenGoesTo
<1>6. SweepsFor(<<b>> \o <<LeaveItem(r)>>, r)
  BY DEF SweepsFor, b, Cons
<1> QED
  BY <1>1, <1>5, <1>6, SweepGoesOn

LEMMA StaleFound ==
  ASSUME NEW h \in Handlers, NEW w, NEW x, MidRun(h, w, x), Sweeps(h, x), FindStale(h)
  PROVE  Moves(h, w, x)
<1> DEFINE r == Head(x.queue)
           D == LeaveDays(r.l)
           a == [do |-> "compare", days |-> D, away |-> [d \in D |-> OnLeave(d)]]
<1>1. TodoInv /\ Now(h).do = "compare" /\ UNCHANGED <<team, leaves, orig, cover>>
  BY MidRunFacts DEF FindStale, Doing, Now, tables
<1>2. work[h].todo = Cons(a, <<LeaveItem(r)>>)
  BY <1>1, SweepIs
<1>3. Now(h) = a /\ IsList(<<LeaveItem(r)>>) /\ Len(<<LeaveItem(r)>>) = 1
  BY <1>2, ConsLists, ShortLists DEF Now
<1>4. StaleDays(h) = {d \in D : Stale(d)}
  BY <1>3 DEF StaleDays, IsStale, Stale
<1>5. PICK q : Then(h, q) /\ RunsOver(q, StaleDays(h), Drops(StaleDays(h)))
  BY <1>1, FindStaleRuns
<1> HIDE DEF a
<1> DEFINE todo == q \o <<LeaveItem(r)>>
<1>6. IsList(q) /\ GoesTo(h, todo, work[h].queue, work[h].team, work[h].anchor) /\ IsList(todo)
  BY <1>1, <1>2, <1>3, <1>5, ThenGoesTo DEF RunsOver
<1>7. Dropping(todo, r)
  <2>1. /\ Len(todo) = Len(q) + 1 /\ Len(q) \in Nat
        /\ \A i \in 1..Len(q) : todo[i] = q[i]
        /\ todo[Len(q) + 1] = LeaveItem(r)
    <3>1. /\ Len(todo) = Len(q) + Len(<<LeaveItem(r)>>)
          /\ \A i \in 1..Len(q) : todo[i] = q[i]
          /\ \A i \in 1..Len(<<LeaveItem(r)>>) : todo[Len(q) + i] = <<LeaveItem(r)>>[i]
      BY <1>3, <1>6, ListsJoin
    <3>2. 1 \in 1..Len(<<LeaveItem(r)>>) /\ <<LeaveItem(r)>>[1] = LeaveItem(r)
      BY <1>3
    <3> QED
      BY <1>3, <1>6, <3>1, <3>2, ListLength
  <2>2. todo # <<>> /\ 1..Len(todo)-1 = 1..Len(q) /\ todo[Len(todo)] = LeaveItem(r)
    BY <1>6, <2>1, ListLength
  <2>3. ASSUME NEW i \in 1..Len(q)
        PROVE  q[i].do = "drop" /\ q[i].d \in D /\ Stale(q[i].d)
    <3>1. PICK d \in StaleDays(h) : q[i] = Drops(StaleDays(h))[d]
      BY <1>5, <2>3 DEF RunsOver
    <3>2. q[i] = [do |-> "drop", d |-> d, id |-> cover[d].id]
      BY <3>1 DEF Drops
    <3> QED
      BY <1>4, <3>1, <3>2
  <2>4. ASSUME NEW d \in D, Stale(d)
        PROVE  \E i \in 1..Len(q) : q[i].d = d /\ q[i].id = cover[d].id
    <3>1. d \in StaleDays(h)
      BY <1>4, <2>4
    <3>2. PICK i \in 1..Len(q) : q[i] = Drops(StaleDays(h))[d]
      BY <1>5, <3>1 DEF RunsOver
    <3> QED
      BY <3>1, <3>2 DEF Drops
  <2> HIDE DEF todo, r
  <2>5. \A i \in 1..Len(todo)-1 : todo[i].do = "drop" /\ todo[i].d \in D /\ Stale(todo[i].d)
    BY <2>1, <2>2, <2>3
  <2>6. \A d \in D : Stale(d) => \E i \in 1..Len(todo)-1 : todo[i].d = d /\ todo[i].id = cover[d].id
    BY <2>1, <2>2, <2>4
  <2> QED
    BY <1>6, <2>2, <2>5, <2>6 DEF Dropping
<1>8. SweepsFor(todo, r)
  BY <1>7 DEF SweepsFor
<1> HIDE DEF todo
<1> QED
  BY <1>1, <1>6, <1>8, SweepGoesOn

LEMMA FirstDrop ==
  ASSUME NEW q, NEW r, Dropping(q, r), Head(q).do = "drop"
  PROVE  /\ Head(q).d \in LeaveDays(r.l)
         /\ cover[Head(q).d] # None /\ cover[Head(q).d].id = Head(q).id => Stale(Head(q).d)
         /\ IsList(Tail(q)) /\ Tail(q) # <<>> /\ Tail(q)[Len(Tail(q))] = LeaveItem(r)
         /\ \A i \in 1..Len(Tail(q))-1 : \E k \in 1..Len(q)-1 : Tail(q)[i] = q[k]
         /\ \A k \in 1..Len(q)-1 : q[k] = Head(q) \/ \E i \in 1..Len(Tail(q))-1 : Tail(q)[i] = q[k]
<1> DEFINE n == Len(q)
           s == Tail(q)
           p == Len(s)
<1>1. IsList(q) /\ q # <<>> /\ q[n] = LeaveItem(r)
  BY DEF Dropping
<1>2. /\ n \in Nat \ {0} /\ Head(q) = q[1]
      /\ IsList(s) /\ p = n - 1 /\ \A i \in 1..p : s[i] = q[i + 1]
  BY <1>1, ListLength, ListTail
<1>3. n # 1
  BY <1>1, <1>2 DEF LeaveItem
<1> HIDE DEF n, s, p
<1>4. 1 \in 1..n-1 /\ p \in 1..p /\ p + 1 = n
  BY <1>2, <1>3
<1>5. s # <<>> /\ s[p] = LeaveItem(r)
  <2>1. s[p] = q[p + 1]
    BY <1>2, <1>4
  <2>2. s # <<>>
    BY <1>2, <1>4, ListLength DEF p
  <2> QED
    BY <1>1, <1>4, <2>1, <2>2
<1>6. ASSUME NEW i \in 1..p-1
      PROVE  \E k \in 1..n-1 : s[i] = q[k]
  <2>1. i + 1 \in 1..n-1 /\ i \in 1..p
    BY <1>2, <1>4
  <2> QED
    BY <1>2, <2>1
<1>7. ASSUME NEW k \in 1..n-1, k # 1
      PROVE  \E i \in 1..p-1 : s[i] = q[k]
  <2>1. k - 1 \in 1..p-1 /\ k - 1 \in 1..p /\ (k - 1) + 1 = k
    BY <1>2, <1>4, <1>7
  <2>2. s[k - 1] = q[k]
    BY <1>2, <2>1
  <2> QED
    BY <2>1, <2>2
<1>8. \A i \in 1..n-1 : /\ q[i].d \in LeaveDays(r.l)
                        /\ cover[q[i].d] # None /\ cover[q[i].d].id = q[i].id => Stale(q[i].d)
  BY DEF Dropping, n
<1> QED
  BY <1>2, <1>4, <1>5, <1>6, <1>7, <1>8 DEF n, s, p

LEMMA CoverDropped ==
  ASSUME NEW h \in Handlers, NEW w, NEW x, MidRun(h, w, x), Sweeps(h, x), DropCover(h)
  PROVE  Moves(h, w, x)
<1> DEFINE r == Head(x.queue)
           t == Now(h)
<1>0. PICK q : q = work[h].todo
  OBVIOUS
<1>1. /\ TodoInv /\ RowsTyped /\ w = World /\ Stands(x) /\ Waits(x) /\ SteadyRota /\ q # <<>>
      /\ t.do = "drop" /\ Then(h, <<>>) /\ UNCHANGED <<team, leaves, orig>> /\ cover \in Covers
      /\ cover' = IF cover[t.d] # None /\ cover[t.d].id = t.id THEN [cover EXCEPT ![t.d] = None] ELSE cover
  BY <1>0, MidRunFacts DEF DropCover, Doing, Now, RowsTyped
<1>2. /\ Dropping(q, r) /\ x.todo = <<>> /\ x.queue # <<>> /\ t = Head(q)
      /\ work[h].queue = Tail(x.queue) /\ work[h].anchor = x.anchor
  BY <1>0, <1>1, SweepIs DEF Sweeps, Now
<1>3. /\ t.d \in LeaveDays(r.l)
      /\ cover[t.d] # None /\ cover[t.d].id = t.id => Stale(t.d)
      /\ IsList(Tail(q)) /\ Tail(q) # <<>> /\ Tail(q)[Len(Tail(q))] = LeaveItem(r)
      /\ \A i \in 1..Len(Tail(q))-1 : \E k \in 1..Len(q)-1 : Tail(q)[i] = q[k]
      /\ \A k \in 1..Len(q)-1 : q[k] = t \/ \E i \in 1..Len(Tail(q))-1 : Tail(q)[i] = q[k]
  BY <1>1, <1>2, FirstDrop
<1>4. GoesTo(h, Tail(q), work[h].queue, work[h].team, work[h].anchor)
  <2>1. GoesTo(h, <<>> \o Tail(q), work[h].queue, work[h].team, work[h].anchor)
    BY <1>0, <1>1, ShortLists, ThenTail
  <2> QED
    BY <1>3, <2>1, ConsLists
<1>5. IsListed(r) /\ LeaveDays(r.l) \subseteq Days
  BY <1>1, <1>2, NextSnapshots DEF LeaveDays, DayRange
<1>6. /\ \A k \in 1..Len(q)-1 :
           /\ q[k].do = "drop" /\ q[k].d \in LeaveDays(r.l)
           /\ cover[q[k].d] # None /\ cover[q[k].d].id = q[k].id => Stale(q[k].d)
      /\ \A d \in LeaveDays(r.l) : Stale(d) =>
           \E k \in 1..Len(q)-1 : q[k].d = d /\ q[k].id = cover[d].id
  BY <1>2 DEF Dropping
<1> HIDE DEF t, r
<1> DEFINE rest == Tail(q)
<1> HIDE DEF rest
<1>7. ASSUME NEW i \in 1..Len(rest)-1
      PROVE  /\ rest[i].do = "drop" /\ rest[i].d \in LeaveDays(r.l)
             /\ cover[rest[i].d] # None /\ cover[rest[i].d].id = rest[i].id => Stale(rest[i].d)
  BY <1>3, <1>6, <1>7 DEF rest
<1>8. ASSUME NEW d \in LeaveDays(r.l), Stale(d), d # t.d \/ cover[d].id # t.id
      PROVE  \E i \in 1..Len(rest)-1 : rest[i].d = d /\ rest[i].id = cover[d].id
  <2>1. PICK k \in 1..Len(q)-1 : q[k].d = d /\ q[k].id = cover[d].id
    BY <1>6, <1>8
  <2> QED
    BY <1>3, <1>8, <2>1 DEF rest
<1>9. CASE ~(cover[t.d] # None /\ cover[t.d].id = t.id)
  <2>1. cover' = cover
    BY <1>1, <1>9
  <2>2. \A d \in LeaveDays(r.l) : Stale(d) =>
          \E i \in 1..Len(rest)-1 : rest[i].d = d /\ rest[i].id = cover[d].id
    BY <1>8, <1>9 DEF Stale
  <2>3. Dropping(rest, r)
    BY <1>3, <1>7, <2>2 DEF Dropping, rest
  <2>4. SweepsFor(rest, r)
    BY <2>3 DEF SweepsFor
  <2> QED
    BY <1>1, <1>4, <2>1, <2>4, SweepGoesOn DEF rest, r
<1>10. CASE cover[t.d] # None /\ cover[t.d].id = t.id
  <2>1. /\ t.d \in Days /\ Stale(t.d) /\ cover'[t.d] = None
        /\ \A d \in Days : d # t.d => cover'[d] = cover[d]
    BY <1>1, <1>3, <1>5, <1>10 DEF Covers
  <2>2. Forgets(t.d)
    BY <1>1, <2>1 DEF Forgets
  <2>3. /\ World' = World /\ \A e \in Days : Stale(e)' => Stale(e)
        /\ Waits(x)' /\ Covered(x.chosen)' /\ SteadyRota'
    BY <1>1, <2>1, <2>2, ClearingKeeps DEF Stands
  <2>4. LeaveDays(r.l)' = LeaveDays(r.l) /\ \A d : OnLeave(d)' = OnLeave(d)
    BY <1>1 DEF LeaveDays, OnLeave
  <2>5. \A d \in Days : d # t.d => (Stale(d)' <=> Stale(d))
    BY <1>1, <2>1, <2>4 DEF Stale
  <2>6. ASSUME NEW i \in 1..Len(rest)-1
        PROVE  cover'[rest[i].d] # None /\ cover'[rest[i].d].id = rest[i].id => Stale(rest[i].d)'
    <3>1. PICK d, id : d = rest[i].d /\ id = rest[i].id
      OBVIOUS
    <3>2. d \in Days /\ (cover[d] # None /\ cover[d].id = id => Stale(d))
      BY <1>5, <1>7, <3>1
    <3>3. cover'[d] # None /\ cover'[d].id = id => Stale(d)'
      BY <2>1, <2>5, <3>2
    <3> QED
      BY <3>1, <3>3
  <2>7. ASSUME NEW d \in LeaveDays(r.l), Stale(d)'
        PROVE  \E i \in 1..Len(rest)-1 : rest[i].d = d /\ rest[i].id = cover'[d].id
    <3>1. d \in Days /\ d # t.d
      BY <1>5, <2>1, <2>7 DEF Stale
    <3> QED
      BY <1>8, <2>1, <2>5, <2>7, <3>1
  <2>8. Dropping(rest, r)'
    <3>1. IsList(rest) /\ rest # <<>> /\ rest[Len(rest)] = LeaveItem(r)
      BY <1>3 DEF rest
    <3> HIDE DEF rest
    <3> QED
      BY <1>7, <2>4, <2>6, <2>7, <3>1 DEF Dropping
  <2>9. Sweeps(h, x)'
    BY <1>2, <1>4, <2>8 DEF Sweeps, SweepsFor, GoesTo, rest, r
  <2>10. Choosing(x)
    <3>1. r.l \in Leaves /\ leaves[r.l] # None /\ t.d \in LeaveDays(r.l)
      BY <1>3, <1>5 DEF IsListed
    <3> QED
      BY <2>1, <2>3, <3>1 DEF Choosing
  <2>11. \A l \in Leaves : SameLeave(l)
    BY <1>1 DEF SameLeave
  <2> QED
    BY <1>1, <2>3, <2>9, <2>10, <2>11 DEF Moves, Stands, InRun
<1> QED
  BY <1>9, <1>10

LEMMA LeaveFound ==
  ASSUME NEW h \in Handlers, NEW w, NEW x, MidRun(h, w, x), Sweeps(h, x), LoadLeave(h)
  PROVE  Moves(h, w, x)
<1> DEFINE r == Head(x.queue)
           q == work[h].todo
           a == [do |-> "team", l |-> r.l, m |-> leaves[r.l].member, days |-> LeaveDays(r.l) \cap Working]
<1>1. /\ TodoInv /\ RowsTyped /\ Waits(x) /\ w = World /\ q # <<>> /\ Now(h).do = "leave"
      /\ UNCHANGED <<team, leaves, orig, cover>>
  BY MidRunFacts DEF LoadLeave, Doing, Now, tables
<1>2. Dropping(q, r) /\ x.todo = <<>> /\ x.queue # <<>> /\ Now(h) = Head(q)
  BY <1>1, SweepIs DEF Sweeps, Now
<1>3. IsListed(r)
  BY <1>1, <1>2, NextSnapshots
<1>4. Len(q) = 1 /\ Now(h) = LeaveItem(r) /\ Tail(q) = <<>> /\ IsSwept(r.l)
  <2>1. /\ IsList(q) /\ q # <<>> /\ q[Len(q)] = LeaveItem(r) /\ \A i \in 1..Len(q)-1 : q[i].do = "drop"
        /\ \A d \in LeaveDays(r.l) : Stale(d) => \E i \in 1..Len(q)-1 : q[i].d = d
    BY <1>2 DEF Dropping
  <2>2. Len(q) \in Nat \ {0} /\ Now(h) = q[1] /\ IsList(Tail(q)) /\ Len(Tail(q)) = Len(q) - 1
    BY <1>2, <2>1, ListLength, ListTail
  <2>3. \A n \in Nat \ {0} : n = 1 \/ 1 \in 1..n-1
    OBVIOUS
  <2>4. Len(q) = 1
    BY <1>1, <2>1, <2>2, <2>3
  <2> DEFINE s == Tail(q)
  <2>5. s = <<>>
    <3>1. IsList(s) /\ Len(s) = 0
      BY <2>2, <2>4
    <3> HIDE DEF s
    <3> QED
      BY <3>1, ListLength
  <2>6. \A i \in 1..Len(q)-1 : FALSE
    BY <2>4
  <2> QED
    BY <2>1, <2>2, <2>4, <2>5, <2>6 DEF IsSwept
<1>5. Then(h, <<a>>)
  BY <1>3, <1>4 DEF LoadLeave, LeaveItem, IsListed, LeaveDays
<1> HIDE DEF a
<1>6. GoesTo(h, <<a>> \o <<>>, work[h].queue, work[h].team, work[h].anchor)
  BY <1>1, <1>4, <1>5, ShortLists, ThenTail
<1>7. SweepsFor(<<a>> \o <<>>, r)
  BY <1>4 DEF SweepsFor, a, Cons
<1> QED
  BY <1>1, <1>6, <1>7, SweepGoesOn

LEMMA TeamFound ==
  ASSUME NEW h \in Handlers, NEW w, NEW x, MidRun(h, w, x), Sweeps(h, x), LoadTeam(h)
  PROVE  Moves(h, w, x)
<1> DEFINE r == Head(x.queue)
           y == NextLeave(w, x)
           Date(d) == [do |-> "duty", d |-> d, l |-> Now(h).l, m |-> Now(h).m]
<1>1. /\ TodoInv /\ RowsTyped /\ Stands(x) /\ Waits(x) /\ w = World /\ SteadyRota /\ Now(h).do = "team"
      /\ UNCHANGED <<team, leaves, orig, cover>> /\ WorkOK /\ IsRequest(work[h])
  BY MidRunFacts DEF LoadTeam, Doing, Now, tables
<1>2. /\ x.todo = <<>> /\ x.queue # <<>>
      /\ work[h].queue = Tail(x.queue) /\ work[h].anchor = x.anchor
  BY DEF Sweeps
<1>3. IsListed(r) /\ IsSwept(r.l) /\ Waits(y)
  BY <1>1, <1>2, SweepIs, NextSnapshots
<1>4. PICK D, l, m : D = LeaveDays(r.l) \cap Working /\ l = r.l /\ m = leaves[r.l].member
  OBVIOUS
<1> DEFINE a == [do |-> "team", l |-> l, m |-> m, days |-> D]
<1>5. /\ work[h].todo = Cons(a, <<>>)
      /\ Now(h) = a /\ Tail(work[h].todo) = <<>>
  <2>1. work[h].todo = Cons(a, <<>>)
    BY <1>1, <1>4, SweepIs
  <2>2. IsList(<<>>)
    BY ShortLists
  <2> HIDE DEF a
  <2> QED
    BY <2>1, <2>2, ConsLists DEF Now
<1>6. Now(h).l = l /\ Now(h).m = m /\ Now(h).days = D
  BY <1>5
<1> DEFINE q == PerDay({[do |-> "duty", d |-> d, l |-> l, m |-> m] : d \in D})
<1>7. PerDay({Date(d) : d \in Now(h).days}) = q
  BY <1>6
<1>8. w.duties[l] = q /\ y.todo = q /\ IsList(q)
  <2>1. l \in Leaves /\ leaves[l] # None
    BY <1>3, <1>4 DEF IsListed
  <2>2. DutyList(l) = q
    BY <1>4, <2>1, Zenon DEF DutyList
  <2> HIDE DEF q
  <2>3. w.duties[l] = q
    BY <1>1, <2>1, <2>2 DEF World
  <2> QED
    BY <1>3, <1>4, <2>3 DEF Waits, NextLeave
<1> DEFINE v == [work[h] EXCEPT !.team = team, !.todo = q]
<1>9. q \o <<>> = q
  <2> HIDE DEF q
  <2> QED
    BY <1>8 DEF IsList
<1>10. work' = [work EXCEPT ![h] = v]
  <2>1. work' = [work EXCEPT ![h].team = team, ![h].todo = PerDay({Date(d) : d \in Now(h).days}) \o Tail(@)]
    BY DEF LoadTeam
  <2> HIDE DEF q, Date
  <2>2. work' = [work EXCEPT ![h] = [work[h] EXCEPT !.team = team, !.todo = q \o Tail(work[h].todo)]]
    BY <1>7, <2>1
  <2> QED
    BY <1>5, <1>9, <2>2
<1> HIDE DEF q
<1>11. v = [job |-> work[h].job, about |-> work[h].about, todo |-> q, queue |-> work[h].queue,
            team |-> team, anchor |-> work[h].anchor, failed |-> work[h].failed]
  BY <1>1, RequestFields
<1>12. work'[h] = v
  BY <1>1, <1>10 DEF WorkOK
<1>13. Ready(h, y)'
  <2>1. /\ work'[h].todo = q /\ work'[h].queue = Tail(x.queue) /\ work'[h].anchor = x.anchor
        /\ work'[h].team = team'
    BY <1>1, <1>2, <1>11, <1>12
  <2>2. y.queue = Tail(x.queue) /\ y.anchor = x.anchor
    BY DEF NextLeave
  <2> QED
    BY <1>8, <2>1, <2>2 DEF Ready
<1>14. y = Following(w, x) /\ ~AtEnd(x) /\ y.chosen = x.chosen
  BY <1>2 DEF Following, AtEnd, NextLeave
<1>15. Stands(y)
  BY <1>1, <1>3, <1>14 DEF Stands
<1> HIDE DEF y
<1> QED
  BY <1>1, <1>13, <1>14, <1>15, SameTables, QuietMoves DEF InRun

-----------------------------------------------------------------------------
(* The statements of a run: the duties of a leave. *)

\* A run goes on with a duty.
LEMMA DutyGoesOn ==
  ASSUME NEW h \in Handlers, NEW w, NEW x, MidRun(h, w, x),
         UNCHANGED <<team, leaves, orig, cover>>, NEW todo,
         GoesTo(h, todo, x.queue, team, x.anchor), DecidesFor(todo, w, x)
  PROVE  Moves(h, w, x)
<1>1. RowsTyped /\ w = World /\ Stands(x) /\ SteadyRota
  BY MidRunFacts
<1>2. \A d : OnLeave(d)' = OnLeave(d)
  BY DEF OnLeave
<1>3. \A t, q : Reads(t, q) => Reads(t, q)'
  BY <1>2 DEF Reads
<1>4. \A t, c, q : Writes(t, c, q) => Writes(t, c, q)'
  BY DEF Writes
<1>5. DecidesFor(todo, w, x)'
  BY <1>2, <1>3, <1>4 DEF DecidesFor
<1>6. Decides(h, w, x)'
  BY <1>5 DEF Decides, GoesTo
<1> QED
  BY <1>1, <1>6, SameTables, QuietMoves DEF InRun

\* A run is done with a duty that it does not give to anybody.
LEMMA DutyPassed ==
  ASSUME NEW h \in Handlers, NEW w, NEW x, MidRun(h, w, x), x.todo # <<>>, ~Takes(w, x),
         UNCHANGED <<team, leaves, orig, cover>>, GoesTo(h, Tail(x.todo), x.queue, team, x.anchor)
  PROVE  Moves(h, w, x)
<1> DEFINE y == Passes(x)
<1>1. RowsTyped /\ w = World /\ Stands(x) /\ Waits(x) /\ SteadyRota
  BY MidRunFacts
<1>2. /\ y = Following(w, x) /\ ~AtEnd(x) /\ y.chosen = x.chosen /\ y.todo = Tail(x.todo)
      /\ y.queue = x.queue /\ y.anchor = x.anchor
  BY DEF Following, AtEnd, Passes
<1>3. Stands(y)
  BY <1>1, <1>2, NextSnapshots DEF Stands
<1> HIDE DEF y
<1>4. Ready(h, y)'
  BY <1>2 DEF Ready, GoesTo
<1> QED
  BY <1>1, <1>2, <1>3, <1>4, SameTables, QuietMoves DEF InRun

LEMMA DutyStarts ==
  ASSUME NEW h \in Handlers, NEW w, NEW x, MidRun(h, w, x), Ready(h, x), EnsureOriginalAssignment(h)
  PROVE  Moves(h, w, x)
<1>1. /\ TodoInv /\ RowsTyped /\ Linked /\ w = World /\ Waits(x) /\ SteadyRota /\ IsList(x.todo)
      /\ Now(h).do = "duty" /\ work[h].todo # <<>> /\ UNCHANGED <<team, leaves, orig, cover>>
      /\ IsList(Tail(x.todo))
  BY MidRunFacts, ListTail DEF EnsureOriginalAssignment, Doing, Now, tables, Ready
<1>2. PICK t : t = Head(x.todo)
  OBVIOUS
<1>3. /\ x.todo # <<>> /\ Now(h) = t /\ work[h].todo = x.todo /\ work[h].queue = x.queue
      /\ work[h].anchor = x.anchor /\ work[h].team = team
  BY <1>1, <1>2 DEF Ready, Now
<1>4. IsDuty(t)
  BY <1>1, <1>2, <1>3, NextSnapshots
<1>5. /\ t.d \in Days /\ t.d \in Working /\ t.m \in OnLeave(t.d) /\ ~Stale(t.d)
  BY <1>4 DEF IsDuty, LeaveDays, DayRange, OnLeave
<1>6. w.holders[t.d] = Holders(t.d) /\ (orig[t.d] # None => orig[t.d].member \in Members)
      /\ (cover[t.d] # None => cover[t.d].member \in Members)
  BY <1>1, <1>5 DEF World, RowsTyped, Originals, Covers, OriginalRow, CoverRow
<1>7. CASE ~Scheduled(t.d, t.m)
  <2>1. Then(h, <<>>)
    BY <1>3, <1>7 DEF EnsureOriginalAssignment
  <2>2. GoesTo(h, Tail(x.todo), x.queue, team, x.anchor)
    <3>1. GoesTo(h, <<>> \o Tail(x.todo), x.queue, team, x.anchor)
      BY <1>1, <1>3, <2>1, ShortLists, ThenTail
    <3> QED
      BY <1>1, <3>1, ConsLists
  <2>3. ~Takes(w, x)
    BY <1>2, <1>6, <1>7 DEF Takes, Holders, Scheduled
  <2> QED
    BY <1>1, <1>3, <2>2, <2>3, DutyPassed
<1>8. CASE Scheduled(t.d, t.m)
  <2> DEFINE s == [do |-> "away", d |-> t.d, l |-> t.l, id |-> orig[t.d].id]
  <2>1. Then(h, <<s>>) /\ IsList(<<s>>)
    BY <1>3, <1>8, ShortLists DEF EnsureOriginalAssignment
  <2>2. Reads(t, s)
    BY DEF Reads
  <2> HIDE DEF s
  <2>3. GoesTo(h, Cons(s, Tail(x.todo)), x.queue, team, x.anchor)
    <3>1. GoesTo(h, <<s>> \o Tail(x.todo), x.queue, team, x.anchor)
      BY <1>1, <1>3, <2>1, ThenTail
    <3> QED
      BY <3>1 DEF Cons
  <2>4. orig[t.d] # None
    BY <1>1, <1>5, <1>8 DEF Linked, Scheduled
  <2>5. t.m \in w.holders[t.d] \/ team \subseteq OnLeave(t.d)
    BY <1>1, <1>5, <1>6, <1>8 DEF Scheduled, Holders, SteadyRota
  <2>6. DecidesFor(Cons(s, Tail(x.todo)), w, x)
    BY <1>2, <1>3, <2>2, <2>4, <2>5 DEF DecidesFor
  <2> QED
    BY <1>1, <2>3, <2>6, DutyGoesOn
<1> QED
  BY <1>7, <1>8

\* The duty that a run is at, its choice for it and the statements behind.
AtDuty(w, x, t, c, rest, after) ==
  /\ t = Head(x.todo) /\ c = Chosen(w, x) /\ rest = Tail(x.todo)
  /\ after = Cons(MarkItem(t), Cons(SlotItem(t.d, c), rest))

LEMMA DutyIs ==
  ASSUME NEW h \in Handlers, NEW w, NEW x, MidRun(h, w, x), Decides(h, w, x),
         NEW t, NEW c, NEW rest, NEW after, AtDuty(w, x, t, c, rest, after)
  PROVE  /\ IsList(rest) /\ IsList(after) /\ work[h].todo # <<>>
         /\ Now(h).do \in {"away", "turn", "look", "cover", "repoint"}
         /\ Now(h).do \in {"away", "turn"} =>
              /\ work[h].todo = Cons(Now(h), rest) /\ Tail(work[h].todo) = rest /\ Reads(t, Now(h))
              /\ t.m \in w.holders[t.d] \/ team \subseteq OnLeave(t.d)
         /\ Now(h).do \in {"look", "cover", "repoint"} =>
              /\ work[h].todo = Cons(Now(h), after) /\ Tail(work[h].todo) = after
              /\ Writes(t, c, Now(h)) /\ Takes(w, x)
<1>1. IsList(x.todo) /\ x.todo # <<>> /\ DecidesFor(work[h].todo, w, x)
  BY MidRunFacts DEF Decides, DecidesFor
<1>2. IsList(rest)
  BY <1>1, ListTail DEF AtDuty
<1>3. IsList(Cons(SlotItem(t.d, c), rest))
  BY <1>2, ConsLists
<1>4. IsList(after)
  BY <1>3, ConsLists DEF AtDuty
<1>5. CASE /\ t.m \in w.holders[t.d] \/ team \subseteq OnLeave(t.d)
           /\ \E s : Reads(t, s) /\ work[h].todo = Cons(s, rest)
  <2>1. PICK s : Reads(t, s) /\ work[h].todo = Cons(s, rest)
    BY <1>5
  <2>2. work[h].todo # <<>> /\ Now(h) = s /\ Tail(work[h].todo) = rest
    BY <1>2, <2>1, ConsLists DEF Now
  <2>3. s.do \in {"away", "turn"}
    BY <2>1 DEF Reads
  <2> QED
    BY <1>2, <1>4, <1>5, <2>1, <2>2, <2>3
<1>6. CASE Takes(w, x) /\ \E s : Writes(t, c, s) /\ work[h].todo = Cons(s, after)
  <2>1. PICK s : Writes(t, c, s) /\ work[h].todo = Cons(s, after)
    BY <1>6
  <2>2. work[h].todo # <<>> /\ Now(h) = s /\ Tail(work[h].todo) = after
    BY <1>4, <2>1, ConsLists DEF Now
  <2>3. s.do \in {"look", "cover", "repoint"}
    BY <2>1 DEF Writes
  <2> QED
    BY <1>2, <1>4, <1>6, <2>1, <2>2, <2>3
<1> QED
  BY <1>1, <1>5, <1>6 DEF DecidesFor, AtDuty

LEMMA DutyFacts ==
  ASSUME NEW h \in Handlers, NEW w, NEW x, MidRun(h, w, x), x.todo # <<>>,
         NEW t, t = Head(x.todo), NEW c, c = Chosen(w, x)
  PROVE  /\ IsDuty(t) /\ t.d \in Days /\ t.m \in OnLeave(t.d) /\ ~Stale(t.d)
         /\ w.holders[t.d] = Holders(t.d)
         /\ c = FindCover(team, OnLeave(t.d), TurnOf(x.anchor, t.d, team))
         /\ IF team \subseteq OnLeave(t.d) THEN c = None
            ELSE c # None /\ c \in team /\ c \notin OnLeave(t.d)
<1>1. RowsTyped /\ w = World /\ Waits(x) /\ team \in SUBSET Members /\ x.anchor \in Position \cup {None}
  BY MidRunFacts
<1>2. IsDuty(t)
  BY <1>1, NextSnapshots
<1>3. t.d \in Days /\ t.m \in OnLeave(t.d) /\ ~Stale(t.d)
  BY <1>2 DEF IsDuty, LeaveDays, DayRange, OnLeave
<1>4. w.holders[t.d] = Holders(t.d) /\ w.away[t.d] = OnLeave(t.d) /\ w.team = team
  BY <1>1, <1>3 DEF World
<1>5. c = FindCover(team, OnLeave(t.d), TurnOf(x.anchor, t.d, team))
  BY <1>4 DEF Chosen
<1>6. IF team \subseteq OnLeave(t.d) THEN c = None ELSE c # None /\ c \in team /\ c \notin OnLeave(t.d)
  <2> DEFINE away == OnLeave(t.d)
  <2>1. x.anchor \in Position \cup RotationRow \cup {None}
    BY <1>1
  <2>2. c = FindCover(team, away, TurnOf(x.anchor, t.d, team))
    BY <1>5
  <2> HIDE DEF away
  <2>3. IF team \subseteq away THEN c = None ELSE c # None /\ c \in team /\ c \notin away
    BY <1>1, <1>3, <2>1, <2>2, CoverIsFree
  <2> QED
    BY <2>3 DEF away
<1> QED
  BY <1>2, <1>3, <1>4, <1>5, <1>6

LEMMA AwayRead ==
  ASSUME NEW h \in Handlers, NEW w, NEW x, MidRun(h, w, x), Decides(h, w, x), ReadOtherLeaves(h)
  PROVE  Moves(h, w, x)
<1>1. PICK t, c, rest, after : AtDuty(w, x, t, c, rest, after)
  BY DEF AtDuty
<1>0. t = Head(x.todo) /\ rest = Tail(x.todo)
  BY <1>1 DEF AtDuty
<1>2. /\ TodoInv /\ Now(h).do = "away" /\ UNCHANGED <<team, leaves, orig, cover>>
      /\ work[h].queue = x.queue /\ work[h].anchor = x.anchor /\ work[h].team = team
      /\ x.todo # <<>> /\ orig[t.d] # None
  BY <1>0, MidRunFacts DEF ReadOtherLeaves, Doing, Now, tables, Decides, DecidesFor
<1>3. /\ work[h].todo # <<>> /\ Tail(work[h].todo) = rest /\ Reads(t, Now(h))
      /\ t.m \in w.holders[t.d] \/ team \subseteq OnLeave(t.d)
  BY <1>1, <1>2, DutyIs
<1> DEFINE s == [do |-> "turn", d |-> t.d, l |-> t.l, id |-> orig[t.d].id, away |-> OnLeave(t.d)]
<1>4. Now(h) = [do |-> "away", d |-> t.d, l |-> t.l, id |-> orig[t.d].id]
  BY <1>2, <1>3 DEF Reads
<1>5. Then(h, <<s>>) /\ IsList(<<s>>)
  BY <1>4, ShortLists DEF ReadOtherLeaves
<1>6. Reads(t, s)
  BY DEF Reads
<1> HIDE DEF s
<1>7. GoesTo(h, Cons(s, rest), x.queue, team, x.anchor)
  <2>1. GoesTo(h, <<s>> \o rest, x.queue, team, x.anchor)
    BY <1>2, <1>3, <1>5, ThenTail
  <2> QED
    BY <2>1 DEF Cons
<1>8. DecidesFor(Cons(s, rest), w, x)
  BY <1>0, <1>2, <1>3, <1>6 DEF DecidesFor
<1> QED
  BY <1>2, <1>7, <1>8, DutyGoesOn

LEMMA TurnTaken ==
  ASSUME NEW h \in Handlers, NEW w, NEW x, MidRun(h, w, x), Decides(h, w, x), PickLeaveCover(h)
  PROVE  Moves(h, w, x)
<1>1. PICK t, c, rest, after : AtDuty(w, x, t, c, rest, after)
  BY DEF AtDuty
<1>0. t = Head(x.todo) /\ c = Chosen(w, x) /\ rest = Tail(x.todo)
  BY <1>1 DEF AtDuty
<1>2. /\ TodoInv /\ Reassigning(h) /\ Now(h).do = "turn" /\ UNCHANGED <<team, leaves, orig, cover>>
      /\ work[h].queue = x.queue /\ work[h].anchor = x.anchor /\ work[h].team = team
      /\ x.todo # <<>> /\ orig[t.d] # None
  BY <1>0, MidRunFacts DEF PickLeaveCover, Doing, Now, tables, Decides, DecidesFor
<1>3. /\ work[h].todo # <<>> /\ Tail(work[h].todo) = rest /\ Reads(t, Now(h)) /\ IsList(rest)
      /\ t.m \in w.holders[t.d] \/ team \subseteq OnLeave(t.d)
  BY <1>1, <1>2, DutyIs
<1>4. Now(h) = [do |-> "turn", d |-> t.d, l |-> t.l, id |-> orig[t.d].id, away |-> OnLeave(t.d)]
  BY <1>2, <1>3 DEF Reads
<1>5. /\ c = FindCover(team, OnLeave(t.d), TurnOf(x.anchor, t.d, team))
      /\ team \subseteq OnLeave(t.d) => c = None
  BY <1>0, <1>2, DutyFacts
<1> DEFINE look == [do |-> "look", d |-> t.d, id |-> orig[t.d].id, c |-> c]
           mark == MarkItem(t)
           slot == SlotItem(t.d, c)
<1>6. Then(h, IF c = None THEN <<>> ELSE <<look, mark, slot>>)
  <2>1. c = FindCover(work[h].team, Now(h).away, TurnOf(work[h].anchor, Now(h).d, work[h].team))
    BY <1>2, <1>4, <1>5
  <2>2. Now(h).d = t.d /\ Now(h).l = t.l /\ Now(h).id = orig[t.d].id
    BY <1>4
  <2> QED
    BY <1>2, <2>1, <2>2 DEF PickLeaveCover, MarkItem, SlotItem
<1>7. Writes(t, c, look)
  BY DEF Writes
<1> HIDE DEF look, mark, slot
<1>8. CASE c = None
  <2>1. Then(h, <<>>)
    BY <1>6, <1>8
  <2>2. GoesTo(h, rest, x.queue, team, x.anchor)
    <3>1. GoesTo(h, <<>> \o rest, x.queue, team, x.anchor)
      BY <1>2, <1>3, <2>1, ShortLists, ThenTail
    <3> QED
      BY <1>3, <3>1, ConsLists
  <2>3. ~Takes(w, x)
    BY <1>0, <1>8 DEF Takes
  <2> QED
    BY <1>0, <1>2, <2>2, <2>3, DutyPassed
<1>9. CASE c # None
  <2>1. Then(h, <<look, mark, slot>>) /\ IsList(<<look, mark, slot>>)
    BY <1>6, <1>9, ShortLists
  <2>2. GoesTo(h, Cons(look, Cons(mark, Cons(slot, rest))), x.queue, team, x.anchor)
    <3>1. GoesTo(h, <<look, mark, slot>> \o rest, x.queue, team, x.anchor)
      BY <1>2, <1>3, <2>1, ThenTail
    <3>2. IsList(rest)
      BY <1>3
    <3>3. \A a, b, e : <<a, b, e>> \o rest = Cons(a, Cons(b, Cons(e, rest)))
      BY ONLY <3>2, ConsLists, Zenon
    <3> QED
      BY <3>1, <3>3
  <2>3. Takes(w, x)
    BY <1>0, <1>3, <1>5, <1>9 DEF Takes
  <2>4. DecidesFor(Cons(look, Cons(mark, Cons(slot, rest))), w, x)
    BY <1>0, <1>2, <1>7, <2>3 DEF DecidesFor, mark, slot
  <2> QED
    BY <1>2, <2>2, <2>4, DutyGoesOn
<1> QED
  BY <1>8, <1>9

\* A run has given the day: the leave is to be marked and the slot to be remembered.
LEMMA DutyGiven ==
  ASSUME NEW h \in Handlers, NEW w, NEW x, MidRun(h, w, x), x.todo # <<>>, Takes(w, x),
         NEW t, t = Head(x.todo), NEW c, c = Chosen(w, x), NEW y, y = Gives(w, x)
  PROVE  /\ y = Following(w, x) /\ ~AtEnd(x) /\ Waits(y) /\ y.todo = Tail(x.todo) /\ y.queue = x.queue
         /\ y.anchor = [last |-> t.d, slot |-> SlotOf(team, c)]
         /\ y.chosen = [e \in Days |-> IF e = t.d THEN c ELSE x.chosen[e]]
         /\ c # None /\ c \in team /\ c \notin OnLeave(t.d) /\ t.m \in Holders(t.d)
<1>1. RowsTyped /\ w = World /\ Waits(x) /\ w.team = team
  BY MidRunFacts DEF World
<1>2. c # None /\ t.m \in w.holders[t.d]
  BY DEF Takes
<1>3. Waits(y)
  BY <1>1, <1>2, NextSnapshots
<1>4. c \in team /\ c \notin OnLeave(t.d) /\ t.m \in Holders(t.d)
  BY <1>2, DutyFacts
<1>5. /\ y.todo = Tail(x.todo) /\ y.queue = x.queue
      /\ y.anchor = [last |-> t.d, slot |-> SlotOf(team, c)]
      /\ y.chosen = [e \in Days |-> IF e = t.d THEN c ELSE x.chosen[e]]
  BY <1>1 DEF Gives
<1>6. y = Following(w, x) /\ ~AtEnd(x)
  BY DEF Following, AtEnd
<1> QED
  BY <1>2, <1>3, <1>4, <1>5, <1>6

LEMMA GivenMarks ==
  ASSUME NEW h \in Handlers, NEW y, NEW d, NEW c, NEW t, UNCHANGED team,
         y.anchor = [last |-> d, slot |-> SlotOf(team, c)], NEW anchor,
         GoesTo(h, Cons(MarkItem(t), Cons(SlotItem(d, c), y.todo)), y.queue, team, anchor)
  PROVE  Marks(h, y)'
BY DEF Marks, GoesTo, MarkItem, SlotItem

\* A run is giving the first of the duties, t, to c.
IsGiving(h, w, x, t, c, after) ==
  /\ t = Head(x.todo) /\ c = Chosen(w, x)
  /\ after = Cons(MarkItem(t), Cons(SlotItem(t.d, c), Tail(x.todo))) /\ IsList(after)
  /\ x.todo # <<>> /\ work[h].todo # <<>> /\ Tail(work[h].todo) = after
  /\ Writes(t, c, Now(h)) /\ Takes(w, x) /\ orig[t.d] # None
  /\ t.d \in Days /\ ~Stale(t.d) /\ t.m \in OnLeave(t.d) /\ t.m \in Holders(t.d)
  /\ c # None /\ c \in team /\ c \notin OnLeave(t.d)
  /\ work[h].queue = x.queue /\ work[h].anchor = x.anchor /\ work[h].team = team

LEMMA Giving ==
  ASSUME NEW h \in Handlers, NEW w, NEW x, MidRun(h, w, x), Decides(h, w, x),
         Now(h).do \in {"look", "cover", "repoint"}
  PROVE  \E t, c, after : IsGiving(h, w, x, t, c, after)
<1>1. PICK t, c, rest, after : AtDuty(w, x, t, c, rest, after)
  BY DEF AtDuty
<1>2. /\ t = Head(x.todo) /\ c = Chosen(w, x)
      /\ after = Cons(MarkItem(t), Cons(SlotItem(t.d, c), Tail(x.todo)))
  BY <1>1 DEF AtDuty
<1>3. /\ work[h].queue = x.queue /\ work[h].anchor = x.anchor /\ work[h].team = team
      /\ x.todo # <<>> /\ orig[t.d] # None
  BY <1>2 DEF Decides, DecidesFor
<1>4. /\ IsList(after) /\ work[h].todo # <<>>
      /\ Now(h).do \in {"look", "cover", "repoint"} =>
           Tail(work[h].todo) = after /\ Writes(t, c, Now(h)) /\ Takes(w, x)
  BY <1>1, DutyIs
<1>5. Tail(work[h].todo) = after /\ Writes(t, c, Now(h)) /\ Takes(w, x)
  BY <1>4
<1>6. t.d \in Days /\ ~Stale(t.d) /\ t.m \in OnLeave(t.d)
  BY <1>2, <1>3, DutyFacts
<1>7. c # None /\ c \in team /\ c \notin OnLeave(t.d) /\ t.m \in Holders(t.d)
  <2>1. t.m \in w.holders[t.d] /\ c # None
    BY <1>2, <1>5 DEF Takes
  <2>2. /\ w.holders[t.d] = Holders(t.d)
        /\ IF team \subseteq OnLeave(t.d) THEN c = None
           ELSE c # None /\ c \in team /\ c \notin OnLeave(t.d)
    BY <1>2, <1>3, DutyFacts
  <2> QED
    BY <2>1, <2>2
<1>8. IsGiving(h, w, x, t, c, after)
  BY <1>2, <1>3, <1>4, <1>5, <1>6, <1>7, Zenon DEF IsGiving
<1> QED
  BY <1>8

\* A statement that only writes, while giving.
LEMMA GivingGoesOn ==
  ASSUME NEW h \in Handlers, TodoInv, NEW w, NEW x, NEW t, NEW c, NEW after,
         IsGiving(h, w, x, t, c, after)
  PROVE  /\ Then(h, <<>>) => GoesTo(h, after, x.queue, team, x.anchor)
         /\ \A s : Then(h, <<s>>) => GoesTo(h, Cons(s, after), x.queue, team, x.anchor)
<1>1. /\ IsList(after) /\ work[h].todo # <<>> /\ Tail(work[h].todo) = after
      /\ work[h].queue = x.queue /\ work[h].anchor = x.anchor /\ work[h].team = team
  BY DEF IsGiving
<1>2. <<>> \o after = after
  BY <1>1, ConsLists
<1>3. ASSUME Then(h, <<>>)
      PROVE  GoesTo(h, after, x.queue, team, x.anchor)
  <2>1. GoesTo(h, <<>> \o after, x.queue, team, x.anchor)
    BY <1>1, <1>3, ShortLists, ThenTail
  <2> QED
    BY <1>2, <2>1
<1>4. ASSUME NEW s, Then(h, <<s>>)
      PROVE  GoesTo(h, Cons(s, after), x.queue, team, x.anchor)
  <2>1. GoesTo(h, <<s>> \o after, x.queue, team, x.anchor)
    BY <1>1, <1>4, ShortLists, ThenTail
  <2> QED
    BY <2>1 DEF Cons
<1> QED
  BY <1>3, <1>4

LEMMA CoverLookedUp ==
  ASSUME NEW h \in Handlers, NEW w, NEW x, MidRun(h, w, x), Decides(h, w, x), CreateCoverAssignment(h)
  PROVE  Moves(h, w, x)
<1>1. /\ TodoInv /\ RowsTyped /\ w = World /\ Stands(x) /\ SteadyRota
      /\ Now(h).do = "look" /\ UNCHANGED <<team, leaves, orig, cover>>
  BY MidRunFacts DEF CreateCoverAssignment, Doing, Now, tables
<1>2. PICK t, c, after : IsGiving(h, w, x, t, c, after)
  BY <1>1, Giving
<1>3. /\ t = Head(x.todo) /\ c = Chosen(w, x)
      /\ after = Cons(MarkItem(t), Cons(SlotItem(t.d, c), Tail(x.todo)))
      /\ x.todo # <<>> /\ Writes(t, c, Now(h)) /\ Takes(w, x) /\ orig[t.d] # None
      /\ t.d \in Days /\ ~Stale(t.d)
  BY <1>2 DEF IsGiving
<1>4. Now(h) = [do |-> "look", d |-> t.d, id |-> orig[t.d].id, c |-> c]
  BY <1>1, <1>3 DEF Writes
<1>5. Now(h).d = t.d /\ Now(h).c = c /\ Now(h).id = orig[t.d].id
  BY <1>4
<1> DEFINE put == [do |-> "cover", d |-> t.d, c |-> c, id |-> orig[t.d].id]
           point == [do |-> "repoint", d |-> t.d, c |-> c]
<1>6. Then(h, IF cover[t.d] = None THEN <<put>>
              ELSE IF cover[t.d].swapped \/ cover[t.d].member = c THEN <<>> ELSE <<point>>)
  BY <1>5 DEF CreateCoverAssignment
<1>7. /\ cover[t.d] = None => Writes(t, c, put)
      /\ cover[t.d] # None /\ ~cover[t.d].swapped => Writes(t, c, point)
  BY DEF Writes
<1> HIDE DEF put, point
<1>8. ASSUME NEW s, Then(h, <<s>>), Writes(t, c, s)
      PROVE  Moves(h, w, x)
  <2>1. GoesTo(h, Cons(s, after), x.queue, team, x.anchor)
    BY <1>1, <1>2, <1>8, GivingGoesOn
  <2>2. DecidesFor(Cons(s, after), w, x)
    BY <1>3, <1>8 DEF DecidesFor
  <2> QED
    BY <1>1, <2>1, <2>2, DutyGoesOn
<1>9. CASE cover[t.d] = None
  BY <1>6, <1>7, <1>8, <1>9
<1>10. CASE cover[t.d] # None /\ ~cover[t.d].swapped /\ cover[t.d].member # c
  BY <1>6, <1>7, <1>8, <1>10
<1>11. CASE cover[t.d] # None /\ (cover[t.d].swapped \/ cover[t.d].member = c)
  <2>1. Then(h, <<>>)
    BY <1>6, <1>11
  <2>2. GoesTo(h, after, x.queue, team, x.anchor)
    BY <1>1, <1>2, <2>1, GivingGoesOn
  <2>3. PICK y : y = Gives(w, x)
    OBVIOUS
  <2>4. /\ y = Following(w, x) /\ ~AtEnd(x) /\ Waits(y) /\ y.todo = Tail(x.todo) /\ y.queue = x.queue
        /\ y.anchor = [last |-> t.d, slot |-> SlotOf(team, c)]
        /\ y.chosen = [e \in Days |-> IF e = t.d THEN c ELSE x.chosen[e]]
    BY <1>3, <2>3, DutyGiven
  <2>5. Marks(h, y)'
    BY <1>1, <1>3, <2>2, <2>4, GivenMarks
  <2>6. Covered(y.chosen)
    <3>1. Covered(x.chosen)
      BY <1>1 DEF Stands
    <3>2. \A e \in Days : y.chosen[e] = IF e = t.d THEN c ELSE x.chosen[e]
      BY <2>4
    <3> QED
      BY <1>3, <1>11, <3>1, <3>2 DEF Covered
  <2> QED
    BY <1>1, <2>4, <2>5, <2>6, SameTables, QuietMoves DEF Stands, InRun
<1> QED
  BY <1>9, <1>10, <1>11

\* Writing the day to the rota.
LEMMA DutyWritten ==
  ASSUME NEW h \in Handlers, NEW w, NEW x, MidRun(h, w, x), x.todo # <<>>, Takes(w, x),
         NEW t, t = Head(x.todo), NEW c, c = Chosen(w, x), Puts(t.d, c), NEW anchor,
         GoesTo(h, Cons(MarkItem(t), Cons(SlotItem(t.d, c), Tail(x.todo))), x.queue, team, anchor)
  PROVE  Moves(h, w, x)
<1>1. PICK y : y = Gives(w, x)
  OBVIOUS
<1>2. /\ y = Following(w, x) /\ ~AtEnd(x) /\ Waits(y) /\ y.todo = Tail(x.todo) /\ y.queue = x.queue
      /\ y.anchor = [last |-> t.d, slot |-> SlotOf(team, c)]
      /\ y.chosen = [e \in Days |-> IF e = t.d THEN c ELSE x.chosen[e]] /\ c # None
  BY <1>1, DutyGiven
<1>3. w = World /\ Covered(x.chosen) /\ SteadyRota /\ t.d \in Days
  BY MidRunFacts, DutyFacts DEF Stands
<1>4. /\ World' = World /\ \A e \in Days : Stale(e)' <=> Stale(e)
      /\ Waits(y)' /\ SteadyRota'
      /\ Covered([e \in Days |-> IF e = t.d THEN c ELSE x.chosen[e]])'
  BY <1>2, <1>3, PutsKeep
<1>5. Covered(y.chosen)'
  BY <1>2, <1>4
<1>6. Marks(h, y)'
  <2>1. team' = team
    BY DEF Puts
  <2> QED
    BY <1>2, <2>1, GivenMarks
<1>7. Choosing(y)
  <2>1. /\ \A e \in Days : e # t.d => cover'[e] = cover[e]
        /\ cover[t.d] = None \/ ~cover[t.d].swapped
        /\ cover'[t.d] # None /\ ~cover'[t.d].swapped
    BY DEF Puts
  <2>2. y.chosen[t.d] # None
    BY <1>2, <1>3
  <2> QED
    BY <1>4, <2>1, <2>2 DEF Choosing
<1>8. \A l \in Leaves : SameLeave(l)
  BY DEF Puts, SameLeave
<1> QED
  BY <1>2, <1>3, <1>4, <1>5, <1>6, <1>7, <1>8 DEF Moves, Stands, InRun

LEMMA CoverPut ==
  ASSUME NEW h \in Handlers, NEW w, NEW x, MidRun(h, w, x), Decides(h, w, x), InsertCover(h)
  PROVE  Moves(h, w, x)
<1>1. /\ TodoInv /\ WorkOK /\ cover \in Covers /\ team \in SUBSET Members
      /\ Now(h).do = "cover" /\ UNCHANGED <<team, leaves, orig>>
  BY MidRunFacts DEF InsertCover, Doing, Now, RowsTyped
<1>2. PICK t, c, after : IsGiving(h, w, x, t, c, after)
  BY <1>1, Giving
<1>3. /\ t = Head(x.todo) /\ c = Chosen(w, x)
      /\ after = Cons(MarkItem(t), Cons(SlotItem(t.d, c), Tail(x.todo)))
      /\ x.todo # <<>> /\ Writes(t, c, Now(h)) /\ Takes(w, x) /\ orig[t.d] # None
      /\ t.d \in Days /\ t.m \in OnLeave(t.d) /\ t.m \in Holders(t.d)
      /\ c \in team /\ c \notin OnLeave(t.d)
  BY <1>2 DEF IsGiving
<1>4. Now(h) = [do |-> "cover", d |-> t.d, c |-> c, id |-> orig[t.d].id] /\ cover[t.d] = None
  BY <1>1, <1>3 DEF Writes
<1>5. Now(h).d = t.d /\ Now(h).c = c /\ Now(h).id = orig[t.d].id
  BY <1>4
<1> DEFINE row == [member |-> c, swapped |-> FALSE, id |-> NewId(t.d), linked |-> TRUE]
<1>6. cover' = [cover EXCEPT ![t.d] = row] /\ Then(h, <<>>)
  BY <1>3, <1>4, <1>5 DEF InsertCover
<1>7. row.member = c /\ ~row.swapped /\ row # None
  <2>1. c \in Members /\ NewId(t.d) \in Nat
    BY <1>1, <1>3, NewIdIsNumber
  <2>2. row \in CoverRow
    BY <2>1 DEF CoverRow
  <2>3. row.member = c /\ ~row.swapped
    OBVIOUS
  <2> QED
    BY <2>2, <2>3, RowsAreNotNone
<1> HIDE DEF row
<1>8. cover'[t.d] = row /\ \A e \in Days : e # t.d => cover'[e] = cover[e]
  BY <1>1, <1>3, <1>6 DEF Covers
<1>9. orig[t.d].member \in OnLeave(t.d)
  BY <1>3, <1>4 DEF Holders
<1>10. Puts(t.d, c)
  BY <1>1, <1>3, <1>4, <1>7, <1>8, <1>9 DEF Puts
<1>11. GoesTo(h, after, x.queue, team, x.anchor)
  BY <1>1, <1>2, <1>6, GivingGoesOn
<1> QED
  BY <1>3, <1>10, <1>11, DutyWritten

LEMMA CoverPointed ==
  ASSUME NEW h \in Handlers, NEW w, NEW x, MidRun(h, w, x), Decides(h, w, x), RepointCover(h)
  PROVE  Moves(h, w, x)
<1>1. /\ TodoInv /\ cover \in Covers /\ team \in SUBSET Members
      /\ Now(h).do = "repoint" /\ UNCHANGED <<team, leaves, orig>>
  BY MidRunFacts DEF RepointCover, Doing, Now, RowsTyped
<1>2. PICK t, c, after : IsGiving(h, w, x, t, c, after)
  BY <1>1, Giving
<1>3. /\ t = Head(x.todo) /\ c = Chosen(w, x)
      /\ after = Cons(MarkItem(t), Cons(SlotItem(t.d, c), Tail(x.todo)))
      /\ x.todo # <<>> /\ Writes(t, c, Now(h)) /\ Takes(w, x)
      /\ t.d \in Days /\ ~Stale(t.d) /\ c \in team /\ c \notin OnLeave(t.d)
  BY <1>2 DEF IsGiving
<1>4. /\ Now(h) = [do |-> "repoint", d |-> t.d, c |-> c]
      /\ cover[t.d] # None /\ ~cover[t.d].swapped
  BY <1>1, <1>3 DEF Writes
<1>5. Now(h).d = t.d /\ Now(h).c = c
  BY <1>4
<1>6. cover' = [cover EXCEPT ![t.d].member = c] /\ Then(h, <<>>)
  BY <1>3, <1>4, <1>5 DEF RepointCover
<1>7. cover[t.d] \in CoverRow /\ c \in Members
  BY <1>1, <1>3, <1>4 DEF Covers
<1>8. /\ cover'[t.d] = [cover[t.d] EXCEPT !.member = c]
      /\ \A e \in Days : e # t.d => cover'[e] = cover[e]
  BY <1>1, <1>3, <1>6 DEF Covers
<1>9. /\ cover'[t.d] # None /\ cover'[t.d].member = c /\ ~cover'[t.d].swapped
      /\ cover'[t.d].linked = cover[t.d].linked
  BY <1>4, <1>7, <1>8, RowsAreNotNone DEF CoverRow
<1>10. Puts(t.d, c)
  BY <1>1, <1>3, <1>4, <1>8, <1>9 DEF Puts
<1>11. GoesTo(h, after, x.queue, team, x.anchor)
  BY <1>1, <1>2, <1>6, GivingGoesOn
<1> QED
  BY <1>3, <1>10, <1>11, DutyWritten

-----------------------------------------------------------------------------
(* The statements of a run: a day is given, the leave and the slot are     *)
(* marked.                                                                 *)

LEMMA MarkSet ==
  ASSUME NEW h \in Handlers, NEW w, NEW x, MidRun(h, w, x), Marks(h, x), UpdateLeaveStatus(h)
  PROVE  Moves(h, w, x)
<1>1. /\ TodoInv /\ RowsTyped /\ leaves \in LeaveTable /\ w = World /\ Stands(x) /\ SteadyRota
      /\ IsList(x.todo) /\ work[h].todo # <<>> /\ Now(h).do = "status" /\ Then(h, <<>>)
  BY MidRunFacts DEF UpdateLeaveStatus, Doing, Now
<1>2. SameView
  BY <1>1, StatusIsNoMatter DEF SameView, SameLeave
<1>3. PICK d, c, t : /\ x.anchor = [last |-> d, slot |-> SlotOf(team, c)]
                     /\ \/ work[h].todo = Cons(MarkItem(t), Cons(SlotItem(d, c), x.todo))
                        \/ work[h].todo = Cons(SlotItem(d, c), x.todo)
  BY DEF Marks
<1>4. work[h].queue = x.queue /\ work[h].team = team /\ team' = team
  BY <1>2 DEF Marks, SameView
<1> DEFINE rest == Cons(SlotItem(d, c), x.todo)
<1>5. IsList(rest)
  BY <1>1, ConsLists
<1>6. work[h].todo = Cons(MarkItem(t), rest)
  <2>1. CASE work[h].todo = Cons(SlotItem(d, c), x.todo)
    <3>1. Now(h) = SlotItem(d, c)
      BY <1>1, <2>1, ConsLists DEF Now
    <3> QED
      BY <1>1, <3>1 DEF SlotItem
  <2> QED
    BY <1>3, <2>1
<1> HIDE DEF rest
<1>7. Tail(work[h].todo) = rest /\ <<>> \o rest = rest
  BY <1>5, <1>6, ConsLists
<1>8. GoesTo(h, rest, x.queue, team, work[h].anchor)
  <2>1. GoesTo(h, <<>> \o Tail(work[h].todo), work[h].queue, work[h].team, work[h].anchor)
    BY <1>1, ShortLists, ThenTail
  <2> QED
    BY <1>4, <1>7, <2>1
<1>9. Marks(h, x)'
  <2>1. x.anchor = [last |-> d, slot |-> SlotOf(team', c)] /\ work'[h].todo = Cons(SlotItem(d, c), x.todo)
    BY <1>3, <1>4, <1>8 DEF GoesTo, rest
  <2>2. work'[h].queue = x.queue /\ work'[h].team = team'
    BY <1>4, <1>8 DEF GoesTo
  <2>3. SlotItem(d, c)' = SlotItem(d, c)
    BY DEF SlotItem
  <2> QED
    BY <2>1, <2>2, <2>3 DEF Marks
<1> QED
  BY <1>1, <1>2, <1>9, QuietMoves DEF InRun

LEMMA SlotKept ==
  ASSUME NEW h \in Handlers, NEW w, NEW x, MidRun(h, w, x), Marks(h, x), CommitCoverSlot(h)
  PROVE  Moves(h, w, x)
<1>1. /\ WorkOK /\ RowsTyped /\ w = World /\ Stands(x) /\ SteadyRota /\ Reassigning(h)
      /\ IsList(x.todo) /\ work[h].todo # <<>> /\ Now(h).do = "slot"
      /\ UNCHANGED <<team, leaves, orig, cover>>
  BY MidRunFacts DEF CommitCoverSlot, Doing, Now
<1>2. PICK d, c, t : /\ x.anchor = [last |-> d, slot |-> SlotOf(team, c)]
                     /\ \/ work[h].todo = Cons(MarkItem(t), Cons(SlotItem(d, c), x.todo))
                        \/ work[h].todo = Cons(SlotItem(d, c), x.todo)
  BY DEF Marks
<1>3. work[h].queue = x.queue /\ work[h].team = team
  BY DEF Marks
<1>4. work[h].todo = Cons(SlotItem(d, c), x.todo)
  <2> DEFINE rest == Cons(SlotItem(d, c), x.todo)
  <2>1. IsList(rest)
    BY <1>1, ConsLists
  <2> HIDE DEF rest
  <2>2. CASE work[h].todo = Cons(MarkItem(t), rest)
    <3>1. Now(h) = MarkItem(t)
      BY <2>1, <2>2, ConsLists DEF Now
    <3> QED
      BY <1>1, <3>1 DEF MarkItem
  <2> QED
    BY <1>2, <2>2 DEF rest
<1>5. Now(h) = SlotItem(d, c) /\ Tail(work[h].todo) = x.todo
  BY <1>1, <1>4, ConsLists DEF Now
<1>6. SlotPosition(h) = x.anchor
  BY <1>2, <1>3, <1>5 DEF SlotPosition, SlotItem
<1>7. work'[h].queue = x.queue /\ work'[h].todo = x.todo /\ work'[h].team = team' /\ work'[h].anchor = x.anchor
  <2> DEFINE v == [work[h] EXCEPT !.anchor = SlotPosition(h), !.todo = Tail(work[h].todo)]
  <2>1. work' = [work EXCEPT ![h] = v]
    BY <1>1 DEF CommitCoverSlot
  <2>2. /\ work'[h].queue = work[h].queue /\ work'[h].todo = Tail(work[h].todo)
        /\ work'[h].team = work[h].team /\ work'[h].anchor = SlotPosition(h)
    BY <1>1, <2>1, SlotRemembered
  <2> QED
    BY <1>1, <1>3, <1>5, <1>6, <2>2
<1>8. Ready(h, x)'
  BY <1>7 DEF Ready
<1> QED
  BY <1>1, <1>8, SameTables, QuietMoves DEF InRun

\* A run that has no statement left is where x is.
LEMMA RunIsAt ==
  ASSUME NEW h \in Handlers, NEW w, NEW x, MidRun(h, w, x), InRun(h, w, x)
  PROVE  /\ work[h].todo = <<>> => Ready(h, x)
         /\ Marks(h, x) => Now(h).do \in {"status", "slot"}
<1>1. IsList(x.todo)
  BY MidRunFacts
<1>2. ASSUME Marks(h, x)
      PROVE  work[h].todo # <<>> /\ Now(h).do \in {"status", "slot"}
  <2>1. PICK d, c, t : \/ work[h].todo = Cons(MarkItem(t), Cons(SlotItem(d, c), x.todo))
                       \/ work[h].todo = Cons(SlotItem(d, c), x.todo)
    BY <1>2 DEF Marks
  <2>2. IsList(Cons(SlotItem(d, c), x.todo))
    BY <1>1, ConsLists
  <2>3. CASE work[h].todo = Cons(MarkItem(t), Cons(SlotItem(d, c), x.todo))
    <3>1. work[h].todo # <<>> /\ Now(h) = MarkItem(t)
      BY <2>2, <2>3, ConsLists DEF Now
    <3> QED
      BY <3>1 DEF MarkItem
  <2>4. CASE work[h].todo = Cons(SlotItem(d, c), x.todo)
    <3>1. work[h].todo # <<>> /\ Now(h) = SlotItem(d, c)
      BY <1>1, <2>4, ConsLists DEF Now
    <3> QED
      BY <3>1 DEF SlotItem
  <2> QED
    BY <2>1, <2>3, <2>4
<1>3. ASSUME Sweeps(h, x)
      PROVE  work[h].todo # <<>>
  BY <1>3, SweepIs
<1>4. ASSUME Decides(h, w, x)
      PROVE  work[h].todo # <<>>
  <2>1. PICK t, c, rest, after : AtDuty(w, x, t, c, rest, after)
    BY DEF AtDuty
  <2> QED
    BY <1>4, <2>1, DutyIs
<1> QED
  BY <1>2, <1>3, <1>4 DEF InRun

\* A statement of a run leaves it where it was or takes it to the next point.
LEMMA RunMoves ==
  ASSUME NEW h \in Handlers, NEW w, NEW x, MidRun(h, w, x), InRun(h, w, x), Statement(h), ~Reply(h)
  PROVE  Moves(h, w, x)
<1>1. CASE work[h].todo = <<>>
  <2>1. Ready(h, x)
    BY <1>1, RunIsAt
  <2>2. ReassignNext(h)
    BY <1>1 DEF Statement, Doing, BuildLeaveIndex, FindStale, DropCover,
         GetDatesWithAssignments, GetMembers, DeleteAssignmentsInRange, ReadLeaves, PickOriginal,
         DetermineCoveringMember, CommitCoverSlot, InsertOriginal, AdvanceR1, InsertCover, LoadLeave,
         LoadTeam, EnsureOriginalAssignment, ReadOtherLeaves, PickLeaveCover, CreateCoverAssignment,
         RepointCover, UpdateLeaveStatus, HandleLeaveChange, UpdateLeaveRecord, DeleteLeaveRecord
  <2> QED
    BY <2>1, <2>2, LeaveTaken
<1>2. CASE work[h].todo # <<>>
  <2>1. CASE Ready(h, x)
    <3>1. RowsTyped /\ w = World /\ Waits(x) /\ x.todo # <<>> /\ Now(h) = Head(x.todo)
      BY <1>2, <2>1, MidRunFacts DEF Ready, Now
    <3>2. IsDuty(Head(x.todo))
      BY <3>1, NextSnapshots
    <3>3. Now(h).do = "duty"
      BY <3>1, <3>2 DEF IsDuty
    <3> QED
      BY <1>2, <2>1, <3>3, StatementIs, DutyStarts
  <2>2. CASE Sweeps(h, x)
    <3>1. Now(h).do \in {"index", "compare", "drop", "leave", "team"}
      BY <2>2, SweepIs
    <3>2. BuildLeaveIndex(h) \/ FindStale(h) \/ DropCover(h) \/ LoadLeave(h) \/ LoadTeam(h)
      BY <1>2, <3>1, StatementIs
    <3> QED
      BY <2>2, <3>2, IndexBuilt, StaleFound, CoverDropped, LeaveFound, TeamFound
  <2>3. CASE Decides(h, w, x)
    <3>1. PICK t, c, rest, after : AtDuty(w, x, t, c, rest, after)
      BY DEF AtDuty
    <3>2. Now(h).do \in {"away", "turn", "look", "cover", "repoint"}
      BY <2>3, <3>1, DutyIs
    <3>3. \/ ReadOtherLeaves(h) \/ PickLeaveCover(h) \/ CreateCoverAssignment(h)
          \/ InsertCover(h) \/ RepointCover(h)
      BY <1>2, <3>2, StatementIs
    <3> QED
      BY <2>3, <3>3, AwayRead, TurnTaken, CoverLookedUp, CoverPut, CoverPointed
  <2>4. CASE Marks(h, x)
    <3>1. Now(h).do \in {"status", "slot"}
      BY <2>4, RunIsAt
    <3> QED
      BY <1>2, <2>4, <3>1, StatementIs, MarkSet, SlotKept
  <2> QED
    BY <2>1, <2>2, <2>3, <2>4 DEF InRun
<1> QED
  BY <1>1, <1>2

\* It stays the same run.
LEMMA RunLasts ==
  ASSUME TodoInv, NEW h \in Handlers, Statement(h), ~Reply(h)
  PROVE  /\ work'[h].job = work[h].job
         /\ \A g \in Handlers : g # h => work'[g] = work[g]
<1>1. CASE ReassignNext(h)
  BY <1>1, NextLeaveTaken
<1>2. CASE Abort(h)
  BY <1>2, AbortStops, StepsAreApart DEF TodoInv
<1>3. CASE \E S, ms : Continues(h, S, ms)
  BY <1>3 DEF Continues
<1> QED
  BY <1>1, <1>2, <1>3, StatementContinues

-----------------------------------------------------------------------------
(* Two runs in a row: the second comes past the same points as the first.  *)

\* The points H that a run has passed, from the first one on to x.
Trail(w, H, x) ==
  /\ AtFirst(w) \in H /\ x \in H
  /\ \A y \in H : y = x \/ (~AtEnd(y) /\ Following(w, y) \in H)
  /\ \A y \in H : \A d \in Days : y.chosen[d] # None => x.chosen[d] # None

AllIdle == \A g \in Handlers : work[g] = Idle
Alone(h) == work[h].job = "reassign" /\ \A g \in Handlers : g # h => work[g] = Idle

\* The first run: it has passed the points of H and stands at x.
FirstRun(h, w, H, x) ==
  /\ Alone(h) /\ SteadyRota /\ w = World
  /\ Trail(w, H, x) /\ Stands(x) /\ InRun(h, w, x)

\* After a first run that ended at fin with the covers s.  The second one
\* has given the days chosen up to x again, and s is still right elsewhere.
Kept(fin, s) ==
  /\ s = [d \in Days |-> s[d]]
  /\ \A d \in Days :
       /\ cover[d] = None <=> s[d] = None
       /\ fin.chosen[d] # None => cover[d] # None /\ (cover[d].swapped \/ s[d] = fin.chosen[d])

Recalls(x, s) ==
  \A d \in Days : cover[d] # None /\ (cover[d].swapped \/ x.chosen[d] = None) => cover[d].member = s[d]

AllSwept == \A l \in Leaves : leaves[l] # None => IsSwept(l)

After(w, H, fin, s) ==
  /\ SteadyRota /\ AllSwept /\ w = World
  /\ Trail(w, H, fin) /\ AtEnd(fin) /\ Kept(fin, s)

SecondRun(h, w, H, x, s) ==
  Alone(h) /\ x \in H /\ Stands(x) /\ InRun(h, w, x) /\ Recalls(x, s)

Between(s) == AllIdle /\ CoverMembers = s

Unbroken == AllIdle \/ \E h \in Handlers : \E w, H, x : FirstRun(h, w, H, x)

Repeatable(s) ==
  \E w, H, fin : /\ After(w, H, fin, s)
                 /\ Between(s) \/ \E h \in Handlers : \E x : SecondRun(h, w, H, x, s)

\* What holds while a run and its repetition are undisturbed.
SteadyInv ==
  /\ TablesInv /\ faults \in Nat
  /\ steady => Unbroken
  /\ settled # None /\ settled.steady => Repeatable(settled.covers)

\* The next point keeps every choice that was made.
LEMMA FollowingChooses ==
  ASSUME NEW w, NEW x, NEW y, y = Following(w, x), NEW d \in Days, x.chosen[d] # None
  PROVE  y.chosen[d] # None
<1>1. CASE Takes(w, x) /\ x.todo # <<>>
  <2>1. y.chosen = [e \in Days |-> IF e = Head(x.todo).d THEN Chosen(w, x) ELSE x.chosen[e]]
    BY <1>1 DEF Following, Gives
  <2>2. Chosen(w, x) # None
    BY <1>1 DEF Takes
  <2> QED
    BY <2>1, <2>2
<1>2. CASE ~(Takes(w, x) /\ x.todo # <<>>)
  BY <1>2 DEF Following, NextLeave, Passes
<1> QED
  BY <1>1, <1>2

LEMMA TrailGoesOn ==
  ASSUME NEW w, NEW H, NEW x, Trail(w, H, x), ~AtEnd(x), NEW y, y = Following(w, x)
  PROVE  Trail(w, H \cup {y}, y)
<1>1. \A d \in Days : x.chosen[d] # None => y.chosen[d] # None
  BY FollowingChooses
<1>2. AtFirst(w) \in H \cup {y} /\ y \in H \cup {y}
  BY DEF Trail
<1>3. \A z \in H \cup {y} : z = y \/ (~AtEnd(z) /\ Following(w, z) \in H \cup {y})
  BY DEF Trail
<1>4. \A z \in H \cup {y} : \A d \in Days : z.chosen[d] # None => y.chosen[d] # None
  BY <1>1 DEF Trail
<1> QED
  BY <1>2, <1>3, <1>4 DEF Trail

LEMMA TrailStarts ==
  ASSUME NEW w
  PROVE  Trail(w, {AtFirst(w)}, AtFirst(w))
BY DEF Trail

\* The second run passes the points of the first, and ends where it ended.
LEMMA TrailRepeats ==
  ASSUME NEW w, NEW H, NEW fin, Trail(w, H, fin), AtEnd(fin), NEW x \in H
  PROVE  IF AtEnd(x) THEN x = fin ELSE Following(w, x) \in H
BY DEF Trail

-----------------------------------------------------------------------------
(* The start and the end of a run. *)

LEMMA RunStarts ==
  ASSUME TablesInv, NEW h \in Handlers, Reassign(h), NEW w, w = World, NEW x, x = AtFirst(w)
  PROVE  /\ SameView /\ Stands(x) /\ InRun(h, w, x)' /\ work'[h].job = "reassign"
         /\ \A d \in Days : x.chosen[d] = None
<1>1. WorkOK /\ RowsTyped /\ leaves \in LeaveTable /\ UNCHANGED <<team, leaves, orig, cover>>
  BY DEF TablesInv, TodoInv, RowsTyped, Reassign, tables
<1>2. work'[h].job = "reassign" /\ work'[h].todo = <<>> /\ work'[h].queue = Chronological /\ work'[h].anchor = None
  <2>1. PICK queue : queue = Chronological
    OBVIOUS
  <2>2. Begin(h, "reassign", None, <<>>, queue)
    BY <2>1 DEF Reassign
  <2>3. IsList(<<>>)
    BY ShortLists
  <2> QED
    BY <1>1, <2>1, <2>2, <2>3, BeginStarts
<1>3. x.queue = Chronological /\ x.todo = <<>> /\ x.anchor = None /\ x.chosen = [d \in Days |-> None]
  BY DEF AtFirst, World
<1>4. Stands(x)
  <2>1. IsList(Chronological)
    BY <1>1, ListOfLeaves
  <2>2. \A l \in Leaves : leaves[l] # None => \E q \in Range(Chronological) : q.l = l
    BY <1>1, ListOfLeaves
  <2>3. \A r \in Range(Chronological) : IsListed(r)
    <3>1. PICK q : q = Chronological
      OBVIOUS
    <3>2. PICK order : order = OrderOf(leaves)
      OBVIOUS
    <3>3. \A i \in DOMAIN order : order[i] \in LiveIn(leaves)
      BY <1>1, <3>2, LeavesInOrder
    <3>4. q = [i \in DOMAIN order |-> [l |-> order[i], from |-> leaves[order[i]].from, to |-> leaves[order[i]].to]]
      BY <3>1, <3>2, ChronologicalList DEF ListOf
    <3>5. \A i \in DOMAIN q : IsListed(q[i])
      BY <3>3, <3>4 DEF IsListed, LiveIn
    <3> QED
      BY <3>1, <3>5 DEF Range
  <2>4. IsList(<<>>) /\ \A t : t \notin Range(<<>>)
    BY ShortLists, RangesOfShortLists
  <2>5. Waits(x)
    BY <1>3, <2>1, <2>2, <2>3, <2>4 DEF Waits, SweptBut
  <2>6. Covered(x.chosen)
    BY <1>3 DEF Covered
  <2> QED
    BY <2>5, <2>6 DEF Stands
<1>5. Ready(h, x)'
  BY <1>2, <1>3 DEF Ready
<1>6. \A d \in Days : x.chosen[d] = None
  BY <1>3
<1> QED
  BY <1>1, <1>2, <1>4, <1>5, <1>6, SameTables DEF InRun

LEMMA RunEnds ==
  ASSUME NEW h \in Handlers, NEW w, NEW x, MidRun(h, w, x), InRun(h, w, x),
         work[h].todo = <<>>, work[h].queue = <<>>
  PROVE  AtEnd(x) /\ AllSwept
<1>1. Ready(h, x) /\ Waits(x)
  BY RunIsAt, MidRunFacts
<1>2. x.todo = <<>> /\ x.queue = <<>>
  BY <1>1 DEF Ready
<1>3. \A r : r \notin Range(x.queue)
  BY <1>2, RangesOfShortLists
<1> QED
  BY <1>1, <1>2, <1>3 DEF Waits, SweptBut, AtEnd, AllSwept

\* What a run leaves behind.
LEMMA EndIsKept ==
  ASSUME cover \in Covers, NEW fin, Covered(fin.chosen)
  PROVE  Kept(fin, CoverMembers)
<1>1. PICK s : s = CoverMembers
  OBVIOUS
<1>2. s = [d \in Days |-> s[d]] /\ \A d \in Days : s[d] = IF cover[d] = None THEN None ELSE cover[d].member
  BY <1>1 DEF CoverMembers
<1>3. \A d \in Days : cover[d] # None => cover[d].member # None
  BY RotaAssumption DEF Covers, CoverRow
<1>4. Kept(fin, s)
  BY <1>2, <1>3 DEF Kept, Covered
<1> QED
  BY <1>1, <1>4

\* The second run chooses the same covers.
LEMMA RepeatsEqual ==
  ASSUME NEW fin, NEW s, Kept(fin, s), Covered(fin.chosen), Recalls(fin, s)
  PROVE  CoverMembers = s
<1>1. ASSUME NEW d \in Days
      PROVE  s[d] = IF cover[d] = None THEN None ELSE cover[d].member
  <2>1. CASE cover[d] # None /\ (cover[d].swapped \/ fin.chosen[d] = None)
    BY <2>1 DEF Recalls
  <2>2. CASE cover[d] # None /\ ~cover[d].swapped /\ fin.chosen[d] # None
    BY <2>2 DEF Kept, Covered
  <2> QED
    BY <2>1, <2>2 DEF Kept
<1> QED
  BY <1>1 DEF Kept, CoverMembers

-----------------------------------------------------------------------------
(* The steps of the two runs. *)

LEMMA IdleHasNoJob == Idle.job = "none"
BY DEF Idle

LEMMA FirstMoves ==
  ASSUME TablesInv, NEW h \in Handlers, NEW w, NEW H, NEW x, FirstRun(h, w, H, x), Statement(h), ~Reply(h)
  PROVE  \E K, y : FirstRun(h, w, K, y)'
<1>1. TodoInv /\ MidRun(h, w, x) /\ InRun(h, w, x) /\ Alone(h) /\ Trail(w, H, x)
  BY DEF FirstRun, MidRun, TablesInv, Alone
<1>2. Moves(h, w, x)
  BY <1>1, RunMoves
<1>3. PICK y : /\ y = x \/ (y = Following(w, x) /\ ~AtEnd(x))
               /\ Stands(y)' /\ InRun(h, w, y)'
  BY <1>2 DEF Moves
<1>4. World' = w /\ SteadyRota'
  BY <1>2 DEF Moves
<1>5. Alone(h)'
  BY <1>1, RunLasts DEF Alone
<1>6. \E K : Trail(w, K, y)
  BY <1>1, <1>3, TrailGoesOn
<1> QED
  BY <1>3, <1>4, <1>5, <1>6 DEF FirstRun

\* A day's cover after a step of the second run is the one that it kept.
LEMMA ChoicesAreKept ==
  ASSUME NEW fin, NEW s, Kept(fin, s), AllSwept, NEW x, Recalls(x, s), NEW y, Choosing(y),
         \A d \in Days : x.chosen[d] # None => y.chosen[d] # None,
         \A d \in Days : y.chosen[d] # None => fin.chosen[d] # None
  PROVE  Kept(fin, s)' /\ Recalls(y, s)'
<1>1. ASSUME NEW d \in Days
      PROVE  /\ cover'[d] = None <=> s[d] = None
             /\ fin.chosen[d] # None => cover'[d] # None /\ (cover'[d].swapped \/ s[d] = fin.chosen[d])
             /\ cover'[d] # None /\ (cover'[d].swapped \/ y.chosen[d] = None) => cover'[d].member = s[d]
  <2>1. /\ cover[d] = None <=> s[d] = None
        /\ fin.chosen[d] # None => cover[d] # None /\ (cover[d].swapped \/ s[d] = fin.chosen[d])
        /\ cover[d] # None /\ (cover[d].swapped \/ x.chosen[d] = None) => cover[d].member = s[d]
    BY DEF Kept, Recalls
  <2>2. ~(Stale(d) /\ \E l \in Leaves : leaves[l] # None /\ d \in LeaveDays(l))
    BY DEF AllSwept, IsSwept
  <2>3. \/ cover'[d] = cover[d]
        \/ /\ cover[d] = None \/ ~cover[d].swapped
           /\ cover'[d] # None /\ ~cover'[d].swapped /\ y.chosen[d] # None
    BY <2>2 DEF Choosing
  <2>4. CASE cover'[d] = cover[d]
    BY <2>1, <2>4
  <2>5. CASE /\ cover[d] = None \/ ~cover[d].swapped
             /\ cover'[d] # None /\ ~cover'[d].swapped /\ y.chosen[d] # None
    BY <2>1, <2>5
  <2> QED
    BY <2>3, <2>4, <2>5
<1> QED
  BY <1>1 DEF Kept, Recalls

LEMMA SweptStays ==
  ASSUME leaves \in LeaveTable, AllSwept, \A l \in Leaves : SameLeave(l),
         \A d \in Days : Stale(d)' => Stale(d)
  PROVE  AllSwept'
<1>1. \A l \in Leaves : leaves[l] # None => LeaveDays(l)' = LeaveDays(l) /\ LeaveDays(l) \subseteq Days
  BY ListsStay DEF LeaveDays, DayRange
<1>2. \A l \in Leaves : leaves'[l] # None => leaves[l] # None
  BY DEF SameLeave
<1> QED
  BY <1>1, <1>2 DEF AllSwept, IsSwept

LEMMA SecondMoves ==
  ASSUME TablesInv, NEW h \in Handlers, NEW w, NEW H, NEW fin, NEW s, After(w, H, fin, s),
         NEW x, SecondRun(h, w, H, x, s), Statement(h), ~Reply(h)
  PROVE  After(w, H, fin, s)' /\ \E y : SecondRun(h, w, H, y, s)'
<1>1. /\ TodoInv /\ MidRun(h, w, x) /\ InRun(h, w, x) /\ Alone(h) /\ x \in H /\ leaves \in LeaveTable
      /\ Trail(w, H, fin) /\ AtEnd(fin) /\ Kept(fin, s) /\ AllSwept /\ Recalls(x, s)
  BY DEF SecondRun, After, MidRun, TablesInv, Alone, RowsTyped
<1>2. Moves(h, w, x)
  BY <1>1, RunMoves
<1>3. PICK y : /\ y = x \/ (y = Following(w, x) /\ ~AtEnd(x))
               /\ Stands(y)' /\ InRun(h, w, y)' /\ Choosing(y)
  BY <1>2 DEF Moves
<1>4. World' = w /\ SteadyRota' /\ \A l \in Leaves : SameLeave(l)
  BY <1>2 DEF Moves
<1>5. Alone(h)'
  BY <1>1, RunLasts DEF Alone
<1>6. y \in H
  BY <1>1, <1>3, TrailRepeats
<1>7. /\ \A d \in Days : x.chosen[d] # None => y.chosen[d] # None
      /\ \A d \in Days : y.chosen[d] # None => fin.chosen[d] # None
  BY <1>1, <1>3, <1>6, FollowingChooses DEF Trail
<1>8. Kept(fin, s)' /\ Recalls(y, s)'
  BY <1>1, <1>3, <1>7, ChoicesAreKept
<1>9. AllSwept'
  BY <1>1, <1>3, <1>4, SweptStays DEF Choosing
<1>10. After(w, H, fin, s)'
  BY <1>1, <1>4, <1>8, <1>9 DEF After
<1>11. SecondRun(h, w, H, y, s)'
  BY <1>3, <1>5, <1>6, <1>8 DEF SecondRun
<1> QED
  BY <1>10, <1>11

\* What was left behind stays while nothing that it depends on changes.
LEMMA AfterStays ==
  ASSUME leaves \in LeaveTable, SameView, NEW w, NEW H, NEW fin, NEW s, After(w, H, fin, s)
  PROVE  After(w, H, fin, s)' /\ CoverMembers' = CoverMembers
<1>1. w = World /\ SteadyRota /\ AllSwept /\ Kept(fin, s) /\ Trail(w, H, fin) /\ AtEnd(fin)
  BY DEF After
<1>2. cover' = cover /\ \A l \in Leaves : SameLeave(l)
  BY DEF SameView
<1>3. World' = World /\ SteadyRota' /\ \A d \in Days : Stale(d)' <=> Stale(d)
  BY <1>1, ViewStays
<1>4. AllSwept'
  BY <1>1, <1>2, <1>3, SweptStays
<1>5. Kept(fin, s)'
  BY <1>1, <1>2 DEF Kept
<1>6. CoverMembers' = CoverMembers
  BY <1>2 DEF CoverMembers
<1> QED
  BY <1>1, <1>3, <1>4, <1>5, <1>6 DEF After

LEMMA FirstEnds ==
  ASSUME TablesInv, NEW h \in Handlers, NEW w, NEW H, NEW x, FirstRun(h, w, H, x),
         work[h].todo = <<>>, work[h].queue = <<>>
  PROVE  After(w, H, x, CoverMembers)
<1>1. /\ MidRun(h, w, x) /\ InRun(h, w, x) /\ Trail(w, H, x) /\ Stands(x) /\ cover \in Covers
      /\ SteadyRota /\ w = World
  BY DEF FirstRun, MidRun, TablesInv, RowsTyped, Alone
<1>2. AtEnd(x) /\ AllSwept
  BY <1>1, RunEnds
<1>3. Kept(x, CoverMembers)
  BY <1>1, EndIsKept DEF Stands
<1> QED
  BY <1>1, <1>2, <1>3 DEF After

LEMMA SecondEnds ==
  ASSUME TablesInv, NEW h \in Handlers, NEW w, NEW H, NEW fin, NEW s, After(w, H, fin, s),
         NEW x, SecondRun(h, w, H, x, s), work[h].todo = <<>>, work[h].queue = <<>>
  PROVE  CoverMembers = s
<1>1. /\ MidRun(h, w, x) /\ InRun(h, w, x) /\ Trail(w, H, fin) /\ AtEnd(fin) /\ x \in H
      /\ Stands(x) /\ Recalls(x, s) /\ Kept(fin, s)
  BY DEF SecondRun, After, MidRun, TablesInv, Alone
<1>2. AtEnd(x)
  BY <1>1, RunEnds
<1>3. x = fin
  BY <1>1, <1>2, TrailRepeats
<1> QED
  BY <1>1, <1>3, RepeatsEqual DEF Stands

LEMMA FaultsAreCounted ==
  ASSUME faults \in Nat, [Next]_vars
  PROVE  faults' \in Nat
<1>1. ASSUME NEW h \in Handlers, Request(h)
      PROVE  faults' = faults
  <2>1. CASE Reassign(h)
    BY <2>1 DEF Reassign
  <2>2. ASSUME NEW lo \in Days, NEW hi \in Days,
               \/ GenerateDays(h, lo, hi) \/ SwapDays(h, lo, hi)
               \/ \E l \in Leaves, m \in Members :
                    \/ handleLeaveReportPost(h, l, m, lo, hi) \/ handleReportLeave(h, l, m, lo, hi)
                    \/ EditLeave(h, l, m, lo, hi)
        PROVE  faults' = faults
    BY <2>2 DEF GenerateDays, SwapDays, handleLeaveReportPost, handleReportLeave, CreateLeaveRecord, EditLeave
  <2>3. ASSUME NEW l \in Leaves, DeleteLeave(h, l)
        PROVE  faults' = faults
    BY <2>3 DEF DeleteLeave
  <2>4. ASSUME NEW m \in Members, handleTeamPost(h, m) \/ handleAddTeam(h, m) \/ DeleteMember(h, m)
        PROVE  faults' = faults
    BY <2>4 DEF handleTeamPost, handleAddTeam, AddTeamMember, DeleteMember
  <2> QED
    BY <1>1, <2>1, <2>2, <2>3, <2>4 DEF Request
<1>2. ASSUME NEW h \in Handlers, Statement(h)
      PROVE  faults' = faults
  BY <1>2 DEF bounds, Statement, Reply, ReassignNext, BuildLeaveIndex, FindStale, DropCover,
         GetDatesWithAssignments, GetMembers, DeleteAssignmentsInRange, ReadLeaves, PickOriginal,
         DetermineCoveringMember, CommitCoverSlot, InsertOriginal, AdvanceR1, InsertCover, LoadLeave,
         LoadTeam, EnsureOriginalAssignment, ReadOtherLeaves, PickLeaveCover, CreateCoverAssignment,
         RepointCover, UpdateLeaveStatus, HandleLeaveChange, UpdateLeaveRecord, DeleteLeaveRecord
<1>3. ASSUME NEW h \in Handlers, ViewDashboard(h)
      PROVE  faults' = faults
  BY <1>3 DEF ViewDashboard, bounds
<1>4. ASSUME NEW h \in Handlers, Fail(h) \/ Restart(h)
      PROVE  faults' \in Nat
  BY <1>4 DEF Fail, Restart
<1>5. CASE Tick \/ UNCHANGED vars
  BY <1>5 DEF Tick, vars, bounds
<1> QED
  BY <1>1, <1>2, <1>3, <1>4, <1>5 DEF Next

\* What a step of a run that is alone can be.
LEMMA RunAloneIs ==
  ASSUME TablesInv, faults \in Nat, Next, RunAlone
  PROVE  \E h \in Handlers :
           /\ Reassign(h) \/ (Alone(h) /\ Statement(h))
           /\ \A g \in Handlers : g # h => work[g] = Idle /\ work'[g] = Idle
<1>1. PICK h \in Handlers : /\ Reassign(h) \/ work[h].job = "reassign"
                            /\ \A g \in Handlers : g # h => work[g] = Idle /\ work'[g] = Idle
  BY DEF RunAlone
<1>2. TodoInv /\ WorkOK /\ RowsTyped /\ today \in Nat
  BY DEF TablesInv, TodoInv, RowsTyped, Days
<1>3. ASSUME NEW g \in Handlers, ViewDashboard(g) \/ Request(g)
      PROVE  Reassign(h)
  <2>1. PICK job, about, todo, queue : Opens(job, about, todo, queue) /\ Begin(g, job, about, todo, queue)
    BY <1>2, <1>3, RequestsOpenSo
  <2>2. work[g] = Idle /\ job # "none"
    BY <2>1 DEF Begin, Opens
  <2>3. work'[g].job = job
    <3>1. Plain(EnsureSteps)
      BY PlainLists DEF EnsureSteps
    <3>2. IsList(todo)
      BY <2>1, <3>1 DEF Opens, Plain, AboutLeave, Opening
    <3> QED
      BY <1>2, <2>1, <3>2, BeginStarts
  <2>4. g = h
    BY <1>1, <2>2, <2>3, IdleHasNoJob
  <2> QED
    BY <1>1, <2>2, <2>4, IdleHasNoJob
<1>4. ASSUME NEW g \in Handlers, Statement(g)
      PROVE  Alone(h) /\ Statement(h)
  <2>1. work[g] # Idle
    BY <1>2, <1>4, StepsAreApart
  <2>2. g = h /\ ~Reassign(h)
    BY <1>1, <2>1 DEF Reassign, Begin
  <2> QED
    BY <1>1, <1>4, <2>2 DEF Alone
<1>5. ASSUME NEW g \in Handlers, Fail(g) \/ Restart(g)
      PROVE  FALSE
  BY <1>5 DEF Fail, Restart, RunAlone
<1>6. ~Tick
  BY <1>2 DEF Tick, RunAlone
<1> QED
  BY <1>1, <1>3, <1>4, <1>5, <1>6 DEF Next

LEMMA ReplyEnds ==
  ASSUME WorkOK, NEW h \in Handlers, Reply(h)
  PROVE  /\ work[h].todo = <<>> /\ work[h].queue = <<>> /\ work'[h] = Idle
         /\ \A g \in Handlers : g # h => work'[g] = work[g]
         /\ UNCHANGED <<today, faults, team, leaves, orig, cover>>
BY DEF Reply, WorkOK, tables, bounds

\* Nothing happens.
LEMMA RunWaits ==
  ASSUME UNCHANGED <<team, leaves, orig, cover, work>>, NEW h, NEW w, NEW x, InRun(h, w, x)
  PROVE  InRun(h, w, x)'
<1>1. /\ \A l : LeaveDays(l)' = LeaveDays(l) /\ (IsSwept(l)' <=> IsSwept(l))
      /\ \A d : OnLeave(d)' = OnLeave(d) /\ (Stale(d)' <=> Stale(d))
  <2>1. \A d : OnLeave(d)' = OnLeave(d) /\ (Stale(d)' <=> Stale(d))
    BY DEF OnLeave, Stale
  <2>2. \A l : LeaveDays(l)' = LeaveDays(l)
    BY DEF LeaveDays
  <2> QED
    BY <2>1, <2>2 DEF IsSwept
<1>2. Ready(h, x) => Ready(h, x)'
  BY DEF Ready
<1>3. \A q, r : SweepsFor(q, r) => SweepsFor(q, r)'
  <2> TAKE q, r
  <2>1. Dropping(q, r) => Dropping(q, r)'
    BY <1>1 DEF Dropping
  <2>2. [d \in LeaveDays(r.l) |-> OnLeave(d)]' = [d \in LeaveDays(r.l) |-> OnLeave(d)]
    BY <1>1
  <2> QED
    BY <1>1, <2>1, <2>2 DEF SweepsFor
<1>4. Sweeps(h, x) => Sweeps(h, x)'
  BY <1>3 DEF Sweeps
<1>5. \A q : DecidesFor(q, w, x) => DecidesFor(q, w, x)'
  <2>1. \A t, q : Reads(t, q) => Reads(t, q)'
    BY <1>1 DEF Reads
  <2>2. \A t, c, q : Writes(t, c, q) => Writes(t, c, q)'
    BY DEF Writes
  <2> QED
    BY <1>1, <2>1, <2>2 DEF DecidesFor
<1>6. Decides(h, w, x) => Decides(h, w, x)'
  BY <1>5 DEF Decides
<1>7. Marks(h, x) => Marks(h, x)'
  BY DEF Marks, MarkItem, SlotItem
<1> QED
  BY <1>2, <1>4, <1>6, <1>7 DEF InRun

LEMMA SteadyWaits ==
  ASSUME SteadyInv, UNCHANGED historyVars
  PROVE  SteadyInv'
<1>1. /\ UNCHANGED <<team, leaves, orig, cover, work, faults, settled, steady>> /\ [Next]_vars
      /\ TablesInv /\ leaves \in LeaveTable
  BY DEF historyVars, vars, SteadyInv, TablesInv, RowsTyped
<1>2. SameView
  BY <1>1, SameTables
<1>3. TablesInv' /\ faults' \in Nat
  BY <1>1, TablesInductive DEF SteadyInv
<1>4. /\ World' = World
      /\ SteadyRota => SteadyRota'
      /\ \A x : Stands(x) => Stands(x)'
  BY <1>1, <1>2, ViewStays DEF Stands
<1>5. \A h : Alone(h) => Alone(h)'
  BY <1>1 DEF Alone
<1>6. AllIdle => AllIdle'
  BY <1>1 DEF AllIdle
<1>7. \A h, w, x : InRun(h, w, x) => InRun(h, w, x)'
  BY <1>1, RunWaits
<1>8. Unbroken => Unbroken'
  <2>1. \A h, w, H, x : FirstRun(h, w, H, x) => FirstRun(h, w, H, x)'
    BY <1>4, <1>5, <1>7 DEF FirstRun
  <2> QED
    BY <1>6, <2>1 DEF Unbroken
<1>9. ASSUME NEW s, Repeatable(s)
      PROVE  Repeatable(s)'
  <2>1. PICK w, H, fin : /\ After(w, H, fin, s)
                         /\ Between(s) \/ \E h \in Handlers : \E x : SecondRun(h, w, H, x, s)
    BY <1>9 DEF Repeatable
  <2>2. After(w, H, fin, s)' /\ CoverMembers' = CoverMembers
    BY <1>1, <1>2, <2>1, AfterStays
  <2>3. Between(s) => Between(s)'
    BY <1>6, <2>2 DEF Between
  <2>4. \A x : Recalls(x, s) => Recalls(x, s)'
    BY <1>1 DEF Recalls
  <2>5. \A h, x : SecondRun(h, w, H, x, s) => SecondRun(h, w, H, x, s)'
    BY <1>4, <1>5, <1>7, <2>1, <2>4 DEF SecondRun, After
  <2> QED
    BY <2>1, <2>2, <2>3, <2>5 DEF Repeatable
<1> QED
  BY <1>1, <1>3, <1>8, <1>9 DEF SteadyInv

\* A run that went undisturbed from a steady rota on is over.
LEMMA SettledSteadily ==
  ASSUME TablesInv, Unbroken, Settles, NEW s, s = CoverMembers
  PROVE  Repeatable(s)'
<1>1. PICK h \in Handlers : work[h].job = "reassign" /\ Reply(h)
  BY DEF Settles, Done
<1>2. WorkOK /\ leaves \in LeaveTable
  BY DEF TablesInv, TodoInv, RowsTyped
<1>3. /\ work[h].todo = <<>> /\ work[h].queue = <<>> /\ work'[h] = Idle
      /\ \A g \in Handlers : g # h => work'[g] = work[g]
      /\ UNCHANGED <<team, leaves, orig, cover>>
  BY <1>1, <1>2, ReplyEnds
<1>4. PICK w, H, x : FirstRun(h, w, H, x)
  BY <1>1, IdleHasNoJob DEF Unbroken, AllIdle, FirstRun, Alone
<1>5. After(w, H, x, s)
  BY <1>3, <1>4, FirstEnds
<1>6. After(w, H, x, s)' /\ CoverMembers' = s
  BY <1>2, <1>3, <1>5, SameTables, AfterStays
<1>7. AllIdle'
  BY <1>3, <1>4 DEF FirstRun, Alone, AllIdle
<1> QED
  BY <1>6, <1>7 DEF Repeatable, Between

LEMMA RunBegins ==
  ASSUME TablesInv, NEW h \in Handlers, Reassign(h),
         \A g \in Handlers : g # h => work[g] = Idle /\ work'[g] = Idle
  PROVE  /\ Begins /\ ~Settles
         /\ SteadyRota => Unbroken'
         /\ \A s : Repeatable(s) => Repeatable(s)'
<1>1. PICK w, x : w = World /\ x = AtFirst(w)
  OBVIOUS
<1>2. /\ SameView /\ Stands(x) /\ InRun(h, w, x)' /\ work'[h].job = "reassign"
      /\ \A d \in Days : x.chosen[d] = None
  BY <1>1, RunStarts
<1>3. leaves \in LeaveTable /\ work[h] = Idle
  BY DEF TablesInv, RowsTyped, Reassign, Begin
<1>4. World' = w /\ Stands(x)' /\ (SteadyRota => SteadyRota')
  BY <1>1, <1>2, <1>3, ViewStays DEF Stands
<1>5. Alone(h)' /\ AllIdle
  BY <1>2, <1>3 DEF Alone, AllIdle
<1>6. ~Settles
  BY <1>5, IdleHasNoJob DEF Settles, Done, AllIdle
<1>7. ASSUME SteadyRota
      PROVE  Unbroken'
  <2>1. Trail(w, {x}, x)
    BY <1>1, TrailStarts
  <2> QED
    BY <1>2, <1>4, <1>5, <1>7, <2>1 DEF Unbroken, FirstRun
<1>8. ASSUME NEW s, Repeatable(s)
      PROVE  Repeatable(s)'
  <2>1. PICK v, H, fin : /\ After(v, H, fin, s)
                         /\ Between(s) \/ \E g \in Handlers : \E y : SecondRun(g, v, H, y, s)
    BY <1>8 DEF Repeatable
  <2>2. Between(s) /\ v = w /\ x \in H
    BY <1>1, <1>5, <2>1, IdleHasNoJob DEF SecondRun, Alone, AllIdle, After, Trail
  <2>3. After(w, H, fin, s)'
    BY <1>2, <1>3, <2>1, <2>2, AfterStays
  <2>4. Recalls(x, s)'
    <3>1. cover' = cover /\ CoverMembers = s
      BY <1>2, <2>2 DEF SameView, Between
    <3>2. \A d \in Days : cover[d] # None => cover[d].member = s[d]
      BY <3>1 DEF CoverMembers
    <3> QED
      BY <3>1, <3>2 DEF Recalls
  <2>5. SecondRun(h, w, H, x, s)'
    BY <1>2, <1>4, <1>5, <2>2, <2>4 DEF SecondRun
  <2> QED
    BY <2>3, <2>5 DEF Repeatable
<1> QED
  BY <1>6, <1>7, <1>8 DEF Begins

LEMMA RunGoesOn ==
  ASSUME TablesInv, NEW h \in Handlers, Alone(h), Statement(h),
         \A g \in Handlers : g # h => work[g] = Idle /\ work'[g] = Idle
  PROVE  /\ ~Begins
         /\ Unbroken => Unbroken'
         /\ \A s : Repeatable(s) => Repeatable(s)'
<1>1. WorkOK /\ TodoInv /\ leaves \in LeaveTable /\ work[h].job = "reassign" /\ ~AllIdle
  BY IdleHasNoJob DEF TablesInv, TodoInv, RowsTyped, Alone, AllIdle
<1>2. \A g \in Handlers : Alone(g) => g = h
  BY <1>1, IdleHasNoJob DEF Alone
<1>3. ~Begins
  <2> SUFFICES ASSUME NEW g \in Handlers, Reassign(g)
               PROVE  FALSE
    BY DEF Begins
  <2>1. PICK w, x : w = World /\ x = AtFirst(w)
    OBVIOUS
  <2>2. work[g] = Idle /\ work'[g].job = "reassign"
    BY <2>1, RunStarts DEF Reassign, Begin
  <2> QED
    BY <1>1, <2>2, IdleHasNoJob
<1>4. ASSUME Reply(h)
      PROVE  /\ AllIdle' /\ UNCHANGED <<team, leaves, orig, cover>>
             /\ work[h].todo = <<>> /\ work[h].queue = <<>>
  BY <1>1, <1>4, ReplyEnds DEF AllIdle
<1>5. ASSUME Unbroken
      PROVE  Unbroken'
  <2>1. PICK w, H, x : FirstRun(h, w, H, x)
    BY <1>1, <1>2, <1>5 DEF Unbroken, FirstRun
  <2>2. ~Reply(h) => \E K, y : FirstRun(h, w, K, y)'
    BY <2>1, FirstMoves
  <2> QED
    BY <1>4, <2>2 DEF Unbroken
<1>6. ASSUME NEW s, Repeatable(s)
      PROVE  Repeatable(s)'
  <2>1. PICK w, H, fin : /\ After(w, H, fin, s)
                         /\ Between(s) \/ \E g \in Handlers : \E x : SecondRun(g, w, H, x, s)
    BY <1>6 DEF Repeatable
  <2>2. PICK x : SecondRun(h, w, H, x, s)
    BY <1>1, <1>2, <2>1 DEF Between, SecondRun
  <2>3. CASE Reply(h)
    <3>1. CoverMembers = s
      BY <1>4, <2>1, <2>2, <2>3, SecondEnds
    <3>2. After(w, H, fin, s)' /\ CoverMembers' = CoverMembers
      BY <1>1, <1>4, <2>1, <2>3, SameTables, AfterStays
    <3> QED
      BY <1>4, <2>3, <3>1, <3>2 DEF Repeatable, Between
  <2>4. CASE ~Reply(h)
    <3>1. After(w, H, fin, s)' /\ \E y : SecondRun(h, w, H, y, s)'
      BY <2>1, <2>2, <2>4, SecondMoves
    <3> QED
      BY <3>1 DEF Repeatable
  <2> QED
    BY <2>3, <2>4
<1> QED
  BY <1>3, <1>5, <1>6

LEMMA SteadyInductive ==
  ASSUME SteadyInv, [NextHistory]_historyVars
  PROVE  SteadyInv'
<1>1. CASE UNCHANGED historyVars
  BY <1>1, SteadyWaits
<1>2. CASE NextHistory
  <2>1. TablesInv /\ faults \in Nat /\ (steady => Unbroken) /\ Next /\ History
    BY <1>2 DEF SteadyInv, NextHistory
  <2>2. TablesInv' /\ faults' \in Nat
    BY <2>1, TablesInductive, FaultsAreCounted
  <2>3. /\ steady' => RunAlone /\ IF Begins THEN SteadyRota ELSE steady
        /\ settled' = IF Settles THEN [covers |-> CoverMembers, steady |-> steady]
                      ELSE IF RunAlone THEN settled ELSE None
    BY <2>1, Zenon DEF History
  <2>4. ASSUME RunAlone
        PROVE  /\ (IF Begins THEN SteadyRota ELSE steady) => Unbroken'
               /\ ~Settles => \A s : Repeatable(s) => Repeatable(s)'
    <3>1. PICK h \in Handlers :
            /\ Reassign(h) \/ (Alone(h) /\ Statement(h))
            /\ \A g \in Handlers : g # h => work[g] = Idle /\ work'[g] = Idle
      BY <2>1, <2>4, RunAloneIs
    <3>2. CASE Reassign(h)
      BY <2>1, <3>1, <3>2, RunBegins
    <3>3. CASE Alone(h) /\ Statement(h)
      BY <2>1, <3>1, <3>3, RunGoesOn
    <3> QED
      BY <3>1, <3>2, <3>3
  <2>5. ASSUME settled' # None, settled'.steady
        PROVE  Repeatable(settled.covers)'
    <3>1. PICK s : s = settled'.covers
      OBVIOUS
    <3>2. CASE Settles
      <4>1. steady /\ s = CoverMembers
        BY <2>3, <2>5, <3>1, <3>2, Zenon
      <4> QED
        BY <2>1, <3>1, <3>2, <4>1, SettledSteadily
    <3>3. CASE ~Settles
      <4>1. settled' = settled /\ RunAlone
        BY <2>3, <2>5, <3>3
      <4>2. Repeatable(s)
        BY <2>5, <3>1, <4>1 DEF SteadyInv
      <4> QED
        BY <2>4, <3>1, <3>3, <4>1, <4>2
    <3> QED
      BY <3>2, <3>3
  <2> QED
    BY <2>2, <2>3, <2>4, <2>5 DEF SteadyInv
<1> QED
  BY <1>1, <1>2

LEMMA SteadyIsRepeated ==
  ASSUME SteadyInv
  PROVE  SteadyReassignIsIdempotent
<1> SUFFICES ASSUME NEW h \in Handlers, Done(h, {"reassign"}), settled # None, settled.steady
             PROVE  settled.covers = CoverMembers
  BY DEF SteadyReassignIsIdempotent
<1>1. PICK s : s = settled.covers
  OBVIOUS
<1>2. TablesInv /\ Repeatable(s) /\ work[h].job = "reassign" /\ work[h].todo = <<>> /\ work[h].queue = <<>>
  BY <1>1 DEF SteadyInv, Done
<1>3. PICK w, H, fin : /\ After(w, H, fin, s)
                       /\ Between(s) \/ \E g \in Handlers : \E x : SecondRun(g, w, H, x, s)
  BY <1>2 DEF Repeatable
<1>4. PICK x : SecondRun(h, w, H, x, s)
  BY <1>2, <1>3, IdleHasNoJob DEF Between, AllIdle, SecondRun, Alone
<1> QED
  BY <1>1, <1>2, <1>3, <1>4, SecondEnds

-----------------------------------------------------------------------------
(* A repeated reassignment changes nothing.  When a run of ReassignCovers, *)
(* undisturbed from a steady rota on, is followed by another with nothing  *)
(* in between, the second ends with the same covers, for every team,       *)
(* calendar and set of leaves, with leaves that share days, although it    *)
(* starts from other covers and walks the leaves from no position.         *)
THEOREM SteadyReassignmentsRepeat == SpecHistory => []SteadyReassignIsIdempotent
<1>1. InitHistory => SteadyInv
  <2> SUFFICES ASSUME InitHistory PROVE SteadyInv
    OBVIOUS
  <2>1. TablesInv
    BY TablesAtFirst DEF InitHistory
  <2> QED
    BY <2>1 DEF InitHistory, Init, SteadyInv
<1>2. SteadyInv /\ [NextHistory]_historyVars => SteadyInv'
  BY SteadyInductive
<1>3. SteadyInv => SteadyReassignIsIdempotent
  BY SteadyIsRepeated
<1> QED
  BY <1>1, <1>2, <1>3, PTL DEF SpecHistory

=============================================================================
