------------------------------ MODULE Holiday ------------------------------
(***************************************************************************)
(* The holiday service (internal/holiday): a scheduler fetches the holidays*)
(* of every configured feed at the start, every day and when an            *)
(* administrator asks, each time in a goroutine of its own, and replaces   *)
(* the dates in the store.  The store is what the rota asks for holidays.  *)
(*                                                                         *)
(* purpose says who made the service: the server, or the reassignment of   *)
(* covers (cmd/root.go), which makes one for itself, asks it about the days*)
(* of every leave and stops it.                                            *)
(***************************************************************************)
EXTENDS Naturals, FiniteSets

CONSTANTS
  Feeds,       \* the URLs
  Dates,       \* dates a feed may publish, all inside the accepted years
  LeaveDays,   \* days of the leaves that the reassignment looks at
  Fetches,     \* goroutines that can fetch at the same time
  MaxChanges,  \* times a feed changes, or goes down or up
  MaxRefreshes,
  Purposes

ASSUME HolidayAssumption ==
  /\ Feeds # {} /\ {MaxChanges, MaxRefreshes} \subseteq Nat /\ LeaveDays \subseteq Dates
  /\ Purposes \subseteq {"server", "reassign"} /\ Purposes # {}

VARIABLES
  published,   \* the dates of each feed
  reachable,   \* the feeds that answer
  changes, refreshes,
  purpose,
  service,     \* "off", "running", "stopping" (Stop waits), "stopped"
  fetch,       \* what each goroutine does
  store,       \* the dates in the store
  looked, covered   \* days the reassignment has looked at, and those it gave a cover

holidayVars ==
  <<published, reachable, changes, refreshes, purpose, service, fetch, store, looked, covered>>
world == <<published, reachable, changes, refreshes>>
reassignment == <<looked, covered>>

NoFetch == [at |-> "none"]
Fetching(i, stage) == fetch[i].at = stage

-----------------------------------------------------------------------------
(* The scheduler *)
Spawn(i, ctx) == fetch' = [fetch EXCEPT ![i] = [at |-> "run", ctx |-> ctx]]

InitializeHolidayService ==
  /\ service = "off" /\ service' = "running"
  /\ \E i \in Fetches : Spawn(i, "background")
  /\ UNCHANGED <<world, purpose, store, reassignment>>

periodicFetch ==
  /\ service = "running"
  /\ \E i \in Fetches : Fetching(i, "none") /\ Spawn(i, "background")
  /\ UNCHANGED <<world, purpose, service, store, reassignment>>

\* An administrator's refresh sees the scheduler running, and starts the goroutine
\* afterwards.
handleRefreshHolidays ==
  /\ purpose = "server" /\ service = "running"
  /\ refreshes < MaxRefreshes /\ refreshes' = refreshes + 1
  /\ \E i \in Fetches : Fetching(i, "none") /\ fetch' = [fetch EXCEPT ![i].at = "asked"]
  /\ UNCHANGED <<published, reachable, changes, purpose, service, store, reassignment>>

ForceFetch(i) ==
  /\ Fetching(i, "asked") /\ Spawn(i, "request")
  /\ UNCHANGED <<world, purpose, service, store, reassignment>>

\* The goroutine has the context of the request, and the request is over.
RequestEnds(i) ==
  /\ fetch[i].at \in {"run", "get"} /\ fetch[i].ctx = "request"
  /\ fetch' = [fetch EXCEPT ![i].ctx = "cancelled"]
  /\ UNCHANGED <<world, purpose, service, store, reassignment>>

\* Mutation: the goroutine does not look again.
RunAnyway == TRUE
StillRunning == service = "running"

runFetch(i) ==
  /\ Fetching(i, "run")
  /\ fetch' = [fetch EXCEPT ![i] =
       IF StillRunning
       THEN [at |-> "get", ctx |-> @.ctx, todo |-> Feeds, got |-> {}, failed |-> FALSE]
       ELSE NoFetch]
  /\ UNCHANGED <<world, purpose, service, store, reassignment>>

\* A feed without a single event counts as an error.
FetchAndParse(i) ==
  /\ Fetching(i, "get")
  /\ \E f \in fetch[i].todo :
       LET ok == f \in reachable /\ fetch[i].ctx # "cancelled" /\ published[f] # {}
       IN fetch' = [fetch EXCEPT ![i].todo = @ \ {f},
                                 ![i].got = IF ok THEN @ \cup published[f] ELSE @,
                                 ![i].failed = @ \/ ~ok]
  /\ UNCHANGED <<world, purpose, service, store, reassignment>>

\* Mutation: the map is not made anew.
AddHolidays(dates) == store \cup dates
UpdateHolidays(dates) == dates

\* A partial success is stored too, without the dates of the feeds that failed.
FetchMultiple(i) ==
  /\ Fetching(i, "get") /\ fetch[i].todo = {}
  /\ store' = IF fetch[i].failed /\ fetch[i].got = {} THEN store ELSE UpdateHolidays(fetch[i].got)
  /\ fetch' = [fetch EXCEPT ![i] = NoFetch]
  /\ UNCHANGED <<world, purpose, service, reassignment>>

Stop ==
  /\ service = "running" /\ (purpose = "reassign" => looked = LeaveDays)
  /\ service' = "stopping"
  /\ UNCHANGED <<world, purpose, fetch, store, reassignment>>

\* A refresh that has not started its goroutine yet is not waited for.
StopReturns ==
  /\ service = "stopping" /\ \A i \in Fetches : fetch[i].at \in {"none", "asked"}
  /\ service' = "stopped"
  /\ UNCHANGED <<world, purpose, fetch, store, reassignment>>

-----------------------------------------------------------------------------
IsHoliday(d) == d \in store

\* One day of a leave: no cover is looked for on a holiday.
ReassignDay ==
  /\ purpose = "reassign" /\ service = "running"
  /\ \E d \in LeaveDays \ looked :
       /\ looked' = looked \cup {d}
       /\ covered' = IF IsHoliday(d) THEN covered ELSE covered \cup {d}
  /\ UNCHANGED <<world, purpose, service, fetch, store>>

\* The feeds are other people's.
Change ==
  /\ changes < MaxChanges /\ changes' = changes + 1
  /\ \E f \in Feeds :
       \/ /\ \E dates \in SUBSET Dates \ {{}} : published' = [published EXCEPT ![f] = dates]
          /\ UNCHANGED reachable
       \/ /\ reachable' = IF f \in reachable THEN reachable \ {f} ELSE reachable \cup {f}
          /\ UNCHANGED published
  /\ UNCHANGED <<refreshes, purpose, service, fetch, store, reassignment>>

HolidayInit ==
  /\ published \in [Feeds -> SUBSET Dates \ {{}}] /\ reachable = Feeds /\ changes = 0 /\ refreshes = 0
  /\ purpose \in Purposes /\ service = "off"
  /\ fetch = [i \in Fetches |-> NoFetch]
  /\ store = {} /\ looked = {} /\ covered = {}

FetchStep(i) == ForceFetch(i) \/ runFetch(i) \/ FetchAndParse(i) \/ FetchMultiple(i)

HolidayNext ==
  \/ InitializeHolidayService \/ periodicFetch \/ handleRefreshHolidays
  \/ \E i \in Fetches : FetchStep(i) \/ RequestEnds(i)
  \/ Stop \/ StopReturns \/ ReassignDay \/ Change

\* Requests time out, so every goroutine goes on; the ticker fires every day.
HolidayFairness ==
  /\ \A i \in Fetches : WF_holidayVars(FetchStep(i))
  /\ WF_holidayVars(periodicFetch)

HolidaySpec == HolidayInit /\ [][HolidayNext]_holidayVars /\ HolidayFairness

-----------------------------------------------------------------------------
HolidayTypeOK ==
  /\ published \in [Feeds -> SUBSET Dates] /\ reachable \subseteq Feeds /\ changes \in 0..MaxChanges
  /\ refreshes \in 0..MaxRefreshes
  /\ service \in {"off", "running", "stopping", "stopped"} /\ store \subseteq Dates
  /\ \A i \in Fetches : fetch[i].at \in {"none", "asked", "run", "get"}
  /\ covered \subseteq looked /\ looked \subseteq LeaveDays

\* scheduler.go:75 Stop "gracefully stops": once it has returned, no goroutine that
\* was started or asked for changes the store any more.
QuietAfterStop == [][service = "stopped" => store' = store]_holidayVars

\* scheduler.go:93-124: once the feeds stay up and administrators stop refreshing, the
\* store comes to hold exactly what the feeds publish, in spite of fetches that
\* overlapped, failed or were cancelled before.
FeedsArrive ==
  <>[](service = "running" /\ reachable = Feeds)
    => <>[](store = UNION {published[f] : f \in Feeds})

=============================================================================
