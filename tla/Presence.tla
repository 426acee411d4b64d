------------------------------ MODULE Presence ------------------------------
(***************************************************************************)
(* Where everybody is today, as three pages tell it: the dashboard (web/   *)
(* dashboard*.go: the viewer's own badge, the banner of the hat, the       *)
(* matrix of the team), a calendar snapshot (calendar/presence.go) and GET *)
(* /presence/today (api/handlers_presence.go).  Each is put together from  *)
(* several queries without a transaction, and each has its own rules for   *)
(* leave, contracts, withdrawn days and covers.  Today is a working day.   *)
(* A query that fails ends a snapshot and an answer of the API; the        *)
(* dashboard goes on without it.  The rows are those of Wfh and Rota,      *)
(* which have the actions on them.                                         *)
(***************************************************************************)
EXTENDS Naturals, FiniteSets

CONSTANTS
  Colleagues,   \* team members
  Contract,     \* those with a contract to work from home on this weekday
  Nobody,
  MaxNews,      \* bounds: what happens besides, and queries of the dashboard that fail,
  MaxPages      \* pages asked for

ASSUME PresenceAssumption ==
  /\ IsFiniteSet(Colleagues) /\ Contract \subseteq Colleagues
  /\ Nobody \notin Colleagues /\ {MaxNews, MaxPages} \subseteq Nat

VARIABLES
  roster,       \* active members
  onLeave,      \* with a leave over today; no status but pending and assigned is ever stored
  wfhRow,       \* today's row of wfh_requests, by member
  hat,          \* today's original, its cover, and whether the cover refers to an original
  news,         \* how often any of these changed, a contract put into a row excepted
  shown         \* by page: where its handler is and what it has put on the page

presenceVars == <<roster, onLeave, wfhRow, hat, news, shown>>
worldVars == <<roster, onLeave, wfhRow, hat, news>>

\* "assigned": approved, by the picker or a swap.  "no": pending, denied, cancelled,
\* withdrawn, which the pages treat alike.
RowStates == {"none", "approved", "assigned", "no"}
Approved == {m \in Colleagues : wfhRow[m] \in {"approved", "assigned"}}
Hats == {h \in [primary : Colleagues \cup {Nobody}, cover : Colleagues \cup {Nobody}, linked : BOOLEAN] :
           h.linked => h.primary # Nobody /\ h.cover # Nobody}
NoHat == [primary |-> Nobody, cover |-> Nobody, linked |-> FALSE]
Pages == {"dashboard", "calendar", "api"}

\* What was found goes over what the page had.
Over(found, page) ==
  [k \in DOMAIN found \cup DOMAIN page |-> IF k \in DOMAIN found THEN found[k] ELSE page[k]]

\* The handler of page p does the next of its queries and keeps what it found.
Reads(p, here, next, found) ==
  /\ shown[p].at = here
  /\ shown' = [shown EXCEPT ![p] = Over([at |-> next], Over(found, @))]

\* The queries of the dashboard that failed, by the step that made them.
Failed == IF shown["dashboard"].at = "idle" THEN {} ELSE shown["dashboard"].failed
MoreHappens == news + Cardinality(Failed) < MaxNews

MayOpen == Cardinality({p \in Pages : shown[p].at # "idle"}) < MaxPages

\* How a page begins and what it notes with its last query: which news it knows.
Opened(found) == Over([since |-> news, opened |-> news], found)
Closed(found) == Over([till |-> news], found)

-----------------------------------------------------------------------------
(* The dashboard.  It passes over the error of a query and goes on with what the page  *)
(* has without it; only EnsureSchedule ends it.                                         *)
GoesOn(here, next, without) ==
  /\ MoreHappens
  /\ Reads("dashboard", here, next, Over([failed |-> Failed \cup {here}], without))

Asks(here, next, found, without) ==
  Reads("dashboard", here, next, found) \/ GoesOn(here, next, without)

\* GetMemberByEmail knows inactive members too.  Whose leave is not known has none.
buildUserLeaveDates ==
  /\ MayOpen
  /\ \E m \in Colleagues :
       LET opened(away, failed) ==
             Reads("dashboard", "idle", "badge",
                   Opened([user |-> m, away |-> away, failed |-> failed]))
       IN opened(m \in onLeave, {}) \/ (MoreHappens /\ opened(FALSE, {"leave"}))
  /\ UNCHANGED worldVars

\* An account that is no member's, or whose member is not found, has none of this.
noMember ==
  /\ MayOpen
  /\ Reads("dashboard", "idle", "ensure",
           Opened([user |-> Nobody, away |-> FALSE, failed |-> {}, duty |-> FALSE,
                   canSignal |-> FALSE, status |-> "none"]))
  /\ UNCHANGED worldVars

\* The viewer wears the hat or covers: whoever is on leave is not on call.
HasHATDay ==
  /\ LET d == shown["dashboard"]
     IN Asks("badge", "button", [duty |-> d.user \in {hat.primary, hat.cover} /\ ~d.away],
             [duty |-> FALSE])
  /\ UNCHANGED worldVars

\* The button "I'm coming in today"; assigned days are not given up like this.
loadSignalOnSiteOptions ==
  /\ Asks("button", "status", [canSignal |-> wfhRow[shown["dashboard"].user] = "approved"],
          [canSignal |-> FALSE])
  /\ UNCHANGED worldVars

\* Without the rows the contract decides.
loadCurrentUserPresenceStatus ==
  /\ LET m == shown["dashboard"].user
         badge(atHome) == [status |-> IF shown["dashboard"].away THEN "away"
                                      ELSE IF atHome THEN "wfh" ELSE "onsite"]
     IN Asks("status", "ensure",
             badge(m \in Approved \/ (wfhRow[m] = "none" /\ m \in Contract)),
             badge(m \in Contract))
  /\ UNCHANGED worldVars

\* A cover for somebody who is not on leave goes.
reconcileCovers(h) ==
  {IF h.linked /\ h.primary \notin onLeave THEN [h EXCEPT !.cover = Nobody, !.linked = FALSE] ELSE h}

\* A day with no assignment gets one, and a cover if need be (Rota has the turns).
GenerateMissingDays(h) ==
  IF h.primary # Nobody \/ h.cover # Nobody THEN {h}
  ELSE {g \in Hats : /\ g.primary \in roster
                     /\ g.linked = (g.cover # Nobody)
                     /\ g.cover # Nobody => /\ g.primary \in onLeave
                                            /\ g.cover \in roster \ onLeave}

\* The dashboard goes on from its own changes, not from anybody else's.
EnsureSchedule ==
  /\ roster # {}
  /\ \E h \in reconcileCovers(hat) : hat' \in GenerateMissingDays(h)
  /\ news' = IF hat' = hat THEN news ELSE news + 1
  /\ LET since == shown["dashboard"].since
     IN Reads("dashboard", "ensure", "banner",
              [since |-> IF since = news THEN news' ELSE since])
  /\ UNCHANGED <<roster, onLeave, wfhRow>>

\* No original, no banner.
loadCurrentHAT ==
  /\ \/ Reads("dashboard", "banner", "onCall", [duties |-> hat])
     \/ GoesOn("banner", "team", [duties |-> NoHat, banner |-> Nobody])
  /\ UNCHANGED worldVars

\* Whose leave is not known has none; whose name is not found gets no banner.
isPrimaryOnLeaveToday ==
  /\ LET d == shown["dashboard"]
     IN \/ Asks("onCall", "team",
                [banner |-> IF d.duties.primary \in onLeave /\ d.duties.cover # Nobody
                            THEN d.duties.cover ELSE d.duties.primary],
                [banner |-> d.duties.primary])
        \/ GoesOn("onCall", "team", [banner |-> Nobody])
  /\ UNCHANGED worldVars

\* The team, the leave and the rows: without them there is no matrix.
NoMatrix == Closed([team |-> {}, absent |-> {}, atHome |-> {}, onSite |-> {}, assigned |-> Nobody])

getUpcomingPresenceFrom ==
  /\ Reads("dashboard", "team", "assigned", [team |-> roster]) \/ GoesOn("team", "done", NoMatrix)
  /\ UNCHANGED worldVars

\* Whoever of the day's rows is active, the cover first.
OnCall(team) ==
  IF hat.cover \in team THEN hat.cover
  ELSE IF hat.primary \in team THEN hat.primary ELSE Nobody

getAssignedMember ==
  /\ Asks("assigned", "absent", [assigned |-> OnCall(shown["dashboard"].team)],
          [assigned |-> Nobody])
  /\ UNCHANGED worldVars

\* Leave of members who are not in the team read before is passed over.
GetLeaveByDate ==
  /\ \/ Reads("dashboard", "absent", "rows", [absent |-> onLeave \cap shown["dashboard"].team])
     \/ GoesOn("absent", "done", NoMatrix)
  /\ UNCHANGED worldVars

\* Mutation: the contract wins over a day the member withdrew.
ContractWins(team) == Approved \cup (Contract \cap team)

\* A row that says no wins over the contract.
wfhMemberIDs(team) ==
  Approved \cup {m \in Contract \cap team : wfhRow[m] = "none"}

\* Of the active members who are not on leave.
buildPresenceList ==
  /\ LET d == shown["dashboard"]
         present == d.team \ d.absent
     IN \/ Reads("dashboard", "rows", "done",
                 Closed([atHome |-> present \cap wfhMemberIDs(d.team),
                         onSite |-> present \ wfhMemberIDs(d.team)]))
        \/ GoesOn("rows", "done", NoMatrix)
  /\ UNCHANGED worldVars

\* buildScheduleMatrix: a member's cell in today's column.
cell(d, m) ==
  IF m \in d.absent THEN "away"
  ELSE IF m \in d.atHome THEN "wfh" ELSE IF m \in d.onSite THEN "onsite" ELSE "none"

-----------------------------------------------------------------------------
(* A calendar snapshot *)
\* Contracts become rows where there is none (Wfh has the single statements).
materializeRecurring ==
  /\ MayOpen
  /\ Reads("calendar", "idle", "pick", [since |-> news, opened |-> news])
  /\ wfhRow' = [m \in Colleagues |-> IF m \in Contract \cap roster /\ wfhRow[m] = "none"
                                     THEN "approved" ELSE wfhRow[m]]
  /\ UNCHANGED <<roster, onLeave, hat, news>>

\* The picker may send home members who have no row (Wfh says whom).
RefreshFor ==
  /\ \E picks \in SUBSET {m \in roster \ onLeave : wfhRow[m] = "none"} :
       /\ wfhRow' = [m \in Colleagues |-> IF m \in picks THEN "assigned" ELSE wfhRow[m]]
       /\ news' = IF picks = {} THEN news ELSE news + 1
  /\ LET since == shown["calendar"].since
     IN Reads("calendar", "pick", "active", [since |-> IF since = news THEN news' ELSE since])
  /\ UNCHANGED <<roster, onLeave, hat>>

loadActive ==
  /\ Reads("calendar", "active", "leave", [team |-> roster])
  /\ UNCHANGED worldVars

loadLeave ==
  /\ Reads("calendar", "leave", "rows", [absent |-> onLeave])
  /\ UNCHANGED worldVars

\* Approved rows only.
splitActiveByFlags ==
  /\ LET c == shown["calendar"]
     IN Reads("calendar", "rows", "hat",
              [absent |-> c.team \cap c.absent,
               atHome |-> (c.team \ c.absent) \cap Approved,
               onSite |-> (c.team \ c.absent) \ Approved])
  /\ UNCHANGED worldVars

\* The cover first, active or not.
getHATForDate ==
  /\ Reads("calendar", "hat", "done",
           Closed([assigned |-> IF hat.cover # Nobody THEN hat.cover ELSE hat.primary]))
  /\ UNCHANGED worldVars

-----------------------------------------------------------------------------
(* GET /presence/today *)
handleGetPresenceToday ==
  /\ MayOpen
  /\ Reads("api", "idle", "leave", Opened([team |-> roster]))
  /\ UNCHANGED worldVars

apiLeave ==
  /\ Reads("api", "leave", "rows", [absent |-> onLeave \cap shown["api"].team])
  /\ UNCHANGED worldVars

\* A member on leave with an approved row is in two lists; the contract is looked at
\* whatever the row says.
buildPresenceListsWithWFH ==
  /\ LET mine == shown["api"]
         remote == (Approved \cap mine.team) \cup ((Contract \cap mine.team) \ mine.absent)
     IN Reads("api", "rows", "hat",
              [atHome |-> remote, onSite |-> mine.team \ (mine.absent \cup remote)])
  /\ UNCHANGED worldVars

selectSupportMember ==
  /\ Reads("api", "hat", "done", Closed([assigned |-> OnCall(shown["api"].team)]))
  /\ UNCHANGED worldVars

-----------------------------------------------------------------------------
\* Leave, requests, administrators; a swap moves the original or a removal deletes it,
\* a cover is made, moved or dropped.
News ==
  /\ MoreHappens /\ news' = news + 1
  /\ \/ \E m \in Colleagues :
          /\ onLeave' = IF m \in onLeave THEN onLeave \ {m} ELSE onLeave \cup {m}
          /\ UNCHANGED <<roster, wfhRow, hat>>
     \/ \E m \in Colleagues, s \in RowStates \ {"none"} :
          /\ s # wfhRow[m] /\ wfhRow' = [wfhRow EXCEPT ![m] = s]
          /\ UNCHANGED <<roster, onLeave, hat>>
     \/ \E m \in Colleagues :
          /\ roster' = IF m \in roster THEN roster \ {m} ELSE roster \cup {m}
          /\ UNCHANGED <<onLeave, wfhRow, hat>>
     \/ \E p \in (Colleagues \cup {Nobody}) \ {hat.primary} :
          /\ hat' = [hat EXCEPT !.primary = p, !.linked = @ /\ p # Nobody]
          /\ UNCHANGED <<roster, onLeave, wfhRow>>
     \/ \E c \in (Colleagues \cup {Nobody}) \ {hat.cover, hat.primary} :
          /\ hat.primary # Nobody /\ hat' = [hat EXCEPT !.cover = c, !.linked = c # Nobody]
          /\ UNCHANGED <<roster, onLeave, wfhRow>>
  /\ UNCHANGED shown

PresenceInit ==
  /\ roster = Colleagues /\ onLeave = {} /\ news = 0
  /\ wfhRow = [m \in Colleagues |-> "none"]
  /\ hat \in {h \in Hats : h.primary # Nobody /\ h.cover = Nobody}
  /\ shown = [p \in Pages |-> [at |-> "idle"]]

PresenceNext ==
  \/ buildUserLeaveDates \/ noMember \/ HasHATDay \/ loadSignalOnSiteOptions
  \/ loadCurrentUserPresenceStatus \/ EnsureSchedule \/ loadCurrentHAT
  \/ isPrimaryOnLeaveToday \/ getUpcomingPresenceFrom \/ getAssignedMember
  \/ GetLeaveByDate \/ buildPresenceList
  \/ materializeRecurring \/ RefreshFor \/ loadActive \/ loadLeave
  \/ splitActiveByFlags \/ getHATForDate
  \/ handleGetPresenceToday \/ apiLeave \/ buildPresenceListsWithWFH \/ selectSupportMember
  \/ News

PresenceSpec == PresenceInit /\ [][PresenceNext]_presenceVars

-----------------------------------------------------------------------------
PresenceTypeOK ==
  /\ roster \subseteq Colleagues /\ onLeave \subseteq Colleagues
  /\ wfhRow \in [Colleagues -> RowStates] /\ hat \in Hats
  \* The dashboard and the picker add one each.
  /\ news \in 0..(MaxNews + 2)
  /\ DOMAIN shown = Pages

Done(p) == shown[p].at = "done"
\* Nothing happened between its first and its last query.
Undisturbed(p) == Done(p) /\ shown[p].since = shown[p].till
\* Both saw the same day.
SameDay(p, q) == Undisturbed(p) /\ Undisturbed(q) /\ shown[p].since = shown[q].since

\* The dashboard with itself: the badge stands where the matrix has the viewer, and the
\* button shows only to who is not in the office anyway.  Unless the rota lost the
\* original of a cover, the banner names the one the matrix marks, and who has the
\* badge of the hat is that one (unless this very page has just repaired the rota).
\* Each of these needs no more than the queries it names; the button needs none.
Known(d, queries) == d.failed \cap queries = {}
HasMatrix(d) == Known(d, {"team", "absent", "rows"})
DashboardIsConsistent(d) ==
  /\ d.user \in d.team /\ Known(d, {"leave", "status"}) => d.status = cell(d, d.user)
  /\ d.canSignal => d.user \notin d.onSite
  /\ Known(d, {"banner", "assigned"}) /\ (d.duties.cover # Nobody => d.duties.linked) =>
       /\ d.banner \in d.team /\ Known(d, {"onCall"}) => d.banner = d.assigned
       /\ d.duty /\ d.user \in d.team /\ d.opened = d.till /\ Known(d, {"leave"}) =>
            d.user = d.assigned

\* dashboard.go:20 "the banner must agree with the matrix's assigned row", and what
\* loadCurrentUserPresenceStatus repeats of the matrix: whatever the viewer looks at,
\* and before or after the contracts have become rows, the dashboard, the calendar and
\* the API put a member in the same place and the hat on the same head.  The API alone
\* keeps a member with a contract at home who withdrew the day.  A query of the
\* dashboard that fails spoils the parts that need it and no other, and a page that was
\* disturbed, or has failed, still shows each member of the team it read once.
PagesAgree ==
  LET d == shown["dashboard"]
      c == shown["calendar"]
      api == shown["api"]
  IN /\ \A p \in Pages : Done(p) =>
          /\ shown[p].absent \cup shown[p].atHome \cup shown[p].onSite = shown[p].team
          /\ shown[p].onSite \cap (shown[p].absent \cup shown[p].atHome) = {}
          /\ p # "api" => shown[p].absent \cap shown[p].atHome = {}
     /\ Undisturbed("dashboard") => DashboardIsConsistent(d)
     /\ SameDay("dashboard", "calendar") /\ HasMatrix(d) =>
          /\ <<d.absent, d.atHome, d.onSite>> = <<c.absent, c.atHome, c.onSite>>
          /\ c.assigned \in c.team /\ Known(d, {"assigned"}) => c.assigned = d.assigned
     /\ SameDay("dashboard", "api") /\ HasMatrix(d) =>
          /\ api.absent = d.absent /\ (Known(d, {"assigned"}) => api.assigned = d.assigned)
          /\ api.onSite \subseteq d.onSite /\ d.onSite \ api.onSite \subseteq Contract

=============================================================================
