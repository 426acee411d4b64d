------------------------------- MODULE Feeds -------------------------------
(***************************************************************************)
(* Calendar feeds (internal/calendar, web/calendar_handlers.go): a member's *)
(* calendar client fetches a feed by the token of a subscription.  A feed   *)
(* is put together from several queries while leave, swaps and removals    *)
(* change the rota between them; a covered day keeps both its original row *)
(* and its cover's, and the feed must show one of them.                    *)
(*                                                                         *)
(* Names stand for members.  Who is on site fills the descriptions of the   *)
(* personal feed and of the others' and is left out there; what a feed      *)
(* writes (RefreshFor) is in Wfh and CoPresence.                           *)
(***************************************************************************)
EXTENDS Naturals, FiniteSets, FiniteSetsExt

CONSTANTS
  Crew,
  LastDay,      \* days pass from 1 to LastDay
  RotaDays,     \* days of the rota
  Lookahead,    \* days that a feed looks ahead
  NoOne,        \* who is named where nobody is
  MaxRows, MaxSubscriptions,
  MaxEdits,     \* changes to the rota, the leaves and the team
  StaleDays,    \* values an administrator may enter in the cleanup form
  Tabs,         \* calendar pages open at the same time
  NoSub

ASSUME FeedAssumption ==
  /\ {LastDay, MaxRows, MaxSubscriptions, MaxEdits, Lookahead} \subseteq Nat /\ LastDay > 0
  /\ RotaDays \subseteq 1..LastDay /\ MaxRows >= LastDay
  /\ StaleDays \subseteq Nat \ {0} /\ Tabs \subseteq Nat
  /\ NoOne \notin Crew

VARIABLES
  hats,     \* rota_assignments: id, day, who, cover, of (the original's id, 0 for NULL)
  made,     \* ids used
  crew,     \* team_members: "active", "inactive", or "gone"
  leave,    \* who has a leave over a day
  edits,
  subs,     \* calendar_subscriptions, by token: whose, created, last_used_at (0 for NULL)
  handed,   \* tokens handed out: they are uuids
  tab,      \* the member whose page found no subscription and will create one
  client,   \* the fetch that a calendar client waits for
  now

feedVars == <<hats, made, crew, leave, edits, subs, handed, tab, client, now>>
rotaState == <<hats, made, crew, leave, edits>>
subState == <<subs, handed, tab>>

FeedTokens == 1..MaxSubscriptions
NoFeed == [at |-> "none"]
Active(w) == crew[w] = "active"
GetActiveTeamMembers == {w \in Crew : Active(w)}

-----------------------------------------------------------------------------
(* Rows of the rota *)
RowsOn(d) == {r \in hats : r.day = d}
Originals(rows) == {r \in rows : ~r.cover}
Covers(rows) == {r \in rows : r.cover}

\* getHATForDate: the cover if there is one.
OnDuty(d) == IF Covers(RowsOn(d)) # {} THEN Covers(RowsOn(d)) ELSE Originals(RowsOn(d))

GetCoveredOriginalIDsInRange(days) == {r.of : r \in {c \in Covers(hats) : c.day \in days}} \ {0}

\* Mutation: only the covers that are in the list are looked at.
SliceOnly(list, covered) == {r.of : r \in Covers(list)} \ {0}
unionWithSliceCovers(list, covered) == covered \cup ({r.of : r \in Covers(list)} \ {0})

suppressCoveredOriginals(list, covered) ==
  {r \in list : r.cover \/ r.id \notin unionWithSliceCovers(list, covered)}

-----------------------------------------------------------------------------
(* A feed is made: the token, then one query after the other, then the answer *)
GetMemberByToken(k) == subs[k]

\* The dates of the rota are stored with a time of day: text that is compared with a plain
\* date, as the member's own assignments are, is past its last day.  The meetings are made
\* for the days before the end.  The feed of the others has the last day.
BeforeTheEnd == {d \in RotaDays : now <= d /\ d < now + Lookahead}
ToTheEnd == {d \in RotaDays : now <= d /\ d <= now + Lookahead}

RequestFeed(kind, days) ==
  /\ client = NoFeed
  /\ \E k \in FeedTokens :
       /\ GetMemberByToken(k) # NoSub
       /\ client' = [at |-> "list", kind |-> kind, token |-> k, who |-> GetMemberByToken(k).who,
                     days |-> days, left |-> days, form |-> "text", named |-> {},
                     rows |-> {}, told |-> {}, since |-> <<edits, now>>]
  /\ UNCHANGED <<rotaState, subState, now>>

handleCalendarICS == RequestFeed("personal", BeforeTheEnd)
handleTeamCalendarICS == RequestFeed("team", ToTheEnd)
handleMeetingsCalendarICS == RequestFeed("meetings", BeforeTheEnd)
\* The page of one day, linked from the dashboard.
handleMeetingsDayHTML == \E d \in RotaDays : RequestFeed("day", {d})

GetUpcomingAssignments(w) == {r \in hats : r.day \in BeforeTheEnd /\ r.who = w}
GetAssignmentsByDateRange(days) == {r \in hats : r.day \in days}

\* The personal feed reads one member's rows; the feed of the others reads them all and
\* leaves that member's out before it looks for covered originals.
ReadAssignments ==
  /\ client.at = "list" /\ client.kind \in {"personal", "team"}
  /\ client' = [client EXCEPT !.at = "covered", !.rows =
       IF client.kind = "personal" THEN GetUpcomingAssignments(client.who)
       ELSE {r \in GetAssignmentsByDateRange(client.days) : r.who # client.who}]
  /\ UNCHANGED <<rotaState, subState, now>>

\* One event for a row; whoever is not among the named is "Unknown".
Events(rows, named) ==
  {[day |-> r.day, form |-> "event", who |-> IF r.who \in named THEN r.who ELSE NoOne] : r \in rows}

\* The member's own feed asks the clock for its days each time.
GenerateICal ==
  /\ client.at = "covered"
  /\ LET mine == client.kind = "personal"
         rows == suppressCoveredOriginals(client.rows,
                   GetCoveredOriginalIDsInRange(IF mine THEN ToTheEnd ELSE client.days))
     IN client' = IF mine THEN [client EXCEPT !.at = "answer", !.rows = rows,
                                              !.told = Events(rows, {client.who})]
                  ELSE [client EXCEPT !.at = "names", !.rows = rows]
  /\ UNCHANGED <<rotaState, subState, now>>

\* The names of the others are those of the active members.
GenerateTeamCalendar ==
  /\ client.at = "names"
  /\ client' = [client EXCEPT !.at = "answer", !.told = Events(client.rows, GetActiveTeamMembers)]
  /\ UNCHANGED <<rotaState, subState, now>>

\* The meetings are made one day after the other, and each of them twice, as text and as
\* HTML: both times the members, their leave and who is on duty are read again.
getPresenceForDate ==
  /\ client.at = "list" /\ client.kind \in {"meetings", "day"}
  /\ client' = IF client.left = {} THEN [client EXCEPT !.at = "answer"]
               ELSE [client EXCEPT !.at = "leave", !.named = GetActiveTeamMembers]
  /\ UNCHANGED <<rotaState, subState, now>>

leaveOnMeetingDay ==
  /\ client.at = "leave"
  /\ client' = [client EXCEPT !.at = "support",
                              !.named = {w \in @ : <<w, Min(client.left)>> \notin leave}]
  /\ UNCHANGED <<rotaState, subState, now>>

\* The mark of the hat goes to a member who is present, or to nobody.
shuffleOrderLines(present, duty) ==
  LET holders == {r.who : r \in duty} \cap present
  IN IF holders = {} THEN NoOne ELSE CHOOSE w \in holders : TRUE

GenerateMeetings ==
  /\ client.at = "support"
  /\ LET d == Min(client.left)
         line == [day |-> d, form |-> client.form, who |-> shuffleOrderLines(client.named, OnDuty(d))]
     IN client' = [client EXCEPT !.at = "list", !.told = @ \cup {line},
                                 !.form = IF @ = "text" THEN "html" ELSE "text",
                                 !.left = IF client.form = "html" THEN @ \ {d} ELSE @]
  /\ UNCHANGED <<rotaState, subState, now>>

\* A query that fails ends the feed.
FeedFails == client # NoFeed /\ client' = NoFeed /\ UNCHANGED <<rotaState, subState, now>>

\* The subscription is touched, if it is still there and no error, which is passed over,
\* and the feed sent; the page of a day touches nothing.
Touch ==
  /\ client.at = "answer"
  /\ LET k == client.token
     IN \/ UNCHANGED subs
        \/ /\ subs[k] # NoSub /\ client.kind # "day"
           /\ subs' = [subs EXCEPT ![k].used = now]
  /\ client' = NoFeed
  /\ UNCHANGED <<rotaState, handed, tab, now>>

-----------------------------------------------------------------------------
(* Subscriptions *)
CreateCalendarSubscription(w) ==
  /\ handed < MaxSubscriptions /\ handed' = handed + 1
  /\ subs' = [subs EXCEPT ![handed + 1] = [who |-> w, created |-> now, used |-> 0]]

SubscriptionsOf(w) == {k \in FeedTokens : subs[k] # NoSub /\ subs[k].who = w}

loadUserSubscription(t) ==
  /\ tab[t] = NoSub
  /\ \E w \in Crew :
       /\ crew[w] # "gone" /\ SubscriptionsOf(w) = {}
       /\ tab' = [tab EXCEPT ![t] = w]
  /\ UNCHANGED <<rotaState, subs, handed, client, now>>

autoCreateSubscription(t) ==
  /\ tab[t] # NoSub
  /\ IF crew[tab[t]] = "gone" THEN UNCHANGED <<subs, handed>> ELSE CreateCalendarSubscription(tab[t])
  /\ tab' = [tab EXCEPT ![t] = NoSub]
  /\ UNCHANGED <<rotaState, client, now>>

\* An administrator may make another one for any active member.
handleCalendarAdminPost ==
  /\ \E w \in Crew : Active(w) /\ CreateCalendarSubscription(w)
  /\ UNCHANGED <<rotaState, tab, client, now>>

Stale(sub, days) == IF sub.used = 0 THEN sub.created + days < now ELSE sub.used + days < now

handleCalendarSubscriptionsCleanup ==
  /\ \E days \in StaleDays :
       subs' = [k \in FeedTokens |->
                  IF subs[k] # NoSub /\ Stale(subs[k], days) THEN NoSub ELSE subs[k]]
  /\ UNCHANGED <<rotaState, handed, tab, client, now>>

-----------------------------------------------------------------------------
(* What other requests do to the rota and the team, one statement at a time (Rota, *)
(* HatSwap).  A day that has any row is not given an original again.              *)
Edit == edits < MaxEdits /\ edits' = edits + 1
Added(d, w, cover, of) ==
  /\ made < MaxRows /\ made' = made + 1
  /\ hats' = hats \cup {[id |-> made + 1, day |-> d, who |-> w, cover |-> cover, of |-> of]}

CreateRotaAssignment ==
  /\ Edit
  /\ \E d \in RotaDays, w \in Crew :
       /\ Active(w)
       /\ \/ RowsOn(d) = {} /\ Added(d, w, FALSE, 0)
          \/ /\ Covers(RowsOn(d)) = {}
             /\ \E r \in RowsOn(d) : r.who # w /\ Added(d, w, TRUE, r.id)
  /\ UNCHANGED <<crew, leave, subState, client, now>>

DeleteRotaAssignment ==
  /\ Edit
  /\ \E r \in Covers(hats) : hats' = hats \ {r}
  /\ UNCHANGED <<made, crew, leave, subState, client, now>>

\* A cover is re-pointed, or an accepted swap exchanges two days.
UpdateAssignmentMember ==
  /\ Edit
  /\ \/ \E r \in Covers(hats), w \in Crew :
          /\ Active(w) /\ w # r.who
          /\ hats' = (hats \ {r}) \cup {[r EXCEPT !.who = w]}
     \/ \E d, e \in RotaDays : \E r \in OnDuty(d), s \in OnDuty(e) :
          /\ d < e /\ r.who # s.who
          /\ hats' = (hats \ {r, s}) \cup {[r EXCEPT !.who = s.who], [s EXCEPT !.who = r.who]}
  /\ UNCHANGED <<made, crew, leave, subState, client, now>>

\* The member's rows and subscriptions go with him; the covers of his days stay.
DeleteTeamMember ==
  /\ Edit
  /\ \E w \in Crew :
       /\ crew[w] # "gone" /\ crew' = [crew EXCEPT ![w] = "gone"]
       /\ LET left == {r \in hats : r.who # w}
          IN hats' = {IF \E s \in left : s.id = r.of THEN r ELSE [r EXCEPT !.of = 0] : r \in left}
       /\ subs' = [k \in FeedTokens |->
                     IF subs[k] # NoSub /\ subs[k].who = w THEN NoSub ELSE subs[k]]
       /\ leave' = {l \in leave : l[1] # w}
  /\ UNCHANGED <<made, handed, tab, client, now>>

SetMemberActive ==
  /\ Edit
  /\ \E w \in Crew : /\ crew[w] # "gone"
                     /\ crew' = [crew EXCEPT ![w] = IF Active(w) THEN "inactive" ELSE "active"]
  /\ UNCHANGED <<hats, made, leave, subState, client, now>>

\* A leave is reported or deleted (Rota has what this does to the rota).
ReportLeave ==
  /\ Edit
  /\ \E w \in Crew, d \in RotaDays :
       /\ crew[w] # "gone"
       /\ leave' = IF <<w, d>> \in leave THEN leave \ {<<w, d>>} ELSE leave \cup {<<w, d>>}
  /\ UNCHANGED <<hats, made, crew, subState, client, now>>

NextDay == now < LastDay /\ now' = now + 1 /\ UNCHANGED <<rotaState, subState, client>>

-----------------------------------------------------------------------------
\* A rota that is filled, and may change or not.
FeedInit ==
  /\ crew = [w \in Crew |-> "active"] /\ leave = {}
  /\ \E holder \in [RotaDays -> Crew] :
       hats = {[id |-> d, day |-> d, who |-> holder[d], cover |-> FALSE, of |-> 0] : d \in RotaDays}
  /\ made = LastDay /\ edits \in {0, MaxEdits} /\ now = 1
  /\ subs = [k \in FeedTokens |-> NoSub] /\ handed = 0
  /\ tab = [t \in Tabs |-> NoSub] /\ client = NoFeed

FeedNext ==
  \/ handleCalendarICS \/ handleTeamCalendarICS \/ handleMeetingsCalendarICS
  \/ handleMeetingsDayHTML \/ ReadAssignments \/ GenerateICal \/ GenerateTeamCalendar
  \/ getPresenceForDate \/ leaveOnMeetingDay \/ GenerateMeetings \/ FeedFails \/ Touch
  \/ \E t \in Tabs : loadUserSubscription(t) \/ autoCreateSubscription(t)
  \/ handleCalendarAdminPost \/ handleCalendarSubscriptionsCleanup
  \/ CreateRotaAssignment \/ DeleteRotaAssignment \/ UpdateAssignmentMember
  \/ DeleteTeamMember \/ SetMemberActive \/ ReportLeave \/ NextDay

FeedSpec == FeedInit /\ [][FeedNext]_feedVars

-----------------------------------------------------------------------------
FeedTypeOK ==
  /\ hats \subseteq [id : 1..MaxRows, day : RotaDays, who : Crew, cover : BOOLEAN, of : 0..MaxRows]
  /\ crew \in [Crew -> {"active", "inactive", "gone"}] /\ leave \subseteq Crew \X RotaDays
  /\ subs \in [FeedTokens -> [who : Crew, created : 1..LastDay, used : 0..LastDay] \cup {NoSub}]
  /\ tab \in [Tabs -> Crew \cup {NoSub}]
  /\ handed \in 0..MaxSubscriptions
  /\ client.at \in {"none", "list", "covered", "names", "leave", "support", "answer"}

\* Who is on duty on a day, and who of them the answer has to name: a member his own
\* days, the feed of the others the rest, as far as the member is active, and a meeting,
\* twice, the holder who is there.
Holders(d) == {r.who : r \in OnDuty(d)}
Present(w, d) == Active(w) /\ <<w, d>> \notin leave
Marks(d) == LET present == {w \in Holders(d) : Present(w, d)}
             IN IF present = {} THEN {NoOne} ELSE present
Lines(d, form, holders) == {[day |-> d, form |-> form, who |-> w] : w \in holders}
ToldOf(d) ==
  CASE client.kind = "personal" -> Lines(d, "event", Holders(d) \cap {client.who})
    [] client.kind = "team" ->
         Lines(d, "event", {IF Active(w) THEN w ELSE NoOne : w \in Holders(d) \ {client.who}})
    [] OTHER -> UNION {Lines(d, form, Marks(d)) : form \in {"text", "html"}}

\* ical.go:1025-1031: "the calendar feed should reflect who is ACTUALLY on duty".
\* A feed never names two people for one day in one place, even when the rota changes
\* between its queries; unless it does, a member's own feed has the days he is on duty,
\* the feed of the others all the rest, and the text and the HTML of a meeting mark
\* whoever is on duty, if he is there, through covers, swaps, leave and removals.
FeedTellsDuty ==
  client.at = "answer" =>
    /\ \A m, n \in client.told : m.day = n.day /\ m.form = n.form => m = n
    /\ client.since = <<edits, now>> => client.told = UNION {ToldOf(d) : d \in client.days}

=============================================================================
