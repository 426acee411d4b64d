----------------------------- MODULE CoPresence -----------------------------
(***************************************************************************)
(* Who was in the office with whom (internal/wfh: WriteCoPresenceForPast-  *)
(* Date, BackfillCoPresence, the picker's score; database/wfh_co_presence).*)
(* After a settlement that had something to settle the service walks back  *)
(* over the last days and records every pair of members on site; the seat- *)
(* cap picker sends home first whoever met the cohort most recently.       *)
(* Members are numbered as their ids are ordered; day 1 is a Monday.       *)
(***************************************************************************)
EXTENDS Naturals, FiniteSets, FiniteSetsExt

CONSTANTS
  Staff,         \* members: numbers
  AlwaysHome,    \* those with is_permanent_wfh
  LastDate,
  DaysBack,      \* 7, or the retention when that is less
  HorizonDays,
  MaxMoves

ASSUME CoPresenceAssumption ==
  /\ Staff \subseteq Nat /\ AlwaysHome \subseteq Staff
  /\ {HorizonDays, MaxMoves, DaysBack} \subseteq Nat /\ LastDate \in Nat \ {0}
  \* With fewer, the walk stops at a weekend.
  /\ DaysBack >= 3

VARIABLES
  date,      \* today
  place,     \* by day: where a member is who has an approved day or leave
  moves,
  coPresence,\* wfh_co_presence: day, member_id_a < member_id_b
  walk       \* the backfill: days still to write, and the cohort read for the first

coVars == <<date, place, moves, coPresence, walk>>
CoDates == 1..LastDate
Resting == [at |-> "idle"]
Weekend(d) == d % 7 \in {0, 6}
CoRow == {r \in [day : CoDates, a : Staff, b : Staff] : r.a < r.b}

-----------------------------------------------------------------------------
\* On site: active, not on leave, not permanently at home, no approved WFH day.
onSiteCohortIDs(d) == {m \in Staff \ AlwaysHome : place[d][m] = "office"}

Meetings(c, cohort, from) ==
  {r \in coPresence : /\ \/ r.a = c /\ r.b \in cohort
                         \/ r.b = c /\ r.a \in cohort
                      /\ r.day >= from}

GetLatestCoPresenceWithCohort(c, cohort, from) ==
  Max({r.day : r \in Meetings(c, cohort, from)} \cup {0})

\* Days since the candidate met anybody of the cohort; the horizon starts at this
\* time of day, so the day HorizonDays ago is outside.
coPresenceScore(c, cohort) ==
  LET last == GetLatestCoPresenceWithCohort(c, cohort, (date + 1) - Min({HorizonDays, date}))
  IN IF last = 0 THEN HorizonDays + 1 ELSE Min({date - last, HorizonDays + 1})

\* The query has room for three members.
pickerCohortIDs ==
  {m \in Staff \ AlwaysHome :
     /\ place[date][m] # "leave"
     /\ Cardinality({n \in Staff \ AlwaysHome : n < m /\ place[date][n] # "leave"}) < 3}

-----------------------------------------------------------------------------
(* The backfill *)
\* Mutation: the limit on the iterations has no margin.
NoMargin == DaysBack
maxIter == 2 * DaysBack

\* The days BackfillCoPresence visits: the loop leaves before its last iteration.
Visited == {d \in CoDates : d < date /\ date - d < maxIter /\ ~Weekend(d)}

\* Nothing pending: SettlePendingRequests returns before the backfill.
BackfillCoPresence ==
  /\ walk = Resting
  /\ walk' = [at |-> "read", days |-> Visited, since |-> <<moves, date>>]
  /\ UNCHANGED <<date, place, moves, coPresence>>

WriteCoPresenceForPastDate ==
  /\ walk.at = "read" /\ walk.days # {}
  /\ walk' = [at |-> "write", days |-> walk.days, since |-> walk.since,
              cohort |-> onSiteCohortIDs(Max(walk.days))]
  /\ UNCHANGED <<date, place, moves, coPresence>>

\* INSERT OR IGNORE, for every pair.
writeCoPresencePairs ==
  /\ walk.at = "write"
  /\ coPresence' = coPresence \cup
       {r \in CoRow : r.day = Max(walk.days) /\ {r.a, r.b} \subseteq walk.cohort}
  /\ walk' = [at |-> "read", days |-> walk.days \ {Max(walk.days)}, since |-> walk.since]
  /\ UNCHANGED <<date, place, moves>>

BackfillDone ==
  /\ walk.at = "read" /\ walk.days = {} /\ walk' = Resting
  /\ UNCHANGED <<date, place, moves, coPresence>>

\* The server stops, or a statement fails and the walk goes on without the day.
BackfillStops ==
  /\ walk # Resting /\ walk' = Resting
  /\ UNCHANGED <<date, place, moves, coPresence>>

\* Days are approved, withdrawn and corrected, past ones too.
Move ==
  /\ moves < MaxMoves /\ moves' = moves + 1
  /\ \E d \in CoDates, m \in Staff : \E to \in {"office", "home", "leave"} :
       place' = [place EXCEPT ![d][m] = to]
  /\ UNCHANGED <<date, coPresence, walk>>

DayPasses ==
  /\ date < LastDate /\ date' = date + 1
  /\ UNCHANGED <<place, moves, coPresence, walk>>

CoInit ==
  /\ date = 1 /\ moves = 0 /\ coPresence = {} /\ walk = Resting
  /\ place = [d \in CoDates |-> [m \in Staff |-> "office"]]

CoNext ==
  \/ BackfillCoPresence \/ WriteCoPresenceForPastDate \/ writeCoPresencePairs
  \/ BackfillDone \/ BackfillStops \/ Move \/ DayPasses

CoSpec == CoInit /\ [][CoNext]_coVars

-----------------------------------------------------------------------------
CoTypeOK ==
  /\ date \in CoDates /\ moves \in 0..MaxMoves /\ coPresence \subseteq CoRow
  /\ place \in [CoDates -> [Staff -> {"office", "home", "leave"}]]
  /\ walk.at \in {"idle", "read", "write"}

\* The last DaysBack working days.  (A meeting exactly HorizonDays ago is lost to the
\* score: service_picker.go:265 says only older ones are.)
LastWorkingDays ==
  {d \in CoDates : /\ d < date /\ ~Weekend(d)
                 /\ Cardinality({e \in d..(date - 1) : ~Weekend(e)}) <= DaysBack}

\* service.go:679-682 "for the last N working days": when an undisturbed backfill ends,
\* the score of every candidate knows of the last of those days on which he was on site
\* with one of the cohort, over weekends and on whichever side of the pair he is.
ScoreKnowsTheLastDays ==
  (walk.at = "read" /\ walk.days = {} /\ walk.since = <<moves, date>>) =>
    \A c \in onSiteCohortIDs(date) :
      LET cohort == pickerCohortIDs \ {c}
          met == {d \in LastWorkingDays :
                    /\ date - d < HorizonDays /\ c \in onSiteCohortIDs(d)
                    /\ cohort \cap onSiteCohortIDs(d) # {}}
      IN met # {} => coPresenceScore(c, pickerCohortIDs)
                       <= Min({date - Max(met), HorizonDays + 1})

=============================================================================
