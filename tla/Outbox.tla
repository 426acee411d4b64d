------------------------------- MODULE Outbox -------------------------------
(***************************************************************************)
(* The notification outbox: producers (request handlers) that resolve a    *)
(* recipient and insert a row, and the worker goroutine of each server     *)
(* process that drains due rows into a channel, retries with exponential   *)
(* backoff and gives up after MaxAttempts.                                 *)
(*                                                                         *)
(* Server processes come and go (SIGTERM, crash, restart with another      *)
(* configuration) while the SQLite file stays, and each step of a process  *)
(* between two database calls is an action of its own.                     *)
(*                                                                         *)
(* Time is relative: due is the number of ticks until next_attempt_at,     *)
(* zero or negative when the row is due, saturated at -Horizon.            *)
(***************************************************************************)
EXTENDS Integers, Sequences, FiniteSets

CONSTANTS
  Rows,         \* outbox row ids (uuids) that inserts may draw from
  Members,      \* team_members ids
  Admins,       \* users ids of the active admins: another table, other uuids
  Servers,      \* server processes that share the database file
  Batch,        \* drainBatchSize
  MaxAttempts,  \* NOTIFY_OUTBOX_MAX_ATTEMPTS
  BackoffBase,  \* NOTIFY_OUTBOX_BACKOFF_BASE, in ticks
  MaxBackoff,   \* MaxBackoff, in ticks
  DurationMax,  \* the largest time.Duration, in ticks
  Horizon,      \* bound: how long a row is remembered to be overdue
  MaxFaults,    \* bound: stops, crashes and failed database calls
  None          \* no row, nobody

ASSUME OutboxAssumption ==
  /\ Batch \in Nat \ {0}
  /\ MaxAttempts \in Nat \ {0}
  /\ BackoffBase \in Nat \ {0}
  /\ MaxBackoff \in Nat \ {0}
  /\ DurationMax \in Nat /\ MaxBackoff <= DurationMax
  /\ Horizon \in Nat
  /\ MaxFaults \in Nat
  /\ Members \cap Admins = {}
  /\ IsFiniteSet(Rows) /\ IsFiniteSet(Admins)
  /\ None \notin Rows \cup Members \cup Admins

VARIABLES
  outbox,     \* notification_outbox: row id -> status, to, attempts, due
  disabled,   \* members whose notification_preferences.email_enabled = 0
  team,       \* members that have a team_members row
  life,       \* server -> "down", "up", "stopping" (cleanupCtx cancelled)
  emailOn,    \* server -> is the email channel registered and enabled
  pc,         \* worker -> "loop", "sending", "accepted", "refused"
  cur,        \* worker -> the row it dispatches, None in its loop
  claimed,    \* worker -> snapshot of the claimed rows not yet dispatched
  emit,       \* server -> recipients its request handler still has to serve
  ready,      \* server -> Head(emit) is resolved, its row not yet inserted
  delivered,  \* row -> how often the channel accepted it (the mailbox)
  faults      \* how many faults happened

rowVars    == <<outbox, delivered>>
prefVars   == <<disabled, team>>
workerVars == <<pc, cur, claimed>>
emitVars   == <<emit, ready>>
procVars   == <<life, emailOn>>
vars == <<rowVars, prefVars, workerVars, emitVars, procVars, faults>>

Statuses == {"absent", "pending", "sent", "dead"}
People   == Members \cup Admins

\* What the drain copies of a row: outboxFromSQLC's Attempts and NextAttemptAt.
Snapshot == [attempts : Nat, due : Int]
Row == [status : Statuses, to : People \cup {None}, attempts : Nat, due : Int]

Least(a, b)    == IF a <= b THEN a ELSE b
Greatest(a, b) == IF a <= b THEN b ELSE a

TypeOK ==
  /\ outbox \in [Rows -> Row]
  /\ disabled \subseteq Members
  /\ team \subseteq Members
  /\ life \in [Servers -> {"down", "up", "stopping"}]
  /\ emailOn \in [Servers -> BOOLEAN]
  /\ pc \in [Servers -> {"loop", "sending", "accepted", "refused"}]
  /\ cur \in [Servers -> Rows \cup {None}]
  /\ \A s \in Servers : pc[s] # "loop" => cur[s] \in Rows
  /\ claimed = [s \in Servers |-> claimed[s]]
  /\ \A s \in Servers : \E R \in SUBSET Rows : claimed[s] \in [R -> Snapshot]
  /\ emit \in [Servers -> Seq(People)]
  /\ ready \in [Servers -> BOOLEAN]
  /\ delivered \in [Rows -> Nat]
  /\ faults \in Nat

-----------------------------------------------------------------------------
(* Backoff: base * 2^(attempts-1), computed in float64, converted to int64 *)
(* and only then compared with the cap. A float beyond int64 converts to    *)
(* the most negative Duration (amd64) or to the largest one (arm64).        *)

Doubling(n) == BackoffBase * 2 ^ (Greatest(n, 1) - 1)

Durations(n) ==
  IF Doubling(n) <= DurationMax THEN {Doubling(n)}
                                ELSE {-DurationMax - 1, DurationMax}

\* computeNextAttempt, relative to now.
Backoffs(n) ==
  {b \in -Horizon .. MaxBackoff :
     \E d \in Durations(n) : b = Greatest(-Horizon, Least(d, MaxBackoff))}

-----------------------------------------------------------------------------
(* Producers: ChannelNotifier.enqueue, one recipient after the other.       *)

Fault == faults < MaxFaults /\ faults' = faults + 1

\* SwapRequested, SwapAccepted, SwapRejected, SwapCancelled,
\* WFHStateChanged, CoverAssigned: one or two member ids.
MemberEvents ==
  {e \in [1 .. 1 -> Members] \cup [1 .. 2 -> Members] :
     \A j, k \in DOMAIN e : e[j] = e[k] => j = k}

\* UserPendingApproval: the ids ListActiveAdmins returned, in some order.
\* Without an admin the call returns at once.
AdminEvents ==
  {e \in [1 .. Cardinality(Admins) -> Admins] :
     Admins # {} /\ \A a \in Admins : \E k \in DOMAIN e : e[k] = a}

\* Row ids not drawn yet. Bound: a handler starts only while enough are left
\* for its event.
Unused == {r \in Rows : outbox[r].status = "absent"}

Notify(s) ==
  /\ life[s] # "down" /\ emit[s] = <<>>
  /\ \E e \in MemberEvents \cup AdminEvents :
       /\ Cardinality(Unused) >= Len(e)
       /\ emit' = [emit EXCEPT ![s] = e]
  /\ UNCHANGED <<rowVars, prefVars, workerVars, ready, procVars, faults>>

\* Done with the first recipient of s.
NextRecipient(s) ==
  /\ emit' = [emit EXCEPT ![s] = Tail(@)]
  /\ ready' = [ready EXCEPT ![s] = FALSE]

\* resolveRecipient refuses: no team_members row with that id, or disabled.
SkipRecipient(s) ==
  /\ emit[s] # <<>> /\ ~ready[s]
  /\ Head(emit[s]) \notin team \/ Head(emit[s]) \in disabled
  /\ NextRecipient(s)
  /\ UNCHANGED <<rowVars, prefVars, workerVars, procVars, faults>>

\* resolveRecipient accepts. A failed preference lookup counts as enabled.
ResolveRecipient(s) ==
  /\ emit[s] # <<>> /\ ~ready[s]
  /\ Head(emit[s]) \in team
  /\ \/ Head(emit[s]) \notin disabled /\ UNCHANGED faults
     \/ Head(emit[s]) \in disabled /\ Fault
  /\ ready' = [ready EXCEPT ![s] = TRUE]
  /\ UNCHANGED <<rowVars, prefVars, workerVars, emit, procVars>>

\* EnqueueOutboxEntry for every enabled channel: one row when email is on,
\* none when it is off.
InsertRow(s) ==
  /\ emit[s] # <<>> /\ ready[s]
  /\ IF emailOn[s]
       THEN \E r \in Unused :
              outbox' = [outbox EXCEPT ![r] =
                [status |-> "pending", to |-> Head(emit[s]),
                 attempts |-> 0, due |-> 0]]
       ELSE UNCHANGED outbox
  /\ NextRecipient(s)
  /\ UNCHANGED <<delivered, prefVars, workerVars, procVars, faults>>

\* The insert fails: logged and dropped.
DropRow(s) ==
  /\ emit[s] # <<>> /\ ready[s] /\ emailOn[s] /\ Fault
  /\ NextRecipient(s)
  /\ UNCHANGED <<rowVars, prefVars, workerVars, procVars>>

-----------------------------------------------------------------------------
(* Preferences and team membership.                                         *)

\* handleUnsubscribe; the FK refuses it for a member that is gone.
Unsubscribe(m) ==
  /\ m \in team
  /\ disabled' = disabled \cup {m}
  /\ UNCHANGED <<rowVars, team, workerVars, emitVars, procVars, faults>>

\* handleUnsubscribeResume with a valid token.
Resume(m) ==
  /\ m \in team
  /\ disabled' = disabled \ {m}
  /\ UNCHANGED <<rowVars, team, workerVars, emitVars, procVars, faults>>

\* Deleting a member cascades to the preference row.
RemoveMember(m) ==
  /\ m \in team
  /\ team' = team \ {m}
  /\ disabled' = disabled \ {m}
  /\ UNCHANGED <<rowVars, workerVars, emitVars, procVars, faults>>

-----------------------------------------------------------------------------
(* The worker.                                                              *)

\* Mutations: settled rows are due too; a row that failed once never is.
DueInAnyStatus == {r \in Rows : outbox[r].status # "absent" /\ outbox[r].due <= 0}
DueOnce == {r \in Rows : /\ outbox[r].status = "pending" /\ outbox[r].due <= 0
                         /\ outbox[r].attempts = 0}

Due == {r \in Rows : outbox[r].status = "pending" /\ outbox[r].due <= 0}

\* ORDER BY next_attempt_at compares the stored text.  A row that never failed
\* has the column's default, "date time", and a failed one "dateTtimeZ", which
\* sorts behind every default of its date, the later ones included.  Which rows
\* share a date is left open.
Precedes(a, b) ==
  \/ a.due <= b.due
  \/ a.attempts = 0 /\ b.attempts > 0

\* ClaimDueOutboxEntries: a plain SELECT ... ORDER BY next_attempt_at LIMIT.
IsBatch(R) ==
  /\ R \subseteq Due
  /\ Cardinality(R) = Least(Batch, Cardinality(Due))
  /\ \A r \in R, q \in Due \ R : Precedes(outbox[r], outbox[q])

Claim(s) ==
  /\ life[s] = "up" /\ pc[s] = "loop" /\ DOMAIN claimed[s] = {}
  /\ Due # {}
  /\ \E R \in SUBSET Due :
       /\ IsBatch(R)
       /\ claimed' = [claimed EXCEPT ![s] =
            [r \in R |-> [attempts |-> outbox[r].attempts, due |-> outbox[r].due]]]
  /\ UNCHANGED <<rowVars, prefVars, pc, cur, emitVars, procVars, faults>>

\* r is the next row of the batch's loop; ctx.Err() is nil.
IsNext(s, r) ==
  /\ life[s] = "up" /\ pc[s] = "loop"
  /\ r \in DOMAIN claimed[s]
  /\ \A q \in DOMAIN claimed[s] : Precedes(claimed[s][r], claimed[s][q])

\* The rest of the batch once r is dealt with.
Rest(s, r) == [q \in DOMAIN claimed[s] \ {r} |-> claimed[s][q]]

\* Mutations: a status nobody else knows, or the wrong one.
DeadAsFailed(row) == [row EXCEPT !.status = "failed", !.attempts = @ + 1, !.due = 0]
DeadAsSent(row)   == [row EXCEPT !.status = "sent", !.attempts = @ + 1, !.due = 0]

\* MarkOutboxDead: no guard on the row's status.
Dead(row) == [row EXCEPT !.status = "dead", !.attempts = @ + 1, !.due = 0]

\* No channel is registered under the row's name.
UnknownChannel(s, r) ==
  /\ IsNext(s, r) /\ ~emailOn[s]
  /\ claimed' = [claimed EXCEPT ![s] = Rest(s, r)]
  /\ \/ outbox' = [outbox EXCEPT ![r] = Dead(@)] /\ UNCHANGED faults
     \/ UNCHANGED outbox /\ Fault
  /\ UNCHANGED <<delivered, prefVars, pc, cur, emitVars, procVars>>

StartSend(s, r) ==
  /\ IsNext(s, r) /\ emailOn[s]
  /\ pc' = [pc EXCEPT ![s] = "sending"]
  /\ cur' = [cur EXCEPT ![s] = r]
  /\ UNCHANGED <<rowVars, prefVars, claimed, emitVars, procVars, faults>>

\* Channel.Send returns nil: the mail is out.
SendOk(s) ==
  /\ pc[s] = "sending"
  /\ delivered' = [delivered EXCEPT ![cur[s]] = @ + 1]
  /\ pc' = [pc EXCEPT ![s] = "accepted"]
  /\ UNCHANGED <<outbox, prefVars, cur, claimed, emitVars, procVars, faults>>

\* Mutation: the error of Send is not looked at.
SendErrorIgnored(s) ==
  /\ pc[s] = "sending"
  /\ pc' = [pc EXCEPT ![s] = "accepted"]
  /\ UNCHANGED <<rowVars, prefVars, cur, claimed, emitVars, procVars, faults>>

\* Send returns an error.  The mail is out all the same when the connection
\* broke after the server had accepted it.
SendFails(s) ==
  /\ pc[s] = "sending"
  /\ \/ UNCHANGED delivered
     \/ delivered' = [delivered EXCEPT ![cur[s]] = @ + 1]
  /\ pc' = [pc EXCEPT ![s] = "refused"]
  /\ UNCHANGED <<outbox, prefVars, cur, claimed, emitVars, procVars, faults>>

\* The dispatch of cur[s] returns to the batch's loop.
Return(s) ==
  /\ pc' = [pc EXCEPT ![s] = "loop"]
  /\ claimed' = [claimed EXCEPT ![s] = Rest(s, cur[s])]
  /\ cur' = [cur EXCEPT ![s] = None]

\* MarkOutboxSent: no guard on the row's status.
MarkSent(s) ==
  /\ life[s] = "up" /\ pc[s] = "accepted"
  /\ outbox' = [outbox EXCEPT ![cur[s]].status = "sent"]
  /\ Return(s)
  /\ UNCHANGED <<delivered, prefVars, emitVars, procVars, faults>>

\* Mutations: the attempt in progress is not counted, or counted twice.
AttemptsBehind(s) == claimed[s][cur[s]].attempts
AttemptsAhead(s)  == claimed[s][cur[s]].attempts + 2

\* row.Attempts + 1, from the snapshot.
Attempts(s) == claimed[s][cur[s]].attempts + 1

\* MarkOutboxDead once the attempts are used up.
GiveUp(s) ==
  /\ life[s] = "up" /\ pc[s] = "refused"
  /\ Attempts(s) >= MaxAttempts
  /\ outbox' = [outbox EXCEPT ![cur[s]] = Dead(@)]
  /\ Return(s)
  /\ UNCHANGED <<delivered, prefVars, emitVars, procVars, faults>>

\* Mutation: the retry is not postponed.
FailedWithoutDelay(row, d) == [row EXCEPT !.attempts = @ + 1]

\* MarkOutboxFailed: no guard on the row's status, which it leaves alone.
Failed(row, d) == [row EXCEPT !.attempts = @ + 1, !.due = d]

Retry(s) ==
  /\ life[s] = "up" /\ pc[s] = "refused"
  /\ Attempts(s) < MaxAttempts
  /\ \E d \in Backoffs(Attempts(s)) :
       outbox' = [outbox EXCEPT ![cur[s]] = Failed(@, d)]
  /\ Return(s)
  /\ UNCHANGED <<delivered, prefVars, emitVars, procVars, faults>>

\* The mark fails: a database error, or the context is already cancelled.
\* The error is only logged.
LoseMark(s) ==
  /\ life[s] # "down" /\ pc[s] \in {"accepted", "refused"}
  /\ IF life[s] = "up" THEN Fault ELSE UNCHANGED faults
  /\ Return(s)
  /\ UNCHANGED <<rowVars, prefVars, emitVars, procVars>>

-----------------------------------------------------------------------------
(* Server processes and time.                                               *)

\* SIGTERM: stopCleanup cancels the worker's context.
Stop(s) ==
  /\ life[s] = "up" /\ Fault
  /\ life' = [life EXCEPT ![s] = "stopping"]
  /\ UNCHANGED <<rowVars, prefVars, workerVars, emitVars, emailOn>>

\* The process ends and its memory with it: nobody waits for the worker.
Gone(s) ==
  /\ life' = [life EXCEPT ![s] = "down"]
  /\ pc' = [pc EXCEPT ![s] = "loop"]
  /\ claimed' = [claimed EXCEPT ![s] = <<>>]
  /\ emit' = [emit EXCEPT ![s] = <<>>]
  /\ ready' = [ready EXCEPT ![s] = FALSE]
  /\ cur' = [cur EXCEPT ![s] = None]
  /\ UNCHANGED <<rowVars, prefVars, emailOn>>

Exit(s)  == life[s] = "stopping" /\ Gone(s) /\ UNCHANGED faults
Crash(s) == life[s] = "up" /\ Gone(s) /\ Fault

\* Server.Start with the configuration of the day.
Start(s) ==
  /\ life[s] = "down"
  /\ life' = [life EXCEPT ![s] = "up"]
  /\ \E on \in BOOLEAN : emailOn' = [emailOn EXCEPT ![s] = on]
  /\ UNCHANGED <<rowVars, prefVars, workerVars, emitVars, faults>>

Tick ==
  /\ outbox' = [r \in Rows |->
       IF outbox[r].status = "pending"
         THEN [outbox[r] EXCEPT !.due = Greatest(-Horizon, @ - 1)]
         ELSE outbox[r]]
  /\ UNCHANGED <<delivered, prefVars, workerVars, emitVars, procVars, faults>>

-----------------------------------------------------------------------------
Init ==
  /\ outbox = [r \in Rows |-> [status |-> "absent", to |-> None,
                              attempts |-> 0, due |-> 0]]
  /\ disabled = {}
  /\ team = Members
  /\ life = [s \in Servers |-> "down"]
  /\ emailOn = [s \in Servers |-> TRUE]
  /\ pc = [s \in Servers |-> "loop"]
  /\ cur = [s \in Servers |-> None]
  /\ claimed = [s \in Servers |-> <<>>]
  /\ emit = [s \in Servers |-> <<>>]
  /\ ready = [s \in Servers |-> FALSE]
  /\ delivered = [r \in Rows |-> 0]
  /\ faults = 0

Producer(s) == Notify(s) \/ SkipRecipient(s) \/ ResolveRecipient(s)
                 \/ InsertRow(s) \/ DropRow(s)
Dispatch(s) == \E r \in Rows : UnknownChannel(s, r) \/ StartSend(s, r)
Send(s)     == SendOk(s) \/ SendFails(s)
Mark(s)     == MarkSent(s) \/ GiveUp(s) \/ Retry(s) \/ LoseMark(s)
Process(s)  == Stop(s) \/ Exit(s) \/ Crash(s) \/ Start(s)
Preference  == \E m \in Members : Unsubscribe(m) \/ Resume(m) \/ RemoveMember(m)

Next ==
  \/ \E s \in Servers : Producer(s) \/ Claim(s) \/ Dispatch(s) \/ Send(s)
                          \/ Mark(s) \/ Process(s)
  \/ Preference
  \/ Tick

\* The operating system restarts a server that is down, a cancelled one
\* exits, a running goroutine takes its next step (Run polls for ever), Send
\* returns (assumed of the mail server: Send sets no deadline), time passes.
Fairness ==
  /\ \A s \in Servers :
       /\ WF_vars(Start(s) \/ Exit(s))
       /\ WF_vars(Claim(s))
       /\ WF_vars(Dispatch(s))
       /\ WF_vars(Send(s))
       /\ WF_vars(Mark(s))
  /\ WF_vars(Tick)

Spec     == Init /\ [][Next]_vars
FairSpec == Spec /\ Fairness

-----------------------------------------------------------------------------
(* Properties.                                                              *)

OneServer == \A s, t \in Servers : s = t

\* A row is marked sent only after the channel accepted its mail, whatever
\* the number of servers, crashes and lost marks (dispatch: Send before
\* MarkOutboxSent).
SentWasDelivered ==
  \A r \in Rows : outbox[r].status = "sent" => delivered[r] > 0

\* With one server the attempts column never passes MaxAttempts, and a row
\* that can still be claimed has attempts left: the snapshot the worker
\* decides on (row.Attempts + 1) and the increment the UPDATE makes agree.
RetryBudget ==
  \A r \in Rows :
    /\ outbox[r].attempts <= MaxAttempts
    /\ outbox[r].status \in {"pending", "sent"} => outbox[r].attempts < MaxAttempts

\* A worker is between its claim of r and the mark of r.
Dispatched(r) == \E s \in Servers : pc[s] # "loop" /\ cur[s] = r

\* With one server every copy of a mail beyond the first is accounted for: by
\* an attempt that the row counts as failed (the mail server may have accepted
\* it before Send returned the error) or by a fault (a crash, a cancelled
\* context or a database error between Send and its mark).  A row nobody is
\* dispatching, still pending or given up, has no free first copy: a restart
\* without a fault repeats nothing, and a dead row has reached its recipient
\* only through an attempt that failed or a mark that was lost.
CopiesAreAccountedFor ==
  \A r \in Rows :
    /\ delivered[r] <= outbox[r].attempts + faults + 1
    /\ outbox[r].status # "sent" /\ ~Dispatched(r)
         => delivered[r] <= outbox[r].attempts + faults

\* Why the two hold, by induction: the rows a worker has claimed are still
\* as it read them, so its verdict and the UPDATE agree, and every copy of a
\* mail is paid for.  Credit is what a row may still have beyond its failed
\* attempts and the faults: one copy when it is sent or its answer is about to
\* be marked, one copy less while a cancelled worker, whose stop was a fault,
\* is still sending it.
Answered(r) ==
  \/ outbox[r].status = "sent"
  \/ \E s \in Servers :
       life[s] = "up" /\ pc[s] \in {"accepted", "refused"} /\ cur[s] = r

Cancelled(r) ==
  \E s \in Servers : life[s] = "stopping" /\ pc[s] = "sending" /\ cur[s] = r

Credit(r) == IF Answered(r) THEN 1 ELSE IF Cancelled(r) THEN -1 ELSE 0

ClaimsAreFresh ==
  \A s \in Servers :
    /\ \A r \in DOMAIN claimed[s] :
         /\ outbox[r].status = "pending"
         /\ outbox[r].attempts = claimed[s][r].attempts
    /\ pc[s] # "loop" => cur[s] \in DOMAIN claimed[s]
    /\ pc[s] = "accepted" => delivered[cur[s]] > 0
    /\ life[s] = "down" => pc[s] = "loop" /\ DOMAIN claimed[s] = {}

CopiesArePaidFor ==
  \A r \in Rows : delivered[r] <= outbox[r].attempts + faults + Credit(r)

OneServerInv == ClaimsAreFresh /\ CopiesArePaidFor /\ RetryBudget

\* With one server a row dies only with its attempts used up, or when the
\* server that dispatched it runs without the email channel.
DeadOnlyWhenExhausted ==
  [][\A r \in Rows :
       outbox[r].status # "dead" /\ outbox'[r].status = "dead" =>
         \/ outbox'[r].attempts = MaxAttempts
         \/ \E s \in Servers : ~emailOn[s] /\ r \in DOMAIN claimed[s]]_vars

\* A failed attempt that is not the last pushes the row at least the base
\* delay into the future, twice that after the second failure, and so on up
\* to the cap: a refusing mail server is never hammered.
RetriesBackOff ==
  [][\A r \in Rows :
       /\ outbox'[r].attempts > outbox[r].attempts
       /\ outbox'[r].status = "pending"
       => outbox'[r].due >= Least(Doubling(outbox'[r].attempts), MaxBackoff)]_vars

\* "fanned out to every active admin": when enqueue is done with an admin and
\* nothing failed, the admin has a row (email being on).
AdminsAreNotified ==
  [][\A s \in Servers :
       emit[s] # <<>> /\ emit'[s] = Tail(emit[s]) /\ Head(emit[s]) \in Admins
         /\ emailOn[s] /\ life'[s] = life[s] /\ faults' = 0
       => \E r \in Rows : outbox'[r].to = Head(emit[s])]_vars

\* The outbox implements Delivery.
Verdict == [absent |-> "none", pending |-> "queued",
            sent |-> "delivered", dead |-> "abandoned"]

Queue == INSTANCE Delivery WITH
  Messages <- Rows,
  state    <- [r \in Rows |-> Verdict[outbox[r].status]],
  copies   <- delivered

\* With one server: a settled row is never dispatched again and never changes
\* its verdict, and no row is settled without having been queued.
SettledOnce == Queue!Spec

\* The same with the promise that no row stays queued for ever.
SettledOnceAndEventually == Queue!FairSpec
=============================================================================
