---------------------------- MODULE OutboxProofs ----------------------------
(* Theorems about Outbox, for all values of its constants. *)
EXTENDS Outbox, FiniteSetTheorems, SequenceTheorems, TLAPS

-----------------------------------------------------------------------------
(* Type correctness.                                                        *)

\* Dropping a row from a claimed batch leaves a batch.
LEMMA RestIsClaim ==
  ASSUME TypeOK, NEW s \in Servers, NEW r
  PROVE  \E R \in SUBSET Rows : Rest(s, r) \in [R -> Snapshot]
<1>1. PICK R \in SUBSET Rows : claimed[s] \in [R -> Snapshot]
  BY DEF TypeOK
<1>2. Rest(s, r) \in [R \ {r} -> Snapshot]
  BY <1>1 DEF Rest
<1> QED
  BY <1>2

\* Replacing one worker's batch by a batch keeps every worker's batch typed.
LEMMA ClaimedUpdate ==
  ASSUME TypeOK, NEW s \in Servers, NEW c,
         \E R \in SUBSET Rows : c \in [R -> Snapshot],
         claimed' = [claimed EXCEPT ![s] = c]
  PROVE  /\ claimed' = [t \in Servers |-> claimed'[t]]
         /\ \A t \in Servers : \E R \in SUBSET Rows : claimed'[t] \in [R -> Snapshot]
<1>1. claimed = [t \in Servers |-> claimed[t]]
  BY DEF TypeOK
<1>2. claimed' = [t \in Servers |-> IF t = s THEN c ELSE claimed[t]]
  BY <1>1
<1> QED
  BY <1>2 DEF TypeOK

\* Rows stay rows when they are marked.
LEMMA MarkedRows ==
  ASSUME NEW row \in Row
  PROVE  /\ Dead(row) \in Row
         /\ \A d \in Int : Failed(row, d) \in Row
         /\ [row EXCEPT !.status = "sent"] \in Row
         /\ \A d \in Int : [row EXCEPT !.due = d] \in Row
<1>1. /\ row.status \in Statuses /\ row.to \in People \cup {None}
      /\ row.attempts \in Nat /\ row.due \in Int
  BY DEF Row
<1>2. /\ "dead" \in Statuses /\ "sent" \in Statuses /\ row.attempts + 1 \in Nat
  BY <1>1 DEF Statuses
<1>3. ASSUME NEW d \in Int PROVE Failed(row, d) \in Row
  BY <1>2 DEF Failed, Row
<1>4. Dead(row) \in Row
  <2>1. Dead(row) = [Failed(row, 0) EXCEPT !.status = "dead"]
    BY DEF Dead, Failed, Row
  <2> QED BY <1>2, <1>3, <2>1 DEF Row
<1>5. [row EXCEPT !.status = "sent"] \in Row
  BY <1>2 DEF Row
<1>6. ASSUME NEW d \in Int PROVE [row EXCEPT !.due = d] \in Row
  BY DEF Row
<1> QED
  BY <1>3, <1>4, <1>5, <1>6

\* Replacing one row by a row keeps the table typed.
LEMMA RowUpdate ==
  ASSUME TypeOK, NEW r \in Rows, NEW row \in Row,
         outbox' = [outbox EXCEPT ![r] = row]
  PROVE  outbox' \in [Rows -> Row]
BY DEF TypeOK

\* Sending adds at most one copy to one mailbox.
LEMMA SendCopies ==
  ASSUME TypeOK, NEW s \in Servers, Send(s)
  PROVE  /\ delivered' \in [Rows -> Nat]
         /\ \A r \in Rows : delivered[r] > 0 => delivered'[r] > 0
<1>1. cur[s] \in Rows
  BY DEF Send, SendOk, SendFails, TypeOK
<1>2. CASE delivered' = delivered
  BY <1>2 DEF TypeOK
<1>3. CASE delivered' = [delivered EXCEPT ![cur[s]] = @ + 1]
  BY <1>1, <1>3 DEF TypeOK
<1> QED
  BY <1>2, <1>3 DEF Send, SendOk, SendFails

LEMMA TypeInit == Init => TypeOK
<1> SUFFICES ASSUME Init PROVE TypeOK
  OBVIOUS
<1>1. \A s \in Servers : claimed[s] \in [{} -> Snapshot]
  BY DEF Init
<1>2. /\ claimed = [s \in Servers |-> claimed[s]]
      /\ \A s \in Servers : \E R \in SUBSET Rows : claimed[s] \in [R -> Snapshot]
  BY <1>1 DEF Init
<1>3. emit \in [Servers -> Seq(People)]
  BY EmptySeq DEF Init
<1>4. outbox \in [Rows -> Row]
  BY DEF Init, Row, Statuses
<1>5. pc \in [Servers -> {"loop", "sending", "accepted", "refused"}]
  BY DEF Init
<1>6. delivered \in [Rows -> Nat]
  BY DEF Init
<1> QED
  BY <1>2, <1>3, <1>4, <1>5, <1>6 DEF Init, TypeOK

\* Each action keeps the types.
LEMMA TypeStep == TypeOK /\ [Next]_vars => TypeOK'
<1> SUFFICES ASSUME TypeOK, [Next]_vars PROVE TypeOK'
  OBVIOUS
<1> USE OutboxAssumption
<1> USE DEF rowVars, prefVars, workerVars, emitVars, procVars, People, Statuses
<1>1. ASSUME NEW s \in Servers, Producer(s) PROVE TypeOK'
  <2>1. CASE Notify(s)
    <3>1. PICK e \in MemberEvents \cup AdminEvents : emit' = [emit EXCEPT ![s] = e]
      BY <2>1 DEF Notify
    <3>2. e \in Seq(People)
      <4>1. CASE e \in MemberEvents
        BY <4>1, SeqDef DEF MemberEvents
      <4>2. CASE e \in AdminEvents
        BY <4>2, FS_CardinalityType, SeqDef DEF AdminEvents
      <4> QED BY <4>1, <4>2
    <3> QED
      BY <2>1, <3>1, <3>2 DEF Notify, TypeOK
  <2>2. CASE SkipRecipient(s)
    BY <2>2 DEF SkipRecipient, NextRecipient, TypeOK
  <2>3. CASE ResolveRecipient(s)
    BY <2>3 DEF ResolveRecipient, Fault, TypeOK
  <2>4. CASE InsertRow(s)
    <3>1. Head(emit[s]) \in People /\ emit' \in [Servers -> Seq(People)]
      BY <2>4, HeadTailProperties DEF InsertRow, NextRecipient, TypeOK
    <3>2. outbox' \in [Rows -> Row]
      <4>1. CASE emailOn[s]
        <5>1. PICK r \in Rows : outbox' = [outbox EXCEPT ![r] =
                [status |-> "pending", to |-> Head(emit[s]), attempts |-> 0, due |-> 0]]
          BY <2>4, <4>1 DEF InsertRow, Unused
        <5>2. [status |-> "pending", to |-> Head(emit[s]), attempts |-> 0, due |-> 0] \in Row
          BY <3>1 DEF Row
        <5> QED BY <5>1, <5>2, RowUpdate
      <4> QED BY <2>4, <4>1 DEF InsertRow, TypeOK
    <3> QED
      BY <2>4, <3>1, <3>2 DEF InsertRow, NextRecipient, TypeOK
  <2>5. CASE DropRow(s)
    BY <2>5 DEF DropRow, NextRecipient, Fault, TypeOK
  <2> QED
    BY <1>1, <2>1, <2>2, <2>3, <2>4, <2>5 DEF Producer
<1>2. ASSUME NEW s \in Servers, Claim(s) PROVE TypeOK'
  <2>1. PICK R \in SUBSET Due :
          claimed' = [claimed EXCEPT ![s] =
            [r \in R |-> [attempts |-> outbox[r].attempts, due |-> outbox[r].due]]]
    BY <1>2 DEF Claim
  <2>2. R \in SUBSET Rows
    BY DEF Due
  <2>3. [r \in R |-> [attempts |-> outbox[r].attempts, due |-> outbox[r].due]]
          \in [R -> Snapshot]
    BY <2>2 DEF TypeOK, Snapshot, Row
  <2> QED
    BY <1>2, <2>1, <2>2, <2>3, ClaimedUpdate DEF Claim, TypeOK
<1>3. ASSUME NEW s \in Servers, Dispatch(s) PROVE TypeOK'
  <2>1. PICK r \in Rows : UnknownChannel(s, r) \/ StartSend(s, r)
    BY <1>3 DEF Dispatch
  <2>2. CASE UnknownChannel(s, r)
    <3>1. /\ claimed' = [t \in Servers |-> claimed'[t]]
          /\ \A t \in Servers : \E R \in SUBSET Rows : claimed'[t] \in [R -> Snapshot]
      BY <2>2, ClaimedUpdate, RestIsClaim DEF UnknownChannel
    <3>2. outbox' \in [Rows -> Row]
      <4>1. CASE outbox' = [outbox EXCEPT ![r] = Dead(@)]
        BY <4>1, RowUpdate, MarkedRows DEF TypeOK
      <4> QED BY <2>2, <4>1 DEF UnknownChannel, TypeOK
    <3>3. faults' \in Nat
      BY <2>2 DEF UnknownChannel, Fault, TypeOK
    <3> QED
      BY <2>2, <3>1, <3>2, <3>3 DEF UnknownChannel, TypeOK
  <2>3. CASE StartSend(s, r)
    BY <2>3 DEF StartSend, TypeOK
  <2> QED
    BY <2>1, <2>2, <2>3
<1>4. ASSUME NEW s \in Servers, Send(s) PROVE TypeOK'
  <2>1. cur[s] \in Rows
    BY <1>4 DEF Send, SendOk, SendFails, TypeOK
  <2>2. CASE SendOk(s)
    <3>1. delivered' \in [Rows -> Nat]
      BY <2>1, <2>2 DEF SendOk, TypeOK
    <3> QED BY <2>1, <2>2, <3>1 DEF SendOk, TypeOK
  <2>3. CASE SendFails(s)
    <3>1. delivered' \in [Rows -> Nat]
      BY <1>4, SendCopies
    <3> QED BY <2>1, <2>3, <3>1 DEF SendFails, TypeOK
  <2> QED
    BY <1>4, <2>2, <2>3 DEF Send
<1>5. ASSUME NEW s \in Servers, Mark(s) PROVE TypeOK'
  <2>1. /\ claimed' = [t \in Servers |-> claimed'[t]]
        /\ \A t \in Servers : \E R \in SUBSET Rows : claimed'[t] \in [R -> Snapshot]
    BY <1>5, ClaimedUpdate, RestIsClaim
    DEF Mark, MarkSent, GiveUp, Retry, LoseMark, Return
  <2>2. /\ pc' \in [Servers -> {"loop", "sending", "accepted", "refused"}]
        /\ cur' \in [Servers -> Rows \cup {None}]
        /\ \A t \in Servers : pc'[t] # "loop" => cur'[t] \in Rows
        /\ cur[s] \in Rows /\ outbox[cur[s]] \in Row
    BY <1>5 DEF Mark, MarkSent, GiveUp, Retry, LoseMark, Return, TypeOK
  <2>3. CASE MarkSent(s)
    <3>1. outbox' = [outbox EXCEPT ![cur[s]] = [outbox[cur[s]] EXCEPT !.status = "sent"]]
      BY <2>2, <2>3 DEF MarkSent, TypeOK
    <3>2. outbox' \in [Rows -> Row]
      BY <2>2, <3>1, RowUpdate, MarkedRows
    <3> QED BY <2>1, <2>2, <2>3, <3>2 DEF MarkSent, TypeOK
  <2>4. CASE GiveUp(s)
    <3>1. outbox' = [outbox EXCEPT ![cur[s]] = Dead(outbox[cur[s]])]
      BY <2>2, <2>4 DEF GiveUp, TypeOK
    <3>2. outbox' \in [Rows -> Row]
      BY <2>2, <3>1, RowUpdate, MarkedRows
    <3> QED BY <2>1, <2>2, <2>4, <3>2 DEF GiveUp, TypeOK
  <2>5. CASE Retry(s)
    <3>1. PICK d \in Backoffs(Attempts(s)) :
            outbox' = [outbox EXCEPT ![cur[s]] = Failed(outbox[cur[s]], d)]
      BY <2>2, <2>5 DEF Retry, TypeOK
    <3>2. d \in Int
      BY <3>1 DEF Backoffs
    <3>3. outbox' \in [Rows -> Row]
      BY <2>2, <3>1, <3>2, RowUpdate, MarkedRows
    <3> QED BY <2>1, <2>2, <2>5, <3>3 DEF Retry, TypeOK
  <2>6. CASE LoseMark(s)
    BY <2>1, <2>2, <2>6 DEF LoseMark, Fault, TypeOK
  <2> QED
    BY <1>5, <2>3, <2>4, <2>5, <2>6 DEF Mark
<1>6. ASSUME NEW s \in Servers, Process(s) PROVE TypeOK'
  <2>1. CASE Stop(s)
    BY <2>1 DEF Stop, Fault, TypeOK
  <2>2. CASE Gone(s) /\ (faults' = faults \/ faults' = faults + 1)
    <3>1. <<>> \in [{} -> Snapshot]
      OBVIOUS
    <3>2. /\ claimed' = [t \in Servers |-> claimed'[t]]
          /\ \A t \in Servers : \E R \in SUBSET Rows : claimed'[t] \in [R -> Snapshot]
      BY <2>2, <3>1, ClaimedUpdate DEF Gone
    <3>3. emit' \in [Servers -> Seq(People)]
      BY <2>2, EmptySeq DEF Gone, TypeOK
    <3>4. /\ pc' \in [Servers -> {"loop", "sending", "accepted", "refused"}]
          /\ cur' \in [Servers -> Rows \cup {None}]
          /\ \A t \in Servers : pc'[t] # "loop" => cur'[t] \in Rows
      BY <2>2 DEF Gone, TypeOK
    <3>5. ready' \in [Servers -> BOOLEAN] /\ faults' \in Nat
      BY <2>2 DEF Gone, TypeOK
    <3>6. life' \in [Servers -> {"down", "up", "stopping"}]
      BY <2>2 DEF Gone, TypeOK
    <3> QED
      BY <2>2, <3>2, <3>3, <3>4, <3>5, <3>6 DEF Gone, TypeOK
  <2>3. CASE Start(s)
    BY <2>3 DEF Start, TypeOK
  <2> QED
    BY <1>6, <2>1, <2>2, <2>3 DEF Process, Exit, Crash, Fault
<1>7. ASSUME Preference PROVE TypeOK'
  BY <1>7 DEF Preference, Unsubscribe, Resume, RemoveMember, TypeOK
<1>8. CASE Tick
  <2>1. outbox' \in [Rows -> Row]
    <3>1. \A r \in Rows : [outbox[r] EXCEPT !.due = Greatest(-Horizon, @ - 1)] \in Row
      <4>1. \A r \in Rows : outbox[r] \in Row /\ outbox[r].due \in Int
        BY DEF TypeOK, Row
      <4>2. \A r \in Rows : Greatest(-Horizon, outbox[r].due - 1) \in Int
        BY <4>1 DEF Greatest
      <4> QED BY <4>1, <4>2, MarkedRows
    <3> QED BY <1>8, <3>1 DEF Tick, TypeOK
  <2> QED
    BY <1>8, <2>1 DEF Tick, TypeOK
<1>9. CASE UNCHANGED vars
  BY <1>9 DEF vars, TypeOK
<1> QED
  BY <1>1, <1>2, <1>3, <1>4, <1>5, <1>6, <1>7, <1>8, <1>9 DEF Next

\* The variables of the outbox keep their types.
THEOREM TypeCorrect == Spec => []TypeOK
BY TypeInit, TypeStep, PTL DEF Spec

-----------------------------------------------------------------------------
(* Any number of servers: sent means delivered.                             *)

AcceptedWasDelivered ==
  \A s \in Servers : pc[s] = "accepted" => delivered[cur[s]] > 0

LEMMA SentStep ==
  TypeOK /\ SentWasDelivered /\ AcceptedWasDelivered /\ [Next]_vars
    => (SentWasDelivered /\ AcceptedWasDelivered)'
<1> SUFFICES ASSUME TypeOK, SentWasDelivered, AcceptedWasDelivered, [Next]_vars
             PROVE  (SentWasDelivered /\ AcceptedWasDelivered)'
  OBVIOUS
<1> USE DEF rowVars, prefVars, workerVars, emitVars, procVars
<1>0. ASSUME UNCHANGED <<outbox, delivered>>,
             \A s \in Servers : pc'[s] = "accepted" => pc[s] = "accepted" /\ cur'[s] = cur[s]
      PROVE  (SentWasDelivered /\ AcceptedWasDelivered)'
  BY <1>0 DEF SentWasDelivered, AcceptedWasDelivered
<1>1. ASSUME NEW s \in Servers, Producer(s)
      PROVE  (SentWasDelivered /\ AcceptedWasDelivered)'
  <2>1. CASE InsertRow(s) /\ emailOn[s]
    <3>1. PICK r \in Rows : outbox' = [outbox EXCEPT ![r] =
            [status |-> "pending", to |-> Head(emit[s]), attempts |-> 0, due |-> 0]]
      BY <2>1 DEF InsertRow, Unused
    <3>2. \A q \in Rows : outbox'[q].status = "sent" => outbox[q].status = "sent"
      BY <3>1 DEF TypeOK
    <3> QED
      BY <2>1, <3>2 DEF InsertRow, SentWasDelivered, AcceptedWasDelivered
  <2> QED
    BY <1>0, <1>1, <2>1
    DEF Producer, Notify, SkipRecipient, ResolveRecipient, InsertRow, DropRow
<1>2. ASSUME NEW s \in Servers, Claim(s) \/ Process(s)
      PROVE  (SentWasDelivered /\ AcceptedWasDelivered)'
  BY <1>0, <1>2 DEF Claim, Process, Stop, Exit, Crash, Start, Gone, TypeOK
<1>3. ASSUME NEW s \in Servers, Dispatch(s)
      PROVE  (SentWasDelivered /\ AcceptedWasDelivered)'
  <2>1. PICK r \in Rows : UnknownChannel(s, r) \/ StartSend(s, r)
    BY <1>3 DEF Dispatch
  <2>2. CASE UnknownChannel(s, r) /\ outbox' = [outbox EXCEPT ![r] = Dead(@)]
    <3>1. Dead(outbox[r]).status = "dead"
      BY DEF Dead, TypeOK, Row
    <3>2. \A q \in Rows : outbox'[q].status = "sent" => outbox[q].status = "sent"
      BY <2>2, <3>1 DEF TypeOK
    <3> QED
      BY <2>2, <3>2 DEF UnknownChannel, SentWasDelivered, AcceptedWasDelivered
  <2>3. CASE StartSend(s, r)
    BY <1>0, <2>3 DEF StartSend, TypeOK
  <2> QED
    BY <1>0, <2>1, <2>2, <2>3 DEF UnknownChannel
<1>4. ASSUME NEW s \in Servers, Send(s)
      PROVE  (SentWasDelivered /\ AcceptedWasDelivered)'
  <2>1. CASE SendOk(s)
    <3>1. /\ cur[s] \in Rows /\ delivered'[cur[s]] > 0
          /\ \A r \in Rows : delivered[r] > 0 => delivered'[r] > 0
      BY <2>1 DEF SendOk, TypeOK
    <3>2. SentWasDelivered'
      BY <2>1, <3>1 DEF SendOk, SentWasDelivered
    <3>3. AcceptedWasDelivered'
      BY <2>1, <3>1 DEF SendOk, AcceptedWasDelivered, TypeOK
    <3> QED BY <3>2, <3>3
  <2>2. CASE SendFails(s)
    <3>1. /\ cur[s] \in Rows
          /\ \A r \in Rows : delivered[r] > 0 => delivered'[r] > 0
      BY <1>4, <2>2, SendCopies DEF SendFails, TypeOK
    <3>2. SentWasDelivered'
      BY <2>2, <3>1 DEF SendFails, SentWasDelivered
    <3>3. AcceptedWasDelivered'
      BY <2>2, <3>1 DEF SendFails, AcceptedWasDelivered, TypeOK
    <3> QED BY <3>2, <3>3
  <2> QED
    BY <1>4, <2>1, <2>2 DEF Send
<1>5. ASSUME NEW s \in Servers, Mark(s)
      PROVE  (SentWasDelivered /\ AcceptedWasDelivered)'
  <2>1. /\ delivered' = delivered
        /\ \A t \in Servers : pc'[t] = "accepted" => pc[t] = "accepted" /\ cur'[t] = cur[t]
        /\ cur[s] \in Rows
    BY <1>5 DEF Mark, MarkSent, GiveUp, Retry, LoseMark, Return, TypeOK
  <2>2. AcceptedWasDelivered'
    BY <2>1 DEF AcceptedWasDelivered
  <2>3. CASE MarkSent(s)
    <3>1. delivered[cur[s]] > 0
      BY <2>3 DEF MarkSent, AcceptedWasDelivered
    <3>2. \A q \in Rows : q # cur[s] => outbox'[q] = outbox[q]
      BY <2>3 DEF MarkSent, TypeOK
    <3> QED BY <2>1, <2>2, <3>1, <3>2 DEF SentWasDelivered
  <2>4. CASE GiveUp(s)
    <3>1. Dead(outbox[cur[s]]).status = "dead"
      BY <2>1 DEF Dead, TypeOK, Row
    <3>2. \A q \in Rows : outbox'[q].status = "sent" => outbox[q].status = "sent"
      BY <2>4, <3>1 DEF GiveUp, TypeOK
    <3> QED BY <2>1, <2>2, <3>2 DEF SentWasDelivered
  <2>5. CASE Retry(s)
    <3>1. PICK d : outbox' = [outbox EXCEPT ![cur[s]] = Failed(@, d)]
      BY <2>5 DEF Retry
    <3>2. Failed(outbox[cur[s]], d).status = outbox[cur[s]].status
      BY <2>1 DEF Failed, TypeOK, Row
    <3>3. \A q \in Rows : outbox'[q].status = outbox[q].status
      BY <3>1, <3>2 DEF TypeOK
    <3> QED BY <2>1, <2>2, <3>3 DEF SentWasDelivered
  <2>6. CASE LoseMark(s)
    BY <1>0, <2>1, <2>6 DEF LoseMark
  <2> QED
    BY <1>5, <2>3, <2>4, <2>5, <2>6 DEF Mark
<1>6. CASE Preference
  BY <1>0, <1>6 DEF Preference, Unsubscribe, Resume, RemoveMember
<1>7. CASE Tick
  <2>1. \A r \in Rows : outbox'[r].status = outbox[r].status
    BY <1>7 DEF Tick, TypeOK, Row
  <2> QED
    BY <1>7, <2>1 DEF Tick, SentWasDelivered, AcceptedWasDelivered
<1>8. CASE UNCHANGED vars
  BY <1>0, <1>8 DEF vars
<1> QED
  BY <1>1, <1>2, <1>3, <1>4, <1>5, <1>6, <1>7, <1>8 DEF Next

\* However many servers run, crash and lose their marks, a row is marked sent
\* only after its mail went out.
THEOREM SentImpliesDelivered == Spec => []SentWasDelivered
<1>1. Init => SentWasDelivered /\ AcceptedWasDelivered
  BY DEF Init, SentWasDelivered, AcceptedWasDelivered
<1> QED
  BY <1>1, TypeCorrect, SentStep, PTL DEF Spec

-----------------------------------------------------------------------------
(* What one step may do to one row, with any number of servers.             *)

RowInserted(r) == outbox[r].status = "absent" /\ outbox'[r].attempts = 0 /\ outbox'[r].status # "dead"
RowUnrouted(r) == \E s \in Servers : /\ ~emailOn[s] /\ r \in DOMAIN claimed[s]
                                     /\ outbox'[r] = Dead(outbox[r])
RowGivenUp(r)  == \E s \in Servers : GiveUp(s) /\ cur[s] = r /\ outbox'[r] = Dead(outbox[r])
RowRetried(r)  == \E s \in Servers :
                    /\ Retry(s) /\ cur[s] = r
                    /\ \E d \in Backoffs(Attempts(s)) : outbox'[r] = Failed(outbox[r], d)
RowCounted(r)  == /\ outbox'[r].attempts = outbox[r].attempts
                  /\ outbox'[r].status \in {outbox[r].status, "sent"}

LEMMA RowStep ==
  ASSUME TypeOK, [Next]_vars, NEW r \in Rows
  PROVE  RowCounted(r) \/ RowInserted(r) \/ RowUnrouted(r) \/ RowGivenUp(r) \/ RowRetried(r)
<1> USE DEF rowVars, prefVars, workerVars, emitVars, procVars
<1>0. ASSUME UNCHANGED outbox PROVE RowCounted(r)
  BY <1>0 DEF RowCounted
<1>1. ASSUME NEW s \in Servers, Producer(s) PROVE RowCounted(r) \/ RowInserted(r)
  <2>1. CASE InsertRow(s) /\ emailOn[s]
    <3>1. PICK q \in Unused :
            outbox' = [outbox EXCEPT ![q] = [status |-> "pending", to |-> Head(emit[s]),
                                             attempts |-> 0, due |-> 0]]
      BY <2>1 DEF InsertRow
    <3>2. CASE r = q
      BY <3>1, <3>2 DEF Unused, RowInserted, TypeOK
    <3>3. CASE r # q
      BY <3>1, <3>3 DEF RowCounted, TypeOK
    <3> QED
      BY <3>2, <3>3
  <2> QED
    BY <1>0, <1>1, <2>1 DEF Producer, Notify, SkipRecipient, ResolveRecipient, InsertRow, DropRow
<1>2. ASSUME NEW s \in Servers, NEW q \in Rows, UnknownChannel(s, q)
      PROVE  RowCounted(r) \/ RowUnrouted(r)
  BY <1>0, <1>2 DEF UnknownChannel, IsNext, RowUnrouted, RowCounted, TypeOK
<1>3. ASSUME NEW s \in Servers, Mark(s)
      PROVE  RowCounted(r) \/ RowGivenUp(r) \/ RowRetried(r)
  <2>0. /\ pc[s] # "loop" /\ cur[s] \in Rows /\ outbox[cur[s]] \in Row
        /\ (r # cur[s] => outbox'[r] = outbox[r])
    BY <1>3 DEF Mark, MarkSent, GiveUp, Retry, LoseMark, TypeOK
  <2>1. CASE r # cur[s]
    BY <2>0, <2>1 DEF RowCounted
  <2>2. CASE r = cur[s] /\ MarkSent(s)
    BY <2>0, <2>2 DEF MarkSent, RowCounted, Row, TypeOK
  <2>3. CASE r = cur[s] /\ GiveUp(s)
    BY <2>0, <2>3 DEF GiveUp, RowGivenUp, TypeOK
  <2>4. CASE r = cur[s] /\ Retry(s)
    BY <2>0, <2>4 DEF Retry, RowRetried, TypeOK
  <2>5. CASE LoseMark(s)
    BY <1>0, <2>5 DEF LoseMark
  <2> QED
    BY <1>3, <2>1, <2>2, <2>3, <2>4, <2>5 DEF Mark
<1>4. ASSUME NEW s \in Servers,
             Claim(s) \/ (\E q \in Rows : StartSend(s, q)) \/ Send(s) \/ Process(s)
      PROVE  UNCHANGED outbox
  BY <1>4 DEF Claim, StartSend, Send, SendOk, SendFails, Process, Stop, Exit, Crash, Start, Gone
<1>5. CASE Preference
  BY <1>0, <1>5 DEF Preference, Unsubscribe, Resume, RemoveMember
<1>6. CASE Tick
  BY <1>6 DEF Tick, RowCounted, TypeOK, Row
<1>7. CASE UNCHANGED vars
  BY <1>0, <1>7 DEF vars
<1> QED
  BY <1>0, <1>1, <1>2, <1>3, <1>4, <1>5, <1>6, <1>7 DEF Next, Dispatch

-----------------------------------------------------------------------------
(* One server: attempts are counted right, copies are accounted for.        *)

\* What a mark does to the fields of a row.
LEMMA MarkFields ==
  ASSUME NEW row \in Row, NEW d
  PROVE  /\ Dead(row).status = "dead" /\ Dead(row).attempts = row.attempts + 1
         /\ Failed(row, d).status = row.status
         /\ Failed(row, d).attempts = row.attempts + 1
         /\ Failed(row, d).due = d /\ Failed(row, d).to = row.to
BY DEF Row, Dead, Failed

\* With one server s, Credit speaks of s alone.
LEMMA CreditOfOne ==
  ASSUME OneServer, NEW s \in Servers, NEW r
  PROVE  /\ Answered(r) <=> \/ outbox[r].status = "sent"
                             \/ /\ life[s] = "up" /\ cur[s] = r
                                /\ pc[s] \in {"accepted", "refused"}
         /\ Cancelled(r) <=> life[s] = "stopping" /\ pc[s] = "sending" /\ cur[s] = r
BY DEF OneServer, Answered, Cancelled

LEMMA CreditOfOnePrime ==
  ASSUME OneServer, NEW s \in Servers, NEW r
  PROVE  /\ Answered(r)' <=> \/ outbox'[r].status = "sent"
                              \/ /\ life'[s] = "up" /\ cur'[s] = r
                                 /\ pc'[s] \in {"accepted", "refused"}
         /\ Cancelled(r)' <=> life'[s] = "stopping" /\ pc'[s] = "sending" /\ cur'[s] = r
BY DEF OneServer, Answered, Cancelled

\* The dispatched row is typed, and unchanged but for the other rows.
LEMMA WorkerFacts ==
  ASSUME TypeOK, OneServerInv, NEW s \in Servers
  PROVE  /\ DOMAIN claimed[s] \subseteq Rows
         /\ pc[s] # "loop" => /\ cur[s] \in Rows
                              /\ cur[s] \in DOMAIN claimed[s]
                              /\ outbox[cur[s]].status = "pending"
                              /\ Attempts(s) = outbox[cur[s]].attempts + 1
BY DEF TypeOK, OneServerInv, ClaimsAreFresh, Attempts

\* A step that changes neither the rows nor the worker keeps the invariant.
LEMMA BystanderStep ==
  ASSUME OneServer, TypeOK, OneServerInv,
         UNCHANGED <<outbox, delivered, pc, cur, claimed, life>>,
         faults' = faults \/ faults' = faults + 1
  PROVE  OneServerInv'
<1>1. ClaimsAreFresh' /\ RetryBudget'
  BY DEF OneServerInv, ClaimsAreFresh, RetryBudget
<1>2. ASSUME NEW r \in Rows
      PROVE  delivered'[r] <= outbox'[r].attempts + faults' + Credit(r)'
  <2>1. Credit(r)' = Credit(r)
    BY DEF Credit, Answered, Cancelled
  <2>2. /\ Credit(r) \in Int /\ delivered[r] \in Nat /\ faults \in Nat
        /\ outbox[r].attempts \in Nat
    BY DEF Credit, TypeOK, Row
  <2>3. delivered[r] <= outbox[r].attempts + faults + Credit(r)
    BY DEF OneServerInv, CopiesArePaidFor
  <2> QED
    BY <2>1, <2>2, <2>3
<1> QED
  BY <1>1, <1>2 DEF OneServerInv, CopiesArePaidFor

\* A row id that no insert has drawn has no attempts to count.
UndrawnAreUncounted ==
  \A r \in Rows : outbox[r].status = "absent" => outbox[r].attempts = 0

LEMMA UndrawnStep ==
  ASSUME TypeOK, OneServerInv, UndrawnAreUncounted, [Next]_vars
  PROVE  UndrawnAreUncounted'
<1> SUFFICES ASSUME NEW r \in Rows, outbox'[r].status = "absent"
             PROVE  outbox'[r].attempts = 0
  BY DEF UndrawnAreUncounted
<1>0. outbox[r] \in Row
  BY DEF TypeOK
<1>1. ~RowUnrouted(r) /\ ~RowGivenUp(r)
  BY <1>0, MarkFields DEF RowUnrouted, RowGivenUp
<1>2. ~RowRetried(r)
  BY <1>0, MarkFields, WorkerFacts DEF RowRetried, Retry
<1> QED
  BY <1>1, <1>2, RowStep DEF RowCounted, RowInserted, UndrawnAreUncounted

\* A row drawn for an insert was nobody's claim.
LEMMA InsertStep ==
  ASSUME OneServer, TypeOK, OneServerInv, UndrawnAreUncounted,
         NEW s \in Servers, InsertRow(s), emailOn[s]
  PROVE  OneServerInv'
<1> USE OutboxAssumption
<1>1. PICK r \in Rows :
        /\ outbox[r].status = "absent"
        /\ outbox' = [outbox EXCEPT ![r] = [status |-> "pending", to |-> Head(emit[s]),
                                           attempts |-> 0, due |-> 0]]
  BY DEF InsertRow, Unused
<1>2. UNCHANGED <<delivered, pc, cur, claimed, life, faults>>
  BY DEF InsertRow, workerVars, procVars
<1>3. \A q \in Rows : q # r => outbox'[q] = outbox[q]
  BY <1>1 DEF TypeOK
<1>4. outbox'[r].status = "pending" /\ outbox'[r].attempts = 0
  BY <1>1 DEF TypeOK
<1>5. ClaimsAreFresh'
  <2>1. r \notin DOMAIN claimed[s]
    BY <1>1 DEF OneServerInv, ClaimsAreFresh
  <2>2. DOMAIN claimed[s] \subseteq Rows
    BY WorkerFacts
  <2> QED
    BY <1>2, <1>3, <2>1, <2>2 DEF OneServer, OneServerInv, ClaimsAreFresh
<1>6. RetryBudget'
  BY <1>3, <1>4 DEF OneServerInv, RetryBudget
<1>7. ASSUME NEW q \in Rows
      PROVE  delivered'[q] <= outbox'[q].attempts + faults' + Credit(q)'
  <2>1. Credit(q)' = Credit(q)
    BY <1>1, <1>2, <1>3, <1>4, CreditOfOne, CreditOfOnePrime DEF Credit
  <2>2. outbox'[q].attempts = outbox[q].attempts
    BY <1>1, <1>3, <1>4 DEF UndrawnAreUncounted
  <2> QED
    BY <1>2, <2>1, <2>2 DEF OneServerInv, CopiesArePaidFor
<1> QED
  BY <1>5, <1>6, <1>7 DEF OneServerInv, CopiesArePaidFor

\* A claim copies rows that are pending.
LEMMA ClaimStep ==
  ASSUME OneServer, TypeOK, OneServerInv, NEW s \in Servers, Claim(s)
  PROVE  OneServerInv'
<1>1. PICK R \in SUBSET Due :
        claimed' = [claimed EXCEPT ![s] =
          [r \in R |-> [attempts |-> outbox[r].attempts, due |-> outbox[r].due]]]
  BY DEF Claim
<1>2. UNCHANGED <<outbox, delivered, pc, cur, life, faults>>
  BY DEF Claim, rowVars, procVars
<1>3. claimed'[s] = [r \in R |-> [attempts |-> outbox[r].attempts, due |-> outbox[r].due]]
  BY <1>1 DEF TypeOK
<1>4. \A r \in DOMAIN claimed'[s] : /\ outbox[r].status = "pending"
                                    /\ outbox[r].attempts = claimed'[s][r].attempts
  BY <1>3 DEF Due
<1>5. ClaimsAreFresh'
  BY <1>2, <1>4 DEF OneServer, OneServerInv, ClaimsAreFresh, Claim
<1>6. CopiesArePaidFor' /\ RetryBudget'
  BY <1>2 DEF OneServerInv, CopiesArePaidFor, RetryBudget, Credit, Answered, Cancelled
<1> QED
  BY <1>5, <1>6 DEF OneServerInv

\* The copies stay paid for when each row's bill grows no faster than its
\* attempts, its credit and the faults together.
LEMMA CopiesStep ==
  ASSUME TypeOK, TypeOK', OneServerInv,
         \A q \in Rows :
           delivered'[q] - delivered[q] <= (outbox'[q].attempts - outbox[q].attempts)
             + (faults' - faults) + (Credit(q)' - Credit(q))
  PROVE  CopiesArePaidFor'
<1>1. \A q \in Rows : Credit(q) \in Int /\ Credit(q)' \in Int
  BY DEF Credit
<1>2. \A q \in Rows : /\ delivered[q] \in Nat /\ delivered'[q] \in Nat
                     /\ outbox[q].attempts \in Nat /\ outbox'[q].attempts \in Nat
  BY DEF TypeOK, Row
<1>3. faults \in Nat /\ faults' \in Nat
  BY DEF TypeOK
<1>4. \A q \in Rows : delivered[q] <= outbox[q].attempts + faults + Credit(q)
  BY DEF OneServerInv, CopiesArePaidFor
<1> QED
  BY <1>1, <1>2, <1>3, <1>4 DEF CopiesArePaidFor

\* A step that sends nothing keeps the copies paid for when it lowers neither
\* the attempts and the credit of a row together nor the faults.
LEMMA NoCopyStep ==
  ASSUME TypeOK, TypeOK', OneServerInv, UNCHANGED delivered,
         \A q \in Rows :
           0 <= (outbox'[q].attempts - outbox[q].attempts)
             + (faults' - faults) + (Credit(q)' - Credit(q))
  PROVE  CopiesArePaidFor'
<1>1. \A q \in Rows : delivered[q] \in Nat /\ delivered'[q] - delivered[q] = 0
  BY DEF TypeOK
<1> QED
  BY <1>1, CopiesStep

LEMMA DispatchStep ==
  ASSUME OneServer, TypeOK, TypeOK', OneServerInv,
         NEW s \in Servers, NEW r \in Rows, UnknownChannel(s, r) \/ StartSend(s, r)
  PROVE  OneServerInv'
<1> USE OutboxAssumption
<1>1. /\ life[s] = "up" /\ pc[s] = "loop" /\ r \in DOMAIN claimed[s]
      /\ outbox[r].status = "pending" /\ outbox[r].attempts < MaxAttempts
      /\ UNCHANGED <<delivered, life>> /\ DOMAIN claimed[s] \subseteq Rows
  BY WorkerFacts
  DEF UnknownChannel, StartSend, IsNext, OneServerInv, ClaimsAreFresh, RetryBudget,
      rowVars, procVars
<1>2. /\ \A q \in Rows : Credit(q) \in Int /\ outbox[q].attempts \in Nat
      /\ faults \in Nat
  BY DEF Credit, TypeOK, Row
<1>3. CASE UnknownChannel(s, r)
  <2>1. UNCHANGED <<pc, cur>> /\ faults' \in Nat /\ faults' >= faults
    BY <1>3 DEF UnknownChannel, Fault, TypeOK
  <2>2. claimed'[s] = Rest(s, r)
    BY <1>3 DEF UnknownChannel, TypeOK
  <2>3. \/ outbox' = outbox
        \/ outbox' = [outbox EXCEPT ![r] = Dead(outbox[r])]
    BY <1>3 DEF UnknownChannel
  <2>4. \A q \in Rows : q # r => outbox'[q] = outbox[q]
    BY <2>3 DEF TypeOK
  <2>5. /\ outbox'[r].status \in {"pending", "dead"}
        /\ outbox'[r].status = "pending" => outbox'[r] = outbox[r]
        /\ outbox'[r].attempts <= MaxAttempts
        /\ outbox'[r].attempts \in {outbox[r].attempts, outbox[r].attempts + 1}
    <3>1. /\ Dead(outbox[r]).status = "dead"
          /\ Dead(outbox[r]).attempts = outbox[r].attempts + 1
          /\ outbox[r].attempts \in Nat
      BY MarkFields DEF TypeOK, Row
    <3> QED BY <1>1, <2>3, <3>1 DEF TypeOK
  <2>6. ClaimsAreFresh'
    <3>1. \A q \in DOMAIN claimed'[s] :
            /\ q \in DOMAIN claimed[s] /\ outbox'[q] = outbox[q]
            /\ claimed'[s][q] = claimed[s][q]
      <4>1. /\ DOMAIN claimed'[s] = DOMAIN claimed[s] \ {r}
            /\ \A q \in DOMAIN claimed'[s] : claimed'[s][q] = claimed[s][q]
        BY <2>2 DEF Rest
      <4> QED
        BY <1>1, <2>4, <4>1
    <3>2. \A t \in Servers : t = s
      BY DEF OneServer
    <3> QED
      BY <1>1, <2>1, <3>1, <3>2 DEF OneServerInv, ClaimsAreFresh
  <2>7. RetryBudget'
    BY <1>1, <2>4, <2>5 DEF OneServerInv, RetryBudget
  <2>8. \A q \in Rows : Credit(q)' = Credit(q)
    BY <1>1, <2>1, <2>4, <2>5, CreditOfOne, CreditOfOnePrime DEF Credit
  <2>9. CopiesArePaidFor'
    <3>1. \A q \in Rows : outbox'[q].attempts - outbox[q].attempts >= 0
      BY <1>2, <2>4, <2>5
    <3>2. \A q \in Rows : outbox'[q].attempts \in Nat
      BY DEF TypeOK, Row
    <3> QED BY <1>1, <1>2, <2>1, <2>8, <3>1, <3>2, NoCopyStep
  <2> QED
    BY <2>6, <2>7, <2>9 DEF OneServerInv
<1>4. CASE StartSend(s, r)
  <2>1. UNCHANGED <<outbox, claimed, faults>> /\ pc'[s] = "sending" /\ cur'[s] = r
    BY <1>4 DEF StartSend, TypeOK, rowVars
  <2>2. ClaimsAreFresh'
    BY <1>1, <2>1 DEF OneServer, OneServerInv, ClaimsAreFresh
  <2>3. RetryBudget'
    BY <2>1 DEF OneServerInv, RetryBudget
  <2>4. \A q \in Rows : Credit(q)' = Credit(q)
    BY <1>1, <2>1, CreditOfOne, CreditOfOnePrime DEF Credit
  <2>5. CopiesArePaidFor'
    BY <1>1, <1>2, <2>1, <2>4, NoCopyStep
  <2> QED
    BY <2>2, <2>3, <2>5 DEF OneServerInv
<1> QED
  BY <1>3, <1>4

LEMMA SendStep ==
  ASSUME OneServer, TypeOK, TypeOK', OneServerInv, NEW s \in Servers, Send(s)
  PROVE  OneServerInv'
<1>1. /\ pc[s] = "sending" /\ life[s] \in {"up", "stopping"}
      /\ cur[s] \in Rows /\ cur[s] \in DOMAIN claimed[s]
      /\ outbox[cur[s]].status = "pending"
      /\ UNCHANGED <<outbox, cur, claimed, life, faults>>
  BY WorkerFacts
  DEF Send, SendOk, SendFails, rowVars, procVars, TypeOK, OneServerInv, ClaimsAreFresh
<1>2. ClaimsAreFresh'
  <2>1. pc'[s] \in {"accepted", "refused"}
    BY DEF Send, SendOk, SendFails, TypeOK
  <2>2. pc'[s] = "accepted" => delivered'[cur[s]] > 0
    BY <1>1 DEF Send, SendOk, SendFails, TypeOK
  <2> QED
    BY <1>1, <2>1, <2>2 DEF OneServer, OneServerInv, ClaimsAreFresh
<1>3. RetryBudget'
  BY <1>1 DEF OneServerInv, RetryBudget
<1>4. CopiesArePaidFor'
  <2>1. \A q \in Rows : Credit(q) \in Int /\ Credit(q)' \in Int
    BY DEF Credit
  <2>2. \A q \in Rows : delivered[q] \in Nat /\ delivered'[q] \in Nat /\ faults \in Nat
    BY DEF TypeOK
  <2>3. \A q \in Rows : q # cur[s] => Credit(q)' = Credit(q) /\ delivered'[q] = delivered[q]
    BY <1>1, CreditOfOne, CreditOfOnePrime
    DEF Credit, Send, SendOk, SendFails, TypeOK, rowVars
  <2>4. /\ delivered'[cur[s]] \in {delivered[cur[s]], delivered[cur[s]] + 1}
        /\ pc'[s] \in {"accepted", "refused"}
    BY <1>1 DEF Send, SendOk, SendFails, TypeOK
  <2>5. Credit(cur[s])' = Credit(cur[s]) + 1
    BY <1>1, <2>4, CreditOfOne, CreditOfOnePrime DEF Credit
  <2>6. \A q \in Rows : outbox[q].attempts \in Nat /\ outbox'[q].attempts = outbox[q].attempts
    BY <1>1 DEF TypeOK, Row
  <2> QED
    BY <1>1, <2>1, <2>2, <2>3, <2>4, <2>5, <2>6, CopiesStep
<1> QED
  BY <1>2, <1>3, <1>4 DEF OneServerInv

LEMMA MarkStep ==
  ASSUME OneServer, TypeOK, TypeOK', OneServerInv, NEW s \in Servers, Mark(s)
  PROVE  OneServerInv'
<1> USE OutboxAssumption
<1>0. PICK r : r = cur[s]
  OBVIOUS
<1>1. /\ pc[s] \in {"accepted", "refused"} /\ life[s] \in {"up", "stopping"}
      /\ r \in Rows /\ outbox[r] \in Row /\ outbox[r].status = "pending"
      /\ Attempts(s) = outbox[r].attempts + 1
      /\ UNCHANGED <<delivered, life>>
      /\ pc'[s] = "loop" /\ claimed'[s] = Rest(s, r)
  BY <1>0, WorkerFacts
  DEF Mark, MarkSent, GiveUp, Retry, LoseMark, Return, rowVars, procVars, TypeOK,
      OneServerInv, ClaimsAreFresh
<1>2. \A q \in Rows : q # r => outbox'[q] = outbox[q]
  BY <1>0, <1>1 DEF Mark, MarkSent, GiveUp, Retry, LoseMark, rowVars, TypeOK
<1>3. ClaimsAreFresh'
  <2>1. DOMAIN claimed[s] \subseteq Rows
    BY WorkerFacts
  <2>2. \A q \in DOMAIN claimed'[s] :
          /\ q \in DOMAIN claimed[s] /\ outbox'[q] = outbox[q]
          /\ claimed'[s][q] = claimed[s][q]
    <3>1. /\ DOMAIN claimed'[s] = DOMAIN claimed[s] \ {r}
          /\ \A q \in DOMAIN claimed'[s] : claimed'[s][q] = claimed[s][q]
      BY <1>1 DEF Rest
    <3> QED
      BY <1>2, <2>1, <3>1
  <2>3. \A t \in Servers : t = s
    BY DEF OneServer
  <2> QED
    BY <1>1, <2>2, <2>3 DEF OneServerInv, ClaimsAreFresh
<1>4. outbox[r].attempts \in Nat /\ outbox[r].attempts < MaxAttempts
  BY <1>0, <1>1 DEF Row, OneServerInv, RetryBudget
<1>5. /\ outbox'[r].attempts <= MaxAttempts
      /\ outbox'[r].status \in {"pending", "sent"} => outbox'[r].attempts < MaxAttempts
  <2>1. CASE MarkSent(s)
    BY <1>0, <1>1, <1>4, <2>1 DEF MarkSent, Row, TypeOK
  <2>2. CASE GiveUp(s)
    <3>1. outbox'[r] = Dead(outbox[r])
      BY <1>0, <1>1, <2>2 DEF GiveUp, TypeOK
    <3> QED BY <1>0, <1>1, <1>4, <3>1, MarkFields
  <2>3. CASE Retry(s)
    <3>1. PICK d : outbox'[r] = Failed(outbox[r], d)
      BY <1>0, <1>1, <2>3 DEF Retry, TypeOK
    <3> QED BY <1>0, <1>1, <1>4, <2>3, <3>1, MarkFields DEF Retry
  <2>4. CASE LoseMark(s)
    BY <1>4, <2>4 DEF LoseMark, rowVars
  <2> QED
    BY <2>1, <2>2, <2>3, <2>4 DEF Mark
<1>6. RetryBudget'
  BY <1>2, <1>5 DEF OneServerInv, RetryBudget
<1>7. faults \in Nat /\ faults' \in Nat
  BY DEF TypeOK
<1>8. \A q \in Rows : /\ Credit(q) \in Int /\ Credit(q)' \in Int
                     /\ outbox[q].attempts \in Nat /\ outbox'[q].attempts \in Nat
  BY DEF Credit, TypeOK, Row
<1>9. \A q \in Rows : q # r => /\ Credit(q)' = Credit(q)
                              /\ outbox'[q].attempts = outbox[q].attempts
  BY <1>0, <1>1, <1>2, CreditOfOne, CreditOfOnePrime DEF Credit
<1>10. /\ faults' >= faults
       /\ 0 <= (outbox'[r].attempts - outbox[r].attempts)
                + (faults' - faults) + (Credit(r)' - Credit(r))
  <2>1. CASE MarkSent(s)
    <3>1. /\ outbox'[r].status = "sent" /\ outbox'[r].attempts = outbox[r].attempts
          /\ faults' = faults
      BY <1>0, <1>1, <2>1 DEF MarkSent, Row, TypeOK
    <3>2. Credit(r) = 1 /\ Credit(r)' = 1
      BY <1>0, <1>1, <2>1, <3>1, CreditOfOne, CreditOfOnePrime DEF MarkSent, Credit
    <3> QED
      BY <1>7, <1>8, <1>1, <3>1, <3>2
  <2>2. CASE GiveUp(s) \/ Retry(s)
    <3>1. faults' = faults /\ life[s] = "up" /\ pc[s] = "refused"
      BY <2>2 DEF GiveUp, Retry
    <3>2. outbox'[r].attempts = outbox[r].attempts + 1
      <4>1. CASE GiveUp(s)
        <5>1. outbox'[r] = Dead(outbox[r])
          BY <1>0, <1>1, <4>1 DEF GiveUp, TypeOK
        <5> QED BY <1>1, <5>1, MarkFields
      <4>2. CASE Retry(s)
        <5>1. PICK d : outbox'[r] = Failed(outbox[r], d)
          BY <1>0, <1>1, <4>2 DEF Retry, TypeOK
        <5> QED BY <1>1, <5>1, MarkFields
      <4> QED BY <2>2, <4>1, <4>2
    <3>3. Credit(r) = 1
      BY <1>0, <1>1, <3>1, CreditOfOne DEF Credit
    <3>4. Credit(r)' >= 0
      BY <1>0, <1>1, CreditOfOnePrime DEF Credit
    <3> QED BY <1>7, <1>8, <1>1, <3>1, <3>2, <3>3, <3>4
  <2>3. CASE LoseMark(s)
    <3>1. outbox' = outbox /\ (life[s] = "up" => faults' = faults + 1)
      BY <2>3 DEF LoseMark, Fault, rowVars
    <3>2. life[s] = "stopping" => faults' = faults
      BY <2>3 DEF LoseMark
    <3>3. Credit(r)' = 0
      BY <1>0, <1>1, <2>3, <3>1, CreditOfOnePrime DEF Credit
    <3>4. Credit(r) <= 1 /\ (life[s] = "stopping" => Credit(r) <= 0)
      BY <1>0, <1>1, CreditOfOne DEF Credit
    <3> QED BY <1>0, <1>1, <1>7, <1>8, <3>1, <3>2, <3>3, <3>4
  <2> QED
    BY <2>1, <2>2, <2>3 DEF Mark
<1>11. CopiesArePaidFor'
  <2>1. \A q \in Rows : 0 <= (outbox'[q].attempts - outbox[q].attempts)
                              + (faults' - faults) + (Credit(q)' - Credit(q))
    BY <1>7, <1>8, <1>9, <1>10
  <2> QED
    BY <1>1, <2>1, NoCopyStep
<1> QED
  BY <1>3, <1>6, <1>11 DEF OneServerInv

LEMMA ProcessStep ==
  ASSUME OneServer, TypeOK, TypeOK', OneServerInv, NEW s \in Servers, Process(s)
  PROVE  OneServerInv'
<1>1. UNCHANGED <<outbox, delivered>> /\ DOMAIN claimed'[s] \subseteq DOMAIN claimed[s]
  BY DEF Process, Stop, Exit, Crash, Start, Gone, rowVars, workerVars, TypeOK
<1>2. ClaimsAreFresh'
  BY <1>1 DEF Process, Stop, Exit, Crash, Start, Gone, workerVars, TypeOK,
    OneServer, OneServerInv, ClaimsAreFresh
<1>3. RetryBudget'
  BY <1>1 DEF OneServerInv, RetryBudget
<1>4. faults \in Nat /\ faults' \in Nat
  BY DEF TypeOK
<1>5. ASSUME NEW q \in Rows
      PROVE  /\ Credit(q) \in Int /\ Credit(q)' \in Int
             /\ outbox[q].attempts \in Nat /\ outbox'[q].attempts = outbox[q].attempts
  BY <1>1 DEF Credit, TypeOK, Row
<1>6. ASSUME NEW q \in Rows PROVE faults' - faults + Credit(q)' - Credit(q) >= 0
  <2>1. CASE Stop(s)
    <3>1. /\ faults' = faults + 1 /\ UNCHANGED <<pc, cur>>
          /\ life[s] = "up" /\ life'[s] = "stopping"
      BY <2>1 DEF Stop, Fault, workerVars, TypeOK
    <3> QED
      BY <1>1, <1>4, <3>1, CreditOfOne, CreditOfOnePrime DEF Credit
  <2>2. CASE Crash(s)
    <3>1. /\ faults' = faults + 1 /\ life[s] = "up" /\ pc'[s] = "loop"
      BY <2>2 DEF Crash, Gone, Fault, TypeOK
    <3> QED
      BY <1>1, <1>4, <3>1, CreditOfOne, CreditOfOnePrime DEF Credit
  <2>3. CASE Exit(s)
    <3>1. /\ faults' = faults /\ life[s] = "stopping" /\ pc'[s] = "loop"
      BY <2>3 DEF Exit, Gone, TypeOK
    <3> QED
      BY <1>1, <1>4, <3>1, CreditOfOne, CreditOfOnePrime DEF Credit
  <2>4. CASE Start(s)
    <3>1. /\ faults' = faults /\ pc[s] = "loop" /\ pc'[s] = "loop"
      BY <2>4 DEF Start, workerVars, OneServerInv, ClaimsAreFresh
    <3> QED
      BY <1>1, <1>4, <3>1, CreditOfOne, CreditOfOnePrime DEF Credit
  <2> QED
    BY <2>1, <2>2, <2>3, <2>4 DEF Process
<1>7. CopiesArePaidFor'
  <2>1. \A q \in Rows : 0 <= (outbox'[q].attempts - outbox[q].attempts)
                              + (faults' - faults) + (Credit(q)' - Credit(q))
    BY <1>4, <1>5, <1>6
  <2> QED
    BY <1>1, <2>1, NoCopyStep
<1> QED
  BY <1>2, <1>3, <1>7 DEF OneServerInv

LEMMA OneServerStep ==
  ASSUME OneServer
  PROVE  TypeOK /\ TypeOK' /\ OneServerInv /\ UndrawnAreUncounted /\ [Next]_vars
           => OneServerInv'
<1> SUFFICES ASSUME TypeOK, TypeOK', OneServerInv, UndrawnAreUncounted, [Next]_vars
             PROVE  OneServerInv'
  OBVIOUS
<1> USE DEF rowVars, prefVars, workerVars, emitVars, procVars
<1>1. ASSUME NEW s \in Servers, Producer(s) PROVE OneServerInv'
  <2>1. CASE InsertRow(s) /\ emailOn[s]
    BY <2>1, InsertStep
  <2>2. CASE ~ (InsertRow(s) /\ emailOn[s])
    BY <1>1, <2>2, BystanderStep
    DEF Producer, Notify, SkipRecipient, ResolveRecipient, InsertRow, DropRow, Fault
  <2> QED
    BY <2>1, <2>2
<1>2. ASSUME NEW s \in Servers, Dispatch(s) PROVE OneServerInv'
  BY <1>2, DispatchStep DEF Dispatch
<1>3. CASE Preference
  BY <1>3, BystanderStep DEF Preference, Unsubscribe, Resume, RemoveMember
<1>4. CASE Tick
  <2>1. \A r \in Rows : /\ outbox'[r].status = outbox[r].status
                       /\ outbox'[r].attempts = outbox[r].attempts
    BY <1>4 DEF Tick, TypeOK, Row
  <2>2. UNCHANGED <<delivered, pc, cur, claimed, life, faults>>
    BY <1>4 DEF Tick
  <2>3. \A s \in Servers : DOMAIN claimed[s] \subseteq Rows
    BY WorkerFacts
  <2>4. ClaimsAreFresh' /\ RetryBudget'
    BY <2>1, <2>2, <2>3 DEF OneServerInv, ClaimsAreFresh, RetryBudget
  <2>5. \A r \in Rows : Credit(r)' = Credit(r)
    BY <2>1, <2>2 DEF Credit, Answered, Cancelled
  <2> QED
    BY <2>1, <2>2, <2>4, <2>5 DEF OneServerInv, CopiesArePaidFor
<1>5. CASE UNCHANGED vars
  BY <1>5, BystanderStep DEF vars
<1> QED
  BY <1>1, <1>2, <1>3, <1>4, <1>5, ClaimStep, SendStep, MarkStep, ProcessStep DEF Next

LEMMA OneServerInit == Init => OneServerInv
<1> SUFFICES ASSUME Init PROVE OneServerInv
  OBVIOUS
<1>1. ClaimsAreFresh
  BY DEF Init, ClaimsAreFresh
<1>2. CopiesArePaidFor
  BY DEF Init, CopiesArePaidFor, Credit, Answered, Cancelled
<1>3. RetryBudget
  BY OutboxAssumption DEF Init, RetryBudget
<1> QED
  BY <1>1, <1>2, <1>3 DEF OneServerInv

\* The inductive invariant of a single server.
THEOREM OneServerInvariant ==
  ASSUME OneServer
  PROVE  Spec => []OneServerInv
<1>1. Init => UndrawnAreUncounted
  BY DEF Init, UndrawnAreUncounted
<1>2. TypeOK /\ OneServerInv /\ UndrawnAreUncounted /\ [Next]_vars => UndrawnAreUncounted'
  BY UndrawnStep
<1> QED
  BY <1>1, <1>2, TypeCorrect, OneServerInit, OneServerStep, PTL DEF Spec

\* A single server never spends more than MaxAttempts attempts on a row, and
\* the rows it may still claim have attempts left.
THEOREM AttemptsAreBounded ==
  ASSUME OneServer
  PROVE  Spec => []RetryBudget
<1>1. OneServerInv => RetryBudget
  BY DEF OneServerInv
<1> QED
  BY <1>1, OneServerInvariant, PTL

\* With a single server every copy of a mail beyond the first is accounted for by
\* an attempt that the row counts as failed or by a fault, and a row that is
\* neither sent nor being dispatched has no free first copy.
THEOREM CopiesAreBounded ==
  ASSUME OneServer
  PROVE  Spec => []CopiesAreAccountedFor
<1>1. TypeOK /\ OneServerInv => CopiesAreAccountedFor
  <2> SUFFICES ASSUME TypeOK, OneServerInv, NEW r \in Rows
               PROVE  /\ delivered[r] <= outbox[r].attempts + faults + 1
                      /\ outbox[r].status # "sent" /\ ~Dispatched(r)
                           => delivered[r] <= outbox[r].attempts + faults
    BY DEF CopiesAreAccountedFor
  <2>1. /\ delivered[r] <= outbox[r].attempts + faults + Credit(r)
        /\ faults \in Nat /\ delivered[r] \in Nat /\ outbox[r].attempts \in Nat
    BY DEF OneServerInv, CopiesArePaidFor, TypeOK, Row
  <2>2. Credit(r) \in {-1, 0, 1}
    BY DEF Credit
  <2>3. ASSUME outbox[r].status # "sent", ~Dispatched(r) PROVE Credit(r) # 1
    <3>1. ~Answered(r)
      BY <2>3 DEF Answered, Dispatched
    <3> QED BY <3>1 DEF Credit
  <2> QED
    BY <2>1, <2>2, <2>3
<1> QED
  BY <1>1, TypeCorrect, OneServerInvariant, PTL

-----------------------------------------------------------------------------
(* What the marks of a single server do.                                    *)

\* With a single server a row dies when its attempts, no fewer and no more, are
\* used up, or when the server that has it runs without the email channel:
\* through crashes, restarts, lost marks and cancelled contexts.
THEOREM RowsDieExhausted ==
  ASSUME OneServer
  PROVE  Spec => DeadOnlyWhenExhausted
<1> DEFINE Exhausted ==
             \A r \in Rows :
               outbox[r].status # "dead" /\ outbox'[r].status = "dead" =>
                 \/ outbox'[r].attempts = MaxAttempts
                 \/ \E s \in Servers : ~emailOn[s] /\ r \in DOMAIN claimed[s]
<1>1. TypeOK /\ OneServerInv /\ [Next]_vars => [Exhausted]_vars
  <2> SUFFICES ASSUME TypeOK, OneServerInv, [Next]_vars, NEW r \in Rows,
                      outbox[r].status # "dead", outbox'[r].status = "dead"
               PROVE  \/ outbox'[r].attempts = MaxAttempts
                      \/ \E s \in Servers : ~emailOn[s] /\ r \in DOMAIN claimed[s]
    OBVIOUS
  <2>1. ASSUME NEW s \in Servers, GiveUp(s), cur[s] = r, outbox'[r] = Dead(outbox[r])
        PROVE  outbox'[r].attempts = MaxAttempts
    <3>1. /\ Attempts(s) >= MaxAttempts /\ Attempts(s) = outbox[r].attempts + 1
          /\ outbox[r].status = "pending" /\ outbox[r] \in Row
      BY <2>1, WorkerFacts DEF GiveUp, TypeOK
    <3>2. outbox'[r].attempts = outbox[r].attempts + 1
      BY <2>1, <3>1, MarkFields
    <3>3. outbox[r].attempts \in Nat /\ outbox[r].attempts < MaxAttempts
      BY <3>1 DEF OneServerInv, RetryBudget, Row
    <3> QED
      BY <3>1, <3>2, <3>3, OutboxAssumption
  <2>2. ~RowRetried(r)
    <3> SUFFICES ASSUME RowRetried(r) PROVE FALSE
      OBVIOUS
    <3>1. PICK d : outbox'[r] = Failed(outbox[r], d)
      BY DEF RowRetried
    <3>2. outbox'[r].status = outbox[r].status
      BY <3>1, MarkFields DEF TypeOK
    <3> QED
      BY <3>2
  <2>3. ~RowCounted(r) /\ ~RowInserted(r)
    BY DEF RowCounted, RowInserted
  <2> QED
    BY <2>1, <2>2, <2>3, RowStep DEF RowUnrouted, RowGivenUp
<1> QED
  BY <1>1, TypeCorrect, OneServerInvariant, PTL DEF Spec, DeadOnlyWhenExhausted

\* With a single server, a failed attempt that is not the last postpones the row
\* by the base delay, twice that, and so on up to the cap, as long as the delays
\* that the configuration asks for fit in a time.Duration.
THEOREM RetriesArePostponed ==
  ASSUME OneServer, \A n \in 1 .. MaxAttempts - 1 : Doubling(n) \in 0 .. DurationMax
  PROVE  Spec => RetriesBackOff
<1> DEFINE Postponed ==
             \A r \in Rows :
               /\ outbox'[r].attempts > outbox[r].attempts
               /\ outbox'[r].status = "pending"
               => outbox'[r].due >= Least(Doubling(outbox'[r].attempts), MaxBackoff)
<1>1. TypeOK /\ OneServerInv /\ [Next]_vars => [Postponed]_vars
  <2> SUFFICES ASSUME TypeOK, OneServerInv, [Next]_vars, NEW r \in Rows,
                      outbox'[r].attempts > outbox[r].attempts,
                      outbox'[r].status = "pending"
               PROVE  outbox'[r].due >= Least(Doubling(outbox'[r].attempts), MaxBackoff)
    OBVIOUS
  <2>0. outbox[r] \in Row /\ outbox[r].attempts \in Nat
    BY DEF TypeOK, Row
  <2>1. ~RowCounted(r) /\ ~RowInserted(r)
    BY <2>0 DEF RowCounted, RowInserted
  <2>2. ~RowUnrouted(r) /\ ~RowGivenUp(r)
    BY <2>0, MarkFields DEF RowUnrouted, RowGivenUp
  <2>3. PICK s \in Servers : /\ Retry(s) /\ cur[s] = r
                             /\ \E d \in Backoffs(Attempts(s)) : outbox'[r] = Failed(outbox[r], d)
    BY <2>1, <2>2, RowStep DEF RowRetried
  <2>4. PICK d \in Backoffs(Attempts(s)) : outbox'[r] = Failed(outbox[r], d)
    BY <2>3
  <2>5. outbox'[r].due = d /\ outbox'[r].attempts = Attempts(s)
    BY <2>0, <2>3, <2>4, WorkerFacts, MarkFields DEF Retry
  <2>6. Attempts(s) \in 1 .. MaxAttempts - 1
    BY <2>0, <2>3, <2>5, OutboxAssumption, WorkerFacts DEF Retry
  <2>7. PICK x \in 0 .. DurationMax : x = Doubling(Attempts(s))
    BY <2>6
  <2>8. Durations(Attempts(s)) = {x}
    BY <2>7, OutboxAssumption DEF Durations
  <2>9. d = Greatest(-Horizon, Least(x, MaxBackoff))
    BY <2>4, <2>8 DEF Backoffs
  <2>10. d >= Least(x, MaxBackoff)
    BY <2>7, <2>9, OutboxAssumption DEF Greatest, Least
  <2> QED
    BY <2>5, <2>7, <2>10
<1> QED
  BY <1>1, TypeCorrect, OneServerInvariant, PTL DEF Spec, RetriesBackOff

-----------------------------------------------------------------------------
(* One server: the outbox implements Delivery.                              *)

LEMMA QueueInit == Init => Queue!Init
BY DEF Init, Queue!Init, Verdict

\* A step that keeps every row's status and every mailbox is a stutter.
LEMMA QueueStutter ==
  ASSUME \A r \in Rows : outbox'[r].status = outbox[r].status, UNCHANGED delivered
  PROVE  UNCHANGED Queue!vars
BY DEF Queue!vars, Verdict

LEMMA VerdictOf ==
  /\ Verdict["absent"] = "none" /\ Verdict["pending"] = "queued"
  /\ Verdict["sent"] = "delivered" /\ Verdict["dead"] = "abandoned"
BY DEF Verdict

\* A step that moves row r to status b.
LEMMA QueueMove ==
  ASSUME TypeOK, NEW r \in Rows, NEW b \in Statuses,
         outbox'[r].status = b, \A q \in Rows : q # r => outbox'[q] = outbox[q]
  PROVE  [q \in Rows |-> Verdict[outbox'[q].status]] =
           [[q \in Rows |-> Verdict[outbox[q].status]] EXCEPT ![r] = Verdict[b]]
OBVIOUS

LEMMA QueueAbandon ==
  ASSUME TypeOK, NEW r \in Rows, outbox[r].status = "pending", outbox'[r].status = "dead",
         \A q \in Rows : q # r => outbox'[q] = outbox[q], delivered' = delivered
  PROVE  Queue!Next
<1>1. [q \in Rows |-> Verdict[outbox'[q].status]] =
        [[q \in Rows |-> Verdict[outbox[q].status]] EXCEPT ![r] = Verdict["dead"]]
  BY QueueMove DEF Statuses
<1>2. Queue!Abandon(r)
  BY <1>1, VerdictOf DEF Queue!Abandon
<1> QED
  BY <1>2 DEF Queue!Next

LEMMA QueueConfirm ==
  ASSUME TypeOK, NEW r \in Rows, outbox[r].status = "pending", outbox'[r].status = "sent",
         \A q \in Rows : q # r => outbox'[q] = outbox[q], delivered' = delivered,
         delivered[r] > 0
  PROVE  Queue!Next
<1>1. [q \in Rows |-> Verdict[outbox'[q].status]] =
        [[q \in Rows |-> Verdict[outbox[q].status]] EXCEPT ![r] = Verdict["sent"]]
  BY QueueMove DEF Statuses
<1>2. Queue!Confirm(r)
  BY <1>1, VerdictOf DEF Queue!Confirm
<1> QED
  BY <1>2 DEF Queue!Next

LEMMA QueueStep ==
  ASSUME OneServer, TypeOK, TypeOK', OneServerInv, [Next]_vars
  PROVE  [Queue!Next]_(Queue!vars)
<1> USE DEF rowVars, prefVars, workerVars, emitVars, procVars
<1>1. ASSUME NEW s \in Servers, InsertRow(s), emailOn[s] PROVE Queue!Next
  <2>1. PICK r \in Rows : /\ outbox[r].status = "absent"
                          /\ outbox'[r].status = "pending"
                          /\ \A q \in Rows : q # r => outbox'[q] = outbox[q]
    <3>1. PICK r \in Unused : outbox' = [outbox EXCEPT ![r] =
            [status |-> "pending", to |-> Head(emit[s]), attempts |-> 0, due |-> 0]]
      BY <1>1 DEF InsertRow
    <3>2. r \in Rows /\ outbox[r].status = "absent"
      BY DEF Unused
    <3> QED BY <3>1, <3>2 DEF TypeOK
  <2>2. delivered' = delivered
    BY <1>1 DEF InsertRow
  <2>3. [q \in Rows |-> Verdict[outbox'[q].status]] =
          [[q \in Rows |-> Verdict[outbox[q].status]] EXCEPT ![r] = Verdict["pending"]]
    BY <2>1, QueueMove DEF Statuses
  <2>4. Queue!Submit(r)
    BY <2>1, <2>2, <2>3, VerdictOf DEF Queue!Submit
  <2> QED
    BY <2>4 DEF Queue!Next
<1>2. ASSUME NEW s \in Servers, NEW r \in Rows, UnknownChannel(s, r) PROVE [Queue!Next]_(Queue!vars)
  <2>1. outbox[r].status = "pending" /\ delivered' = delivered
    BY <1>2 DEF UnknownChannel, IsNext, OneServerInv, ClaimsAreFresh
  <2>2. CASE outbox' = [outbox EXCEPT ![r] = Dead(@)]
    <3>1. outbox'[r].status = "dead" /\ \A q \in Rows : q # r => outbox'[q] = outbox[q]
      BY <2>2, MarkFields DEF TypeOK
    <3> QED BY <2>1, <3>1, QueueAbandon
  <2> QED
    BY <1>2, <2>1, <2>2, QueueStutter DEF UnknownChannel
<1>3. ASSUME NEW s \in Servers, Send(s) PROVE [Queue!Next]_(Queue!vars)
  <2>1. cur[s] \in Rows /\ outbox[cur[s]].status = "pending" /\ outbox' = outbox
    BY <1>3, WorkerFacts DEF Send, SendOk, SendFails
  <2>2. CASE delivered' = [delivered EXCEPT ![cur[s]] = @ + 1]
    <3>1. Queue!SendCopy(cur[s])
      BY <2>1, <2>2 DEF Queue!SendCopy, Verdict
    <3> QED BY <2>1, <3>1 DEF Queue!Next
  <2>3. CASE UNCHANGED delivered
    BY <2>1, <2>3, QueueStutter
  <2> QED
    BY <1>3, <2>2, <2>3 DEF Send, SendOk, SendFails
<1>4. ASSUME NEW s \in Servers, Mark(s) PROVE [Queue!Next]_(Queue!vars)
  <2>0. PICK r : r = cur[s]
    OBVIOUS
  <2>1. r \in Rows /\ outbox[r].status = "pending" /\ delivered' = delivered
    BY <1>4, <2>0, WorkerFacts DEF Mark, MarkSent, GiveUp, Retry, LoseMark
  <2>2. \A q \in Rows : q # r => outbox'[q] = outbox[q]
    BY <1>4, <2>0, <2>1 DEF Mark, MarkSent, GiveUp, Retry, LoseMark, TypeOK
  <2>3. CASE MarkSent(s)
    <3>1. outbox'[r].status = "sent" /\ delivered[r] > 0
      BY <2>0, <2>1, <2>3 DEF MarkSent, TypeOK, Row, OneServerInv, ClaimsAreFresh
    <3> QED BY <2>1, <2>2, <3>1, QueueConfirm
  <2>4. CASE GiveUp(s)
    <3>1. outbox'[r].status = "dead"
      BY <2>0, <2>1, <2>4, MarkFields DEF GiveUp, TypeOK
    <3> QED BY <2>1, <2>2, <3>1, QueueAbandon
  <2>5. CASE Retry(s)
    <3>1. outbox'[r].status = outbox[r].status
      BY <2>0, <2>1, <2>5, MarkFields DEF Retry, TypeOK
    <3> QED BY <2>1, <2>2, <3>1, QueueStutter
  <2>6. CASE LoseMark(s)
    BY <2>1, <2>6, QueueStutter DEF LoseMark
  <2> QED
    BY <1>4, <2>3, <2>4, <2>5, <2>6 DEF Mark
<1>5. CASE Tick
  <2>1. \A r \in Rows : outbox'[r].status = outbox[r].status
    BY <1>5 DEF Tick, TypeOK, Row
  <2> QED
    BY <1>5, <2>1, QueueStutter DEF Tick
<1>6. CASE UNCHANGED rowVars
  BY <1>6, QueueStutter
<1>7. ASSUME NEW s \in Servers, Producer(s), ~ (InsertRow(s) /\ emailOn[s])
      PROVE  UNCHANGED rowVars
  BY <1>7 DEF Producer, Notify, SkipRecipient, ResolveRecipient, InsertRow, DropRow
<1>8. ASSUME NEW s \in Servers, Claim(s) \/ Process(s)
      PROVE  UNCHANGED rowVars
  BY <1>8 DEF Claim, Process, Stop, Exit, Crash, Start, Gone
<1>9. ASSUME NEW s \in Servers, NEW r \in Rows, StartSend(s, r)
      PROVE  UNCHANGED rowVars
  BY <1>9 DEF StartSend
<1>10. ASSUME Preference \/ UNCHANGED vars PROVE UNCHANGED rowVars
  BY <1>10 DEF Preference, Unsubscribe, Resume, RemoveMember, vars
<1> QED
  BY <1>1, <1>2, <1>3, <1>4, <1>5, <1>6, <1>7, <1>8, <1>9, <1>10
  DEF Next, Dispatch

\* A single server implements Delivery: a settled row keeps its verdict and is
\* never sent again, and sent rows were delivered.
THEOREM OutboxImplementsDelivery ==
  ASSUME OneServer
  PROVE  Spec => SettledOnce
<1>1. TypeOK /\ TypeOK' /\ OneServerInv /\ [Next]_vars => [Queue!Next]_(Queue!vars)
  BY QueueStep
<1> QED
  BY <1>1, QueueInit, TypeCorrect, OneServerInvariant, PTL DEF Spec, SettledOnce, Queue!Spec
=============================================================================
