--------------------------- MODULE AccessProofs ---------------------------
(***************************************************************************)
(* Theorems about Access, for every number of people, providers, accounts  *)
(* and requests.                                                           *)
(***************************************************************************)
EXTENDS Access, FiniteSetTheorems, TLAPS

-----------------------------------------------------------------------------
(* The inductive invariant *)

\* The statements a request may have left, with what each carries.
Statement ==
  [do : {"lookup", "create"}, via : Providers]
  \cup [do : {"ensure"}, active : BOOLEAN]
  \cup [do : {"store", "session", "approve", "deny", "guard", "deactivate", "reactivate", "show"},
        user : UserIds]
  \cup [do : {"hide"}, user : UserIds, who : People]
  \cup [do : {"adminGuard"}, user : UserIds, admin : BOOLEAN]
  \cup [do : {"update"}, user : UserIds, admin : BOOLEAN, active : BOOLEAN]

Types ==
  /\ users \in [UserIds -> User \cup {None}] /\ created \in 0..MaxUsers
  /\ member \in [People -> {"none", "active", "inactive"}]
  /\ sessions \in [UserIds -> {"none", "live", "expired"}]
  /\ tokens \in [UserIds -> {"none", "forever", "live", "expired"}]
  /\ oauth \subseteq UserIds /\ page \in [People -> SUBSET (Buttons \X UserIds)]
  /\ work \in [People -> Seq(Statement)]
  /\ lanes \in 1..MaxLanes /\ requests \in 0..MaxRequests

\* An id is given out once, in order.
IdsAreFresh == \A u \in UserIds : u > created => users[u] = None

\* An email address has one account.
OneAccountEach ==
  \A u, v \in UserIds :
    users[u] # None /\ users[v] # None /\ users[u].who = users[v].who => u = v

\* A page offers accounts that existed, and denies nobody his own.
PagesDenyOthers ==
  \A p \in People : \A u \in UserIds :
    /\ \A b \in Buttons : <<b, u>> \in page[p] => u <= created
    /\ <<"deny", u>> \in page[p] /\ users[u] # None => users[u].who # p

\* With one lane, one person's request runs at a time.
OneAtATime ==
  lanes = 1 => \A p, q \in People : work[p] # <<>> /\ work[q] # <<>> => p = q

\* A statement that ends what a request does to the accounts.
Ends == {"lookup", "create", "approve", "deny", "guard", "deactivate", "reactivate",
         "adminGuard", "update"}

\* After it only the team member is left to write.
InOrder(w) ==
  \A i, j \in DOMAIN w : i < j /\ w[i].do \in Ends => w[j].do \in {"hide", "show"}

\* Without u there is still an administrator, if there is one at all.
Admins(us) == {u \in UserIds : us[u] # None /\ us[u].admin /\ us[u].active}
Spared(u, us) == Admins(us) # {} => \E v \in Admins(us) : v # u

\* What a statement relies on is true of the accounts us.
Holds(s, us) ==
  /\ s.do \in {"deny", "deactivate"} => Spared(s.user, us)
  /\ s.do = "update" => /\ us[s.user] # None /\ us[s.user].active = s.active
                        /\ s.admin \/ Spared(s.user, us)
  /\ s.do = "session" => us[s.user] # None /\ us[s.user].active

StatementsHold ==
  \A p \in People : /\ InOrder(work[p])
                    /\ lanes = 1 => \A i \in DOMAIN work[p] : Holds(work[p][i], users)

IInv ==
  /\ Types /\ IdsAreFresh /\ NothingLeftOfTheDenied /\ OneAccountEach
  /\ PagesDenyOthers /\ OneAtATime /\ StatementsHold /\ SessionsAreAdmitted

-----------------------------------------------------------------------------
(* Statements, queries and counting *)

LEMMA Fields ==
  ASSUME NEW s \in Statement
  PROVE  /\ s.do \in Steps
         /\ s.do \in {"lookup", "create"} => s.via \in Providers
         /\ s.do = "ensure" => s.active \in BOOLEAN
         /\ s.do \notin {"lookup", "create", "ensure"} => s.user \in UserIds
         /\ s.do = "hide" => s.who \in People
         /\ s.do = "adminGuard" => s.admin \in BOOLEAN
         /\ s.do = "update" => s.admin \in BOOLEAN /\ s.active \in BOOLEAN
BY DEF Statement, Steps

LEMMA OnIsStatement ==
  ASSUME NEW u \in UserIds,
         NEW step \in {"store", "session", "approve", "deny", "guard", "deactivate",
                       "reactivate", "show"}
  PROVE  On(step, u) \in Statement /\ On(step, u).do = step /\ On(step, u).user = u
BY DEF Statement, On

LEMMA AdmitIsShort ==
  ASSUME NEW u \in UserIds, NEW active \in BOOLEAN
  PROVE  /\ Admit(u, active) \in Seq(Statement)
         /\ \A i \in DOMAIN Admit(u, active) :
              /\ Admit(u, active)[i].do \in {"ensure", "store", "session"}
              /\ Admit(u, active)[i].do = "session" => active /\ Admit(u, active)[i].user = u
<1> DEFINE in == [do |-> "ensure", active |-> TRUE]
           out == [do |-> "ensure", active |-> FALSE]
           P(w) == /\ w \in Seq(Statement)
                   /\ \A i \in DOMAIN w :
                        /\ w[i].do \in {"ensure", "store", "session"}
                        /\ w[i].do = "session" => active /\ w[i].user = u
<1>1. in \in Statement /\ in.do = "ensure" /\ out \in Statement /\ out.do = "ensure"
  BY DEF Statement
<1>2. On("store", u) \in Statement /\ On("store", u).do = "store"
  BY OnIsStatement
<1>3. On("session", u) \in Statement /\ On("session", u).do = "session" /\ On("session", u).user = u
  BY OnIsStatement
<1> HIDE DEF in, out
<1>4. ASSUME active PROVE P(<<in, On("store", u), On("session", u)>>)
  BY <1>1, <1>2, <1>3, <1>4
<1>5. P(<<out>>)
  BY <1>1
<1>6. CASE active
  <2>1. Admit(u, active) = <<in, On("store", u), On("session", u)>>
    BY <1>6 DEF Admit, in
  <2> QED
    BY <2>1, <1>4, <1>6
<1>7. CASE ~active
  <2>1. Admit(u, active) = <<out>>
    BY <1>7 DEF Admit, out
  <2> QED
    BY <2>1, <1>5
<1> QED
  BY <1>6, <1>7

LEMMA Queries ==
  ASSUME Types
  PROVE  /\ Rows \subseteq UserIds /\ CountAdmins = Admins(users)
         /\ \A u \in UserIds : users[u] # None => users[u] \in User
         /\ SomeAdmin <=> Admins(users) # {}
BY DEF Types, Rows, CountAdmins, SomeAdmin, Admins

\* What the guard of a demotion counted: somebody else is an administrator.
LEMMA NotTheLast ==
  ASSUME Types, NEW u \in UserIds, users[u] # None, ~LastAdmin(u)
  PROVE  Spared(u, users)
<1>1. SUFFICES ASSUME CountAdmins \subseteq {u}, CountAdmins # {}
               PROVE  FALSE
  BY Queries DEF Spared
<1>2. IsAdmin(u)
  BY <1>1 DEF CountAdmins, IsAdmin
<1>3. IsFiniteSet({u}) /\ Cardinality({u}) = 1
  BY FS_Singleton
<1>4. Cardinality(CountAdmins) <= 1
  BY <1>1, <1>3, FS_Subset
<1> QED
  BY <1>2, <1>4 DEF LastAdmin

\* A request starts where nobody's is running, when there is one lane.
LEMMA ArrivesAlone ==
  ASSUME Types, NEW p \in People, NEW kind, Arrive(p, kind), lanes = 1
  PROVE  \A q \in People : work[q] = <<>>
<1> DEFINE busy == {q \in People : work[q] # <<>>}
<1>1. IsFiniteSet(busy)
  BY FS_Subset, AccessAssumption
<1>2. Cardinality(busy) \in Nat /\ Cardinality(busy) < 1
  BY <1>1, FS_CardinalityType DEF Arrive
<1>3. busy = {}
  BY <1>1, <1>2, FS_EmptySet
<1> QED
  BY <1>3

\* A request goes on: what is left of it is what it adds and what it had.
LEMMA Continuing ==
  ASSUME Types, NEW p \in People, work[p] # <<>>, NEW steps \in Seq(Statement), Then(p, steps)
  PROVE  /\ work' \in [People -> Seq(Statement)]
         /\ \A q \in People : q # p => work'[q] = work[q]
         /\ \A i \in DOMAIN work'[p] :
              IF i <= Len(steps) THEN work'[p][i] = steps[i]
              ELSE i - Len(steps) + 1 \in DOMAIN work[p]
                   /\ i - Len(steps) + 1 > 1 /\ work'[p][i] = work[p][i - Len(steps) + 1]
<1>1. work[p] \in Seq(Statement) /\ Tail(work[p]) \in Seq(Statement)
  BY DEF Types
<1>2. work' = [work EXCEPT ![p] = steps \o Tail(work[p])]
  BY DEF Then
<1>3. steps \o Tail(work[p]) \in Seq(Statement)
  BY <1>1
<1>4. work'[p] = steps \o Tail(work[p])
  BY <1>2 DEF Types
<1>5. \A i \in DOMAIN (steps \o Tail(work[p])) :
        IF i <= Len(steps) THEN (steps \o Tail(work[p]))[i] = steps[i]
        ELSE i - Len(steps) + 1 \in DOMAIN work[p]
             /\ i - Len(steps) + 1 > 1
             /\ (steps \o Tail(work[p]))[i] = work[p][i - Len(steps) + 1]
  BY <1>1
<1> QED
  BY <1>2, <1>3, <1>4, <1>5 DEF Types

-----------------------------------------------------------------------------
(* What a step of a request does to the requests' invariants *)

RequestsOK == work \in [People -> Seq(Statement)] /\ OneAtATime /\ StatementsHold

LEMMA SingleStep ==
  ASSUME NEW s \in Statement
  PROVE  /\ <<s>> \in Seq(Statement) /\ InOrder(<<s>>)
         /\ DOMAIN <<s>> = 1..1 /\ <<s>>[1] = s
BY DEF InOrder

LEMMA SingleHolds ==
  ASSUME NEW s \in Statement, NEW us, Holds(s, us)
  PROVE  \A i \in DOMAIN <<s>> : Holds(<<s>>[i], us)
<1>1. DOMAIN <<s>> = 1..1 /\ <<s>>[1] = s
  BY SingleStep
<1> QED
  BY <1>1

LEMMA TwoSteps ==
  ASSUME NEW s \in Statement, NEW t \in Statement, t.do \in {"hide", "show"}
  PROVE  /\ <<s, t>> \in Seq(Statement) /\ InOrder(<<s, t>>)
         /\ DOMAIN <<s, t>> = 1..2 /\ <<s, t>>[1] = s /\ <<s, t>>[2] = t
<1>1. <<s, t>> \in Seq(Statement) /\ DOMAIN <<s, t>> = 1..2 /\ <<s, t>>[1] = s /\ <<s, t>>[2] = t
  OBVIOUS
<1>2. \A i, j \in 1..2 : i < j => j = 2
  OBVIOUS
<1> QED
  BY <1>1, <1>2 DEF InOrder

LEMMA NoStep ==
  /\ <<>> \in Seq(Statement) /\ InOrder(<<>>) /\ DOMAIN <<>> = {}
BY DEF InOrder

LEMMA Serving ==
  ASSUME Types, RequestsOK, NEW p \in People, NEW kind, NEW steps \in Seq(Statement),
         Serve(p, kind, steps), InOrder(steps), UNCHANGED <<users, lanes>>,
         lanes = 1 => \A i \in DOMAIN steps : Holds(steps[i], users)
  PROVE  RequestsOK' /\ requests' \in 0..MaxRequests
<1>1. work' = [work EXCEPT ![p] = steps] /\ Arrive(p, kind)
  BY DEF Serve
<1>2. work' \in [People -> Seq(Statement)] /\ work'[p] = steps
      /\ \A q \in People : q # p => work'[q] = work[q]
  BY <1>1 DEF Types
<1>3. requests' \in 0..MaxRequests
  BY <1>1, AccessAssumption DEF Arrive, Types
<1>4. lanes' = lanes /\ (lanes = 1 => \A q \in People : work[q] = <<>>)
  BY <1>1, ArrivesAlone
<1>5. OneAtATime'
  BY <1>2, <1>4 DEF OneAtATime
<1>6. StatementsHold'
  <2>3. \A q \in People : InOrder(work'[q])
    BY <1>2 DEF RequestsOK, StatementsHold
  <2>4. ASSUME lanes = 1, NEW q \in People, NEW i \in DOMAIN work'[q] PROVE Holds(work'[q][i], users)
    BY <2>4, <1>2 DEF RequestsOK, StatementsHold
  <2> QED
    BY <2>3, <2>4, <1>4 DEF StatementsHold
<1> QED
  BY <1>2, <1>3, <1>5, <1>6 DEF RequestsOK

\* The last of what a request does to the accounts.
LEMMA Finishing ==
  ASSUME Types, RequestsOK, NEW p \in People, work[p] # <<>>, Head(work[p]).do \in Ends,
         NEW steps \in Seq(Statement), Then(p, steps), InOrder(steps), UNCHANGED lanes,
         lanes = 1 => \A i \in DOMAIN steps : Holds(steps[i], users')
  PROVE  RequestsOK'
<1>1. /\ work' \in [People -> Seq(Statement)]
      /\ \A q \in People : q # p => work'[q] = work[q]
  BY Continuing
<1>2. \A i \in DOMAIN work'[p] :
        \/ i \in DOMAIN steps /\ work'[p][i] = steps[i]
        \/ i > Len(steps) /\ work'[p][i].do \in {"hide", "show"}
  <2>1. SUFFICES ASSUME NEW i \in DOMAIN work'[p], i > Len(steps)
                 PROVE  work'[p][i].do \in {"hide", "show"}
    <3>1. \A i \in DOMAIN work'[p] : i \in Nat /\ i >= 1 /\ (i <= Len(steps) => work'[p][i] = steps[i])
      BY <1>1, Continuing
    <3>2. Len(steps) \in Nat /\ DOMAIN steps = 1..Len(steps)
      OBVIOUS
    <3> QED
      BY <3>1, <3>2
  <2>2. i \in Nat /\ Len(steps) \in Nat
    BY <1>1
  <2> DEFINE k == i - Len(steps) + 1
  <2>3. k \in DOMAIN work[p] /\ k > 1 /\ work'[p][i] = work[p][k]
    BY <2>1, <2>2, Continuing
  <2>4. work[p] \in Seq(Statement) /\ 1 \in DOMAIN work[p] /\ work[p][1].do \in Ends
    BY DEF Types
  <2>5. InOrder(work[p])
    BY DEF RequestsOK, StatementsHold
  <2> QED
    BY <2>3, <2>4, <2>5 DEF InOrder
<1>3. OneAtATime'
  BY <1>1 DEF RequestsOK, OneAtATime
<1>4. InOrder(work'[p])
  <2>1. SUFFICES ASSUME NEW i \in DOMAIN work'[p], NEW j \in DOMAIN work'[p],
                        i < j, work'[p][i].do \in Ends
                 PROVE  work'[p][j].do \in {"hide", "show"}
    BY DEF InOrder
  <2>2. i \in DOMAIN steps /\ work'[p][i] = steps[i]
    BY <1>2, <2>1 DEF Ends
  <2> QED
    BY <1>2, <2>1, <2>2 DEF InOrder
<1>5. ASSUME lanes = 1, NEW q \in People, NEW i \in DOMAIN work'[q] PROVE Holds(work'[q][i], users')
  <2>1. CASE q = p
    <3>1. CASE i \in DOMAIN steps /\ work'[p][i] = steps[i]
      BY <3>1, <2>1, <1>5
    <3>2. CASE work'[p][i].do \in {"hide", "show"}
      BY <3>2, <2>1 DEF Holds
    <3> QED
      BY <3>1, <3>2, <1>2, <1>5, <2>1
  <2>2. CASE q # p
    <3>1. work'[q] = <<>>
      BY <2>2, <1>1, <1>5 DEF RequestsOK, OneAtATime
    <3> QED
      BY <3>1, <1>5
  <2> QED
    BY <2>1, <2>2
<1>6. StatementsHold'
  <2>1. \A q \in People : InOrder(work'[q])
    BY <1>1, <1>4 DEF RequestsOK, StatementsHold
  <2> QED
    BY <2>1, <1>5 DEF StatementsHold
<1> QED
  BY <1>1, <1>3, <1>6 DEF RequestsOK

\* A statement that is done, or after which nothing is done.
LEMMA Dropping ==
  ASSUME Types, RequestsOK, NEW p \in People, work[p] # <<>>, Then(p, <<>>) \/ Abort(p),
         UNCHANGED <<users, lanes>>
  PROVE  RequestsOK'
<1>1. /\ work' \in [People -> Seq(Statement)]
      /\ \A q \in People : q # p => work'[q] = work[q]
  BY NoStep, Continuing DEF Abort, Types
<1>2. \A i \in DOMAIN work'[p] : i + 1 \in DOMAIN work[p] /\ work'[p][i] = work[p][i + 1]
  <2>1. CASE Abort(p)
    BY <2>1, NoStep DEF Abort, Types
  <2>2. CASE Then(p, <<>>)
    <3>1. work'[p] = <<>> \o Tail(work[p]) /\ work[p] \in Seq(Statement)
      BY <2>2 DEF Then, Types
    <3>2. work'[p] = Tail(work[p])
      BY <3>1
    <3> QED
      BY <3>1, <3>2
  <2> QED
    BY <2>1, <2>2
<1>3. OneAtATime'
  BY <1>1 DEF RequestsOK, OneAtATime
<1>5. \A q \in People : InOrder(work'[q])
  <2>1. InOrder(work'[p])
    <3>1. SUFFICES ASSUME NEW i \in DOMAIN work'[p], NEW j \in DOMAIN work'[p],
                          i < j, work'[p][i].do \in Ends
                   PROVE  work'[p][j].do \in {"hide", "show"}
      BY DEF InOrder
    <3>2. i \in Nat /\ j \in Nat
      BY <1>1
    <3> QED
      BY <1>2, <3>1, <3>2 DEF RequestsOK, StatementsHold, InOrder
  <2> QED
    BY <2>1, <1>1 DEF RequestsOK, StatementsHold
<1>6. ASSUME lanes = 1, NEW q \in People, NEW i \in DOMAIN work'[q] PROVE Holds(work'[q][i], users)
  BY <1>6, <1>1, <1>2 DEF RequestsOK, StatementsHold
<1>7. StatementsHold'
  BY <1>5, <1>6 DEF StatementsHold
<1> QED
  BY <1>1, <1>3, <1>7 DEF RequestsOK

-----------------------------------------------------------------------------
(* What a step does to the accounts and to what belongs to them *)

LEMMA InvIsRequests ==
  ASSUME IInv PROVE Types /\ RequestsOK
BY DEF IInv, Types, RequestsOK

\* Steps that leave the accounts and their credentials alone.
LEMMA AccountsKept ==
  ASSUME IInv, UNCHANGED <<users, credentials, page, lanes, created>>, RequestsOK',
         requests' \in 0..MaxRequests, member' \in [People -> {"none", "active", "inactive"}]
  PROVE  IInv'
<1>1. Types'
  BY DEF IInv, Types, RequestsOK, credentials
<1>2. IdsAreFresh' /\ OneAccountEach'
  BY DEF IInv, IdsAreFresh, OneAccountEach
<1>3. PagesDenyOthers'
  BY DEF IInv, PagesDenyOthers
<1>4. NothingLeftOfTheDenied' /\ SessionsAreAdmitted'
  BY DEF IInv, NothingLeftOfTheDenied, SessionsAreAdmitted, Rows, Pending, credentials
<1> QED
  BY <1>1, <1>2, <1>3, <1>4 DEF IInv, RequestsOK

\* Steps that change credentials only.
LEMMA CredentialsChange ==
  ASSUME IInv, UNCHANGED <<users, member, page, lanes, created>>, RequestsOK',
         requests' \in 0..MaxRequests,
         sessions' \in [UserIds -> {"none", "live", "expired"}],
         tokens' \in [UserIds -> {"none", "forever", "live", "expired"}], oauth' \subseteq UserIds,
         \A u \in UserIds : users[u] = None =>
            sessions'[u] = "none" /\ tokens'[u] = "none" /\ u \notin oauth',
         lanes = 1 => \A u \in Rows : sessions'[u] # "none" => ~Pending(u)
  PROVE  IInv'
<1>1. Types'
  BY DEF IInv, Types, RequestsOK
<1>2. IdsAreFresh' /\ OneAccountEach'
  BY DEF IInv, IdsAreFresh, OneAccountEach
<1>3. PagesDenyOthers'
  BY DEF IInv, PagesDenyOthers
<1>4. NothingLeftOfTheDenied' /\ SessionsAreAdmitted'
  BY DEF NothingLeftOfTheDenied, SessionsAreAdmitted, Rows, Pending
<1> QED
  BY <1>1, <1>2, <1>3, <1>4 DEF IInv, RequestsOK

\* An UPDATE of one account that keeps whose it is.
LEMMA RowIsUpdated ==
  ASSUME Types, NEW u \in UserIds, NEW row, UpdateRow(u, row),
         users[u] # None => row \in User /\ row.who = users[u].who
  PROVE  /\ users' \in [UserIds -> User \cup {None}]
         /\ \A v \in UserIds : users'[v] = None <=> users[v] = None
         /\ \A v \in UserIds : users[v] # None => users'[v].who = users[v].who
         /\ \A v \in UserIds : v # u => users'[v] = users[v]
         /\ users[u] # None => users'[u] = row
<1>1. CASE users[u] = None
  BY <1>1 DEF UpdateRow, Types
<1>2. CASE users[u] # None
  <2>1. users' = [users EXCEPT ![u] = row] /\ row # None
    BY <1>2, AccessAssumption DEF UpdateRow
  <2> QED
    BY <2>1, <1>2 DEF Types
<1> QED
  BY <1>1, <1>2

LEMMA RowChange ==
  ASSUME IInv, NEW u \in UserIds, NEW row, UpdateRow(u, row),
         users[u] # None => row \in User /\ row.who = users[u].who,
         UNCHANGED <<member, credentials, page, lanes, requests, created>>, RequestsOK',
         lanes = 1 /\ users[u] # None => row.active \/ row.deactivated \/ Pending(u)
  PROVE  IInv'
<1> DEFINE now == users'
<1>0. Types
  BY InvIsRequests
<1>1. /\ now \in [UserIds -> User \cup {None}]
      /\ \A v \in UserIds : now[v] = None <=> users[v] = None
      /\ \A v \in UserIds : users[v] # None => now[v].who = users[v].who
      /\ \A v \in UserIds : v # u => now[v] = users[v]
      /\ users[u] # None => now[u] = row
  BY <1>0, RowIsUpdated
<1>2. Types'
  BY <1>0, <1>1 DEF Types, RequestsOK, credentials
<1> HIDE DEF now
<1>3. IdsAreFresh' /\ OneAccountEach'
  <2>1. \A v \in UserIds : v > created => now[v] = None
    BY <1>1 DEF IInv, IdsAreFresh
  <2>2. \A v, w \in UserIds : now[v] # None /\ now[w] # None /\ now[v].who = now[w].who => v = w
    BY <1>1 DEF IInv, OneAccountEach
  <2> QED
    BY <2>1, <2>2 DEF IdsAreFresh, OneAccountEach, now
<1>4. PagesDenyOthers'
  <2>1. \A p \in People : \A v \in UserIds :
          <<"deny", v>> \in page[p] /\ now[v] # None => now[v].who # p
    BY <1>1 DEF IInv, PagesDenyOthers
  <2> QED
    BY <2>1 DEF IInv, PagesDenyOthers, now
<1>5. NothingLeftOfTheDenied'
  <2>1. \A v \in UserIds : now[v] = None =>
          sessions[v] = "none" /\ tokens[v] = "none" /\ v \notin oauth
    BY <1>1 DEF IInv, NothingLeftOfTheDenied, Rows
  <2> QED
    BY <2>1 DEF NothingLeftOfTheDenied, Rows, credentials, now
<1>6. SessionsAreAdmitted'
  <2>1. ASSUME lanes = 1, NEW v \in UserIds, now[v] # None, sessions[v] # "none"
        PROVE  now[v].active \/ now[v].deactivated
    <3>1. users[v].active \/ users[v].deactivated
      BY <1>1, <2>1 DEF IInv, SessionsAreAdmitted, Rows, Pending
    <3>2. CASE v = u
      BY <1>1, <2>1, <3>1, <3>2 DEF Pending
    <3> QED
      BY <1>1, <2>1, <3>1, <3>2
  <2> QED
    BY <2>1 DEF SessionsAreAdmitted, Rows, Pending, credentials, now
<1> QED
  BY <1>2, <1>3, <1>4, <1>5, <1>6 DEF IInv, RequestsOK

-----------------------------------------------------------------------------
(* Signing in *)

LEMMA HandleCallbackKeepsIInv ==
  ASSUME IInv, NEW p \in People, HandleCallback(p)
  PROVE  IInv'
<1>1. PICK pr \in Providers : Serve(p, "signin", <<[do |-> "lookup", via |-> pr]>>)
  BY DEF HandleCallback
<1>2. UNCHANGED <<tables, page, lanes>>
  BY DEF HandleCallback
<1> DEFINE s == [do |-> "lookup", via |-> pr]
<1>3. s \in Statement /\ \A us : Holds(s, us)
  BY DEF Statement, Holds
<1> HIDE DEF s
<1>4. RequestsOK' /\ requests' \in 0..MaxRequests
  BY <1>1, <1>2, <1>3, SingleStep, Serving, InvIsRequests DEF s, tables
<1> QED
  BY <1>2, <1>4, AccountsKept DEF tables, IInv, Types

LEMMA FirstStatement ==
  ASSUME Types, NEW p \in People, NEW step, Doing(p, step)
  PROVE  /\ work[p] # <<>> /\ Now(p) \in Statement /\ Now(p).do = step
         /\ Head(work[p]).do = step /\ 1 \in DOMAIN work[p] /\ work[p][1] = Now(p)
BY DEF Doing, Now, Types

LEMMA GetOrCreateUserKeepsIInv ==
  ASSUME IInv, NEW p \in People, GetOrCreateUser(p)
  PROVE  IInv'
<1>1. Doing(p, "lookup") /\ UNCHANGED <<tables, page, lanes, requests>>
  BY DEF GetOrCreateUser
<1>2. Types /\ RequestsOK /\ UNCHANGED <<users, credentials, page, lanes, created, requests, member>>
  BY <1>1, InvIsRequests DEF tables
<1>3. work[p] # <<>> /\ Now(p) \in Statement /\ Now(p).do = "lookup" /\ Head(work[p]).do \in Ends
  BY <1>1, <1>2, FirstStatement DEF Ends
<1>4. Now(p).via \in Providers
  BY <1>3, Fields
<1>5. RequestsOK'
  <2>1. CASE \E u \in GetUserByProvider(p, Now(p).via) : Then(p, Admit(u, IsUserActive(u)))
    <3>1. PICK u \in GetUserByProvider(p, Now(p).via) : Then(p, Admit(u, IsUserActive(u)))
      BY <2>1
    <3>2. u \in UserIds /\ users[u] # None /\ IsUserActive(u) \in BOOLEAN
      BY DEF GetUserByProvider, Rows, IsUserActive
    <3> DEFINE steps == Admit(u, IsUserActive(u))
    <3>3. /\ steps \in Seq(Statement)
          /\ \A i \in DOMAIN steps :
               /\ steps[i].do \in {"ensure", "store", "session"}
               /\ steps[i].do = "session" => IsUserActive(u) /\ steps[i].user = u
      BY <3>2, AdmitIsShort
    <3> HIDE DEF steps
    <3>4. InOrder(steps) /\ \A i \in DOMAIN steps : Holds(steps[i], users)
      BY <3>3 DEF InOrder, Ends, Holds, IsUserActive
    <3> QED
      BY <1>2, <1>3, <3>1, <3>3, <3>4, Finishing DEF steps
  <2>2. CASE Abort(p)
    BY <1>2, <1>3, <2>2, Dropping
  <2>3. CASE Then(p, <<[do |-> "create", via |-> Now(p).via]>>)
    <3> DEFINE s == [do |-> "create", via |-> Now(p).via]
    <3>1. s \in Statement /\ \A us : Holds(s, us)
      BY <1>4 DEF Statement, Holds
    <3> HIDE DEF s
    <3>2. Then(p, <<s>>)
      BY <2>3 DEF s
    <3> QED
      BY <1>2, <1>3, <3>1, <3>2, SingleStep, Finishing
  <2> QED
    BY <2>1, <2>2, <2>3 DEF GetOrCreateUser
<1> QED
  BY <1>2, <1>5, AccountsKept DEF Types

LEMMA CreateUserAsFirstAdminKeepsIInv ==
  ASSUME IInv, NEW p \in People, CreateUserAsFirstAdmin(p)
  PROVE  IInv'
<1> DEFINE u == created + 1
           row == [who |-> p, via |-> Now(p).via, admin |-> FirstAdmin,
                   active |-> FirstAdmin, deactivated |-> FALSE]
<1>1. Doing(p, "create") /\ UNCHANGED <<member, credentials, page, lanes, requests>>
  BY DEF CreateUserAsFirstAdmin
<1>2. Types /\ RequestsOK
  BY InvIsRequests
<1>3. work[p] # <<>> /\ Now(p) \in Statement /\ Now(p).do = "create" /\ Head(work[p]).do \in Ends
  BY <1>1, <1>2, FirstStatement DEF Ends
<1>4. CASE GetUserByEmail(p) # {}
  <2>1. Abort(p) /\ UNCHANGED <<users, created>>
    BY <1>4 DEF CreateUserAsFirstAdmin
  <2>2. RequestsOK'
    BY <1>1, <1>2, <1>3, <2>1, Dropping
  <2> QED
    BY <1>1, <1>2, <2>1, <2>2, AccountsKept DEF Types
<1>5. CASE GetUserByEmail(p) = {}
  <2>1. /\ created < MaxUsers /\ created' = u /\ users' = [users EXCEPT ![u] = row]
        /\ Then(p, Admit(u, FirstAdmin))
    BY <1>5 DEF CreateUserAsFirstAdmin
  <2>2. FirstAdmin \in BOOLEAN /\ Now(p).via \in Providers
    BY <1>3, Fields DEF FirstAdmin
  <2>3. row \in User /\ row.who = p /\ row.active = FirstAdmin /\ row.deactivated = FALSE
    BY <2>2 DEF User
  <2>4. u \in UserIds /\ u \in Nat /\ created \in Nat /\ created' \in 0..MaxUsers /\ u > created
    BY <1>2, <2>1, AccessAssumption DEF Types, UserIds
  <2> HIDE DEF row, u
  <2>5. /\ users' \in [UserIds -> User \cup {None}] /\ users'[u] = row /\ row # None
        /\ \A v \in UserIds : v # u => users'[v] = users[v]
    BY <1>2, <2>1, <2>3, <2>4, AccessAssumption DEF Types
  <2>6. users[u] = None
    BY <2>4 DEF IInv, IdsAreFresh
  <2>7. RequestsOK'
    <3> DEFINE steps == Admit(u, FirstAdmin)
    <3>1. /\ steps \in Seq(Statement)
          /\ \A i \in DOMAIN steps :
               /\ steps[i].do \in {"ensure", "store", "session"}
               /\ steps[i].do = "session" => FirstAdmin /\ steps[i].user = u
      BY <2>2, <2>4, AdmitIsShort
    <3> HIDE DEF steps
    <3>2. InOrder(steps) /\ \A i \in DOMAIN steps : Holds(steps[i], users')
      BY <2>3, <2>5, <3>1 DEF InOrder, Ends, Holds
    <3> QED
      BY <1>1, <1>2, <1>3, <2>1, <3>1, <3>2, Finishing DEF steps
  <2>8. Types'
    BY <1>1, <1>2, <2>4, <2>5, <2>7 DEF Types, RequestsOK, credentials
  <2>9. IdsAreFresh'
    BY <1>2, <2>1, <2>4, <2>5 DEF IInv, IdsAreFresh, UserIds, u
  <2>10. OneAccountEach'
    <3>1. \A v \in UserIds : users[v] # None => users[v].who # p
      BY <1>5 DEF GetUserByEmail, Rows
    <3> QED
      BY <2>3, <2>5, <3>1 DEF IInv, OneAccountEach
  <2>11. PagesDenyOthers'
    <3>1. SUFFICES ASSUME NEW q \in People, NEW v \in UserIds
                   PROVE  /\ \A b \in Buttons : <<b, v>> \in page[q] => v <= created'
                          /\ <<"deny", v>> \in page[q] /\ users'[v] # None => users'[v].who # q
      BY <1>1 DEF PagesDenyOthers
    <3>2. /\ \A b \in Buttons : <<b, v>> \in page[q] => v <= created
          /\ <<"deny", v>> \in page[q] /\ users[v] # None => users[v].who # q
      BY DEF IInv, PagesDenyOthers
    <3>3. "deny" \in Buttons /\ v \in Nat
      BY DEF Buttons, UserIds
    <3> QED
      BY <2>1, <2>4, <2>5, <3>2, <3>3
  <2>12. NothingLeftOfTheDenied'
    BY <1>1, <2>5 DEF IInv, NothingLeftOfTheDenied, Rows, credentials
  <2>13. SessionsAreAdmitted'
    <3>1. sessions[u] = "none"
      BY <2>4, <2>6 DEF IInv, NothingLeftOfTheDenied, Rows
    <3>2. SUFFICES ASSUME lanes = 1, NEW v \in UserIds, users'[v] # None, sessions[v] # "none"
                   PROVE  users'[v].active \/ users'[v].deactivated
      BY <1>1 DEF SessionsAreAdmitted, Rows, Pending, credentials
    <3> QED
      BY <2>5, <3>1, <3>2 DEF IInv, SessionsAreAdmitted, Rows, Pending
  <2> QED
    BY <2>7, <2>8, <2>9, <2>10, <2>11, <2>12, <2>13 DEF IInv, RequestsOK
<1> QED
  BY <1>4, <1>5

LEMMA EnsureTeamMemberKeepsIInv ==
  ASSUME IInv, NEW p \in People, EnsureTeamMember(p)
  PROVE  IInv'
<1>1. Types /\ RequestsOK /\ work[p] # <<>> /\ Then(p, <<>>) /\ UNCHANGED <<users, lanes>>
  BY InvIsRequests DEF EnsureTeamMember, Doing
<1>2. member' \in [People -> {"none", "active", "inactive"}]
  BY <1>1 DEF EnsureTeamMember, syncTeamMember, Types
<1> QED
  BY <1>1, <1>2, Dropping, AccountsKept DEF EnsureTeamMember, Types

LEMMA StoreOAuthTokenKeepsIInv ==
  ASSUME IInv, NEW p \in People, StoreOAuthToken(p)
  PROVE  IInv'
<1>1. Types /\ RequestsOK /\ work[p] # <<>> /\ Then(p, <<>>)
  BY InvIsRequests DEF StoreOAuthToken, Doing
<1>2. UNCHANGED <<users, member, sessions, tokens, page, lanes, requests, created>>
      /\ oauth' = oauth \cup ({Now(p).user} \cap Rows)
  BY DEF StoreOAuthToken
<1>3. RequestsOK'
  BY <1>1, <1>2, Dropping
<1>4. \A v \in UserIds : users[v] = None =>
        sessions'[v] = "none" /\ tokens'[v] = "none" /\ v \notin oauth'
  BY <1>2 DEF IInv, NothingLeftOfTheDenied, Rows
<1>5. lanes = 1 => \A v \in Rows : sessions'[v] # "none" => ~Pending(v)
  BY <1>2 DEF IInv, SessionsAreAdmitted
<1>6. oauth' \subseteq UserIds
  BY <1>1, <1>2 DEF Types, Rows
<1> QED
  BY <1>1, <1>2, <1>3, <1>4, <1>5, <1>6, CredentialsChange DEF Types

LEMMA CreateSessionKeepsIInv ==
  ASSUME IInv, NEW p \in People, CreateSession(p)
  PROVE  IInv'
<1>1. Types /\ RequestsOK /\ Doing(p, "session") /\ Abort(p)
  BY InvIsRequests DEF CreateSession
<1>2. UNCHANGED <<users, member, tokens, oauth, page, lanes, requests, created>>
  BY DEF CreateSession
<1> DEFINE u == Now(p).user
<1>3. work[p] # <<>> /\ u \in UserIds /\ 1 \in DOMAIN work[p] /\ work[p][1] = Now(p)
      /\ Now(p).do = "session"
  BY <1>1, FirstStatement, Fields
<1>4. sessions' = IF users[u] # None THEN [sessions EXCEPT ![u] = "live"] ELSE sessions
  BY DEF CreateSession, Insertable
<1>5. lanes = 1 => users[u] # None /\ users[u].active
  BY <1>1, <1>3 DEF RequestsOK, StatementsHold, Holds
<1> HIDE DEF u
<1>6. RequestsOK'
  BY <1>1, <1>2, <1>3, Dropping
<1>7. sessions' \in [UserIds -> {"none", "live", "expired"}]
      /\ \A v \in UserIds : v # u \/ users[u] = None => sessions'[v] = sessions[v]
  BY <1>1, <1>3, <1>4 DEF Types
<1>8. \A v \in UserIds : users[v] = None =>
        sessions'[v] = "none" /\ tokens'[v] = "none" /\ v \notin oauth'
  BY <1>2, <1>7 DEF IInv, NothingLeftOfTheDenied, Rows
<1>9. lanes = 1 => \A v \in Rows : sessions'[v] # "none" => ~Pending(v)
  BY <1>5, <1>7 DEF IInv, SessionsAreAdmitted, Pending, Rows
<1> QED
  BY <1>1, <1>2, <1>6, <1>7, <1>8, <1>9, CredentialsChange DEF Types

LEMMA HandleLogoutKeepsIInv ==
  ASSUME IInv, NEW p \in People, HandleLogout(p)
  PROVE  IInv'
<1>1. Types /\ RequestsOK /\ Serve(p, "logout", <<>>)
      /\ UNCHANGED <<users, member, tokens, oauth, page, lanes, created>>
  BY InvIsRequests DEF HandleLogout
<1>2. PICK u \in GetUserByEmail(p) : sessions' = [sessions EXCEPT ![u] = "none"]
  BY DEF HandleLogout
<1>3. RequestsOK' /\ requests' \in 0..MaxRequests
  BY <1>1, NoStep, Serving
<1>4. sessions' \in [UserIds -> {"none", "live", "expired"}]
      /\ \A v \in UserIds : sessions'[v] # "none" => sessions'[v] = sessions[v]
  BY <1>1, <1>2 DEF Types
<1>5. \A v \in UserIds : users[v] = None =>
        sessions'[v] = "none" /\ tokens'[v] = "none" /\ v \notin oauth'
  BY <1>1, <1>4 DEF IInv, NothingLeftOfTheDenied, Rows
<1>6. lanes = 1 => \A v \in Rows : sessions'[v] # "none" => ~Pending(v)
  BY <1>4 DEF IInv, SessionsAreAdmitted, Rows
<1> QED
  BY <1>1, <1>3, <1>4, <1>5, <1>6, CredentialsChange DEF Types

-----------------------------------------------------------------------------
(* The team page and its buttons *)

\* An administrator has an account, which is his only one.
LEMMA Administrator ==
  ASSUME IInv, NEW p \in People, RequireAdmin(p)
  PROVE  \E v \in Admins(users) : users[v].who = p
BY DEF RequireAdmin, ValidateSession, GetSessionByToken, GetUserByEmail, IsUserActive, IsAdmin,
       Rows, Admins

LEMMA handleTeamKeepsIInv ==
  ASSUME IInv, NEW p \in People, handleTeam(p)
  PROVE  IInv'
<1>1. RequireAdmin(p) /\ UNCHANGED <<users, member, sessions, tokens, oauth, created, work, lanes, requests>>
      /\ page' = [page EXCEPT ![p] = UNION {Offered(u) \X {u} : u \in Rows}]
  BY DEF handleTeam, tables, credentials
<1>2. Types /\ RequestsOK
  BY InvIsRequests
<1> DEFINE offers == UNION {Offered(u) \X {u} : u \in Rows}
<1>3. \A x \in offers : x[1] \in Offered(x[2]) /\ x[2] \in Rows /\ x = <<x[1], x[2]>>
  OBVIOUS
<1>4. offers \subseteq Buttons \X UserIds
  BY <1>3 DEF Offered, Rows
<1>5. \A b, u : <<b, u>> \in offers => b \in Offered(u) /\ u \in Rows
  BY <1>3
<1>6. page'[p] = offers /\ \A q \in People : q # p => page'[q] = page[q]
  BY <1>1, <1>2 DEF Types
<1> HIDE DEF offers
<1>7. Types'
  BY <1>1, <1>2, <1>4, <1>6 DEF Types, offers
<1>8. PagesDenyOthers'
  <2>1. SUFFICES ASSUME NEW q \in People, NEW u \in UserIds
                 PROVE  /\ \A b \in Buttons : <<b, u>> \in page'[q] => u <= created
                        /\ <<"deny", u>> \in page'[q] /\ users[u] # None => users[u].who # q
    BY <1>1 DEF PagesDenyOthers
  <2>2. CASE q # p
    BY <2>2, <1>6 DEF IInv, PagesDenyOthers
  <2>3. CASE q = p
    <3>1. ASSUME NEW b \in Buttons, <<b, u>> \in offers PROVE u <= created
      <4>1. users[u] # None /\ u \in Nat /\ created \in Nat
        BY <3>1, <1>2, <1>5 DEF Rows, Types, UserIds
      <4> QED
        BY <4>1 DEF IInv, IdsAreFresh
    <3>2. ASSUME <<"deny", u>> \in offers, users[u] # None PROVE users[u].who # p
      <4>1. PICK v \in Admins(users) : users[v].who = p
        BY <1>1, Administrator
      <4>2. ~users[u].active
        BY <3>2, <1>5 DEF Offered, ListPendingUsers, Pending
      <4> QED
        BY <3>2, <4>1, <4>2 DEF IInv, OneAccountEach, Admins
    <3> QED
      BY <2>3, <3>1, <3>2, <1>6
  <2> QED
    BY <2>2, <2>3
<1>9. IdsAreFresh' /\ OneAccountEach'
  BY <1>1 DEF IInv, IdsAreFresh, OneAccountEach
<1>10. NothingLeftOfTheDenied' /\ SessionsAreAdmitted'
  BY <1>1 DEF IInv, NothingLeftOfTheDenied, SessionsAreAdmitted, Rows, Pending
<1>11. RequestsOK'
  BY <1>1, <1>2 DEF RequestsOK, OneAtATime, StatementsHold
<1> QED
  BY <1>7, <1>8, <1>9, <1>10, <1>11 DEF IInv, RequestsOK

LEMMA Pressing ==
  ASSUME IInv, NEW p \in People, NEW kind, NEW steps \in Seq(Statement), Serve(p, kind, steps),
         InOrder(steps), lanes = 1 => \A i \in DOMAIN steps : Holds(steps[i], users),
         UNCHANGED <<tables, page, lanes>>
  PROVE  IInv'
<1>1. Types /\ RequestsOK /\ UNCHANGED <<users, credentials, member, page, lanes, created>>
  BY InvIsRequests DEF tables
<1>2. RequestsOK' /\ requests' \in 0..MaxRequests
  BY <1>1, Serving
<1> QED
  BY <1>1, <1>2, AccountsKept DEF Types

LEMMA handleUserApproveKeepsIInv ==
  ASSUME IInv, NEW p \in People, handleUserApprove(p)
  PROVE  IInv'
<1>1. PICK u \in UserIds : Press(p, "approve", u, <<On("approve", u)>>)
  BY DEF handleUserApprove
<1>2. On("approve", u) \in Statement /\ On("approve", u).do = "approve"
  BY OnIsStatement
<1>3. Holds(On("approve", u), users)
  BY <1>2 DEF Holds
<1>4. Serve(p, "approve", <<On("approve", u)>>)
  BY <1>1 DEF Press
<1> QED
  BY <1>2, <1>3, <1>4, SingleStep, SingleHolds, Pressing DEF handleUserApprove

LEMMA handleUserDeactivateKeepsIInv ==
  ASSUME IInv, NEW p \in People, handleUserDeactivate(p)
  PROVE  IInv'
<1>1. PICK u \in UserIds : Press(p, "deactivate", u, <<On("guard", u)>>)
  BY DEF handleUserDeactivate
<1>2. On("guard", u) \in Statement /\ On("guard", u).do = "guard"
  BY OnIsStatement
<1>3. Holds(On("guard", u), users)
  BY <1>2 DEF Holds
<1>4. Serve(p, "deactivate", <<On("guard", u)>>)
  BY <1>1 DEF Press
<1> QED
  BY <1>2, <1>3, <1>4, SingleStep, SingleHolds, Pressing DEF handleUserDeactivate

\* The statement that hides the team member of account u.
LEMMA Hiding ==
  ASSUME Types, NEW u \in UserIds, users[u] # None
  PROVE  /\ [do |-> "hide", user |-> u, who |-> users[u].who] \in Statement
         /\ \A us : Holds([do |-> "hide", user |-> u, who |-> users[u].who], us)
BY Queries DEF Statement, User, Holds

LEMMA handleUserDenyKeepsIInv ==
  ASSUME IInv, NEW p \in People, handleUserDeny(p)
  PROVE  IInv'
<1>1. PICK u \in UserIds : Press(p, "deny", u, Denial(u))
  BY DEF handleUserDeny
<1>2. Types
  BY InvIsRequests
<1> DEFINE steps == Denial(u)
<1>3. steps \in Seq(Statement) /\ InOrder(steps) /\ \A i \in DOMAIN steps : Holds(steps[i], users)
  <2>1. CASE users[u] = None
    BY <2>1, NoStep DEF Denial
  <2>2. CASE users[u] # None
    <3> DEFINE s == [do |-> "hide", user |-> u, who |-> users[u].who]
    <3>1. On("deny", u) \in Statement /\ On("deny", u).do = "deny" /\ On("deny", u).user = u
      BY OnIsStatement
    <3>2. s \in Statement /\ s.do = "hide" /\ Holds(s, users)
      BY <1>2, <2>2, Hiding
    <3>3. PICK v \in Admins(users) : users[v].who = p
      BY <1>1, Administrator DEF Press
    <3>4. v # u
      BY <1>1, <3>3 DEF Press, IInv, PagesDenyOthers, Admins
    <3>5. Holds(On("deny", u), users)
      BY <3>1, <3>3, <3>4 DEF Holds, Spared
    <3>6. steps = <<On("deny", u), s>>
      BY <2>2 DEF Denial
    <3> HIDE DEF steps, s
    <3>7. /\ steps \in Seq(Statement) /\ InOrder(steps)
          /\ DOMAIN steps = 1..2 /\ steps[1] = On("deny", u) /\ steps[2] = s
      BY <3>1, <3>2, <3>6, TwoSteps
    <3> QED
      BY <3>2, <3>5, <3>7
  <2> QED
    BY <2>1, <2>2
<1>4. Serve(p, "deny", steps)
  BY <1>1 DEF Press
<1> HIDE DEF steps
<1> QED
  BY <1>3, <1>4, Pressing DEF handleUserDeny

LEMMA handleUserReactivateKeepsIInv ==
  ASSUME IInv, NEW p \in People, handleUserReactivate(p)
  PROVE  IInv'
<1>1. PICK u \in UserIds : Press(p, "reactivate", u, <<On("reactivate", u), On("show", u)>>)
  BY DEF handleUserReactivate
<1>2. On("reactivate", u) \in Statement /\ On("reactivate", u).do = "reactivate"
  BY OnIsStatement
<1>3. On("show", u) \in Statement /\ On("show", u).do = "show"
  BY OnIsStatement
<1> DEFINE steps == <<On("reactivate", u), On("show", u)>>
<1>4. /\ steps \in Seq(Statement) /\ InOrder(steps)
      /\ DOMAIN steps = 1..2 /\ steps[1] = On("reactivate", u) /\ steps[2] = On("show", u)
  BY <1>2, <1>3, TwoSteps
<1> HIDE DEF steps
<1>5. \A i \in DOMAIN steps : Holds(steps[i], users)
  BY <1>2, <1>3, <1>4 DEF Holds
<1>6. Serve(p, "reactivate", steps)
  BY <1>1 DEF Press, steps
<1> QED
  BY <1>4, <1>5, <1>6, Pressing DEF handleUserReactivate

LEMMA handleUserAdminUpdateKeepsIInv ==
  ASSUME IInv, NEW p \in People, handleUserAdminUpdate(p)
  PROVE  IInv'
<1>1. PICK u \in UserIds, makeAdmin \in BOOLEAN :
        Press(p, IF makeAdmin THEN "promote" ELSE "demote", u,
              <<[do |-> "adminGuard", user |-> u, admin |-> makeAdmin]>>)
  BY DEF handleUserAdminUpdate
<1> DEFINE s == [do |-> "adminGuard", user |-> u, admin |-> makeAdmin]
<1>2. s \in Statement /\ Holds(s, users)
  BY DEF Statement, Holds
<1> HIDE DEF s
<1>3. PICK kind : Serve(p, kind, <<s>>)
  BY <1>1 DEF Press, s
<1> QED
  BY <1>2, <1>3, SingleStep, SingleHolds, Pressing DEF handleUserAdminUpdate

LEMMA ApproveUserKeepsIInv ==
  ASSUME IInv, NEW p \in People, ApproveUser(p)
  PROVE  IInv'
<1> DEFINE u == Now(p).user
           row == [users[u] EXCEPT !.active = TRUE, !.deactivated = FALSE]
<1>1. /\ Types /\ RequestsOK /\ Doing(p, "approve") /\ Then(p, <<>>) /\ UpdateRow(u, row)
      /\ UNCHANGED <<member, credentials, page, lanes, requests, created>>
  BY InvIsRequests DEF ApproveUser
<1>2. work[p] # <<>> /\ u \in UserIds /\ Head(work[p]).do \in Ends
  BY <1>1, FirstStatement, Fields DEF Ends
<1>3. users[u] # None => row \in User /\ row.who = users[u].who /\ row.active
  BY <1>1, <1>2, Queries DEF User
<1> HIDE DEF u, row
<1>4. RequestsOK'
  BY <1>1, <1>2, NoStep, Finishing
<1> QED
  BY <1>1, <1>2, <1>3, <1>4, RowChange

LEMMA ReactivateUserKeepsIInv ==
  ASSUME IInv, NEW p \in People, ReactivateUser(p)
  PROVE  IInv'
<1> DEFINE u == Now(p).user
           row == [users[u] EXCEPT !.active = TRUE, !.deactivated = FALSE]
<1>1. /\ Types /\ RequestsOK /\ Doing(p, "reactivate") /\ UpdateRow(u, row)
      /\ IF users[u] = None THEN Abort(p) ELSE Then(p, <<>>)
      /\ UNCHANGED <<member, credentials, page, lanes, requests, created>>
  BY InvIsRequests DEF ReactivateUser
<1>2. work[p] # <<>> /\ u \in UserIds /\ Head(work[p]).do \in Ends
  BY <1>1, FirstStatement, Fields DEF Ends
<1>3. users[u] # None => row \in User /\ row.who = users[u].who /\ row.active
  BY <1>1, <1>2, Queries DEF User
<1> HIDE DEF u, row
<1>4. RequestsOK'
  <2>1. CASE users[u] = None
    BY <1>1, <1>2, <2>1, Dropping DEF UpdateRow
  <2>2. CASE users[u] # None
    BY <1>1, <1>2, <2>2, NoStep, Finishing
  <2> QED
    BY <2>1, <2>2
<1> QED
  BY <1>1, <1>2, <1>3, <1>4, RowChange

LEMMA DeactivateUserKeepsIInv ==
  ASSUME IInv, NEW p \in People, DeactivateUser(p)
  PROVE  IInv'
<1> DEFINE u == Now(p).user
           row == [users[u] EXCEPT !.active = FALSE, !.deactivated = TRUE]
<1>1. /\ Types /\ RequestsOK /\ Doing(p, "deactivate") /\ UpdateRow(u, row)
      /\ IF users[u] = None THEN Abort(p) ELSE Then(p, <<>>)
      /\ UNCHANGED <<member, credentials, page, lanes, requests, created>>
  BY InvIsRequests DEF DeactivateUser
<1>2. work[p] # <<>> /\ u \in UserIds /\ Head(work[p]).do \in Ends
  BY <1>1, FirstStatement, Fields DEF Ends
<1>3. users[u] # None => row \in User /\ row.who = users[u].who /\ row.deactivated
  BY <1>1, <1>2, Queries DEF User
<1> HIDE DEF u, row
<1>4. RequestsOK'
  <2>1. CASE users[u] = None
    BY <1>1, <1>2, <2>1, Dropping DEF UpdateRow
  <2>2. CASE users[u] # None
    BY <1>1, <1>2, <2>2, NoStep, Finishing
  <2> QED
    BY <2>1, <2>2
<1> QED
  BY <1>1, <1>2, <1>3, <1>4, RowChange

LEMMA UpdateUserKeepsIInv ==
  ASSUME IInv, NEW p \in People, UpdateUser(p)
  PROVE  IInv'
<1> DEFINE u == Now(p).user
           row == [users[u] EXCEPT !.admin = Now(p).admin, !.active = Now(p).active]
<1>1. /\ Types /\ RequestsOK /\ Doing(p, "update") /\ Then(p, <<>>) /\ UpdateRow(u, row)
      /\ UNCHANGED <<member, credentials, page, lanes, requests, created>>
  BY InvIsRequests DEF UpdateUser
<1>2. work[p] # <<>> /\ u \in UserIds /\ Head(work[p]).do \in Ends
      /\ 1 \in DOMAIN work[p] /\ work[p][1] = Now(p) /\ Now(p).do = "update"
      /\ Now(p).admin \in BOOLEAN /\ Now(p).active \in BOOLEAN
  BY <1>1, FirstStatement, Fields DEF Ends
<1>3. users[u] # None => /\ row \in User /\ row.who = users[u].who
                         /\ row.active = Now(p).active /\ row.deactivated = users[u].deactivated
  BY <1>1, <1>2, Queries DEF User
<1>4. lanes = 1 => users[u].active = Now(p).active
  BY <1>1, <1>2 DEF RequestsOK, StatementsHold, Holds
<1> HIDE DEF row
<1>5. lanes = 1 /\ users[u] # None => row.active \/ row.deactivated \/ Pending(u)
  BY <1>3, <1>4 DEF Pending
<1> HIDE DEF u
<1>6. RequestsOK'
  BY <1>1, <1>2, NoStep, Finishing
<1> QED
  BY <1>1, <1>2, <1>3, <1>5, <1>6, RowChange

LEMMA DeactivateTeamMemberKeepsIInv ==
  ASSUME IInv, NEW p \in People, DeactivateTeamMember(p)
  PROVE  IInv'
<1>1. Types /\ RequestsOK /\ Doing(p, "hide") /\ Then(p, <<>>)
      /\ UNCHANGED <<users, credentials, page, lanes, requests, created>>
  BY InvIsRequests DEF DeactivateTeamMember
<1>2. work[p] # <<>> /\ member' \in [People -> {"none", "active", "inactive"}]
  BY <1>1 DEF DeactivateTeamMember, Types, Doing
<1> QED
  BY <1>1, <1>2, Dropping, AccountsKept DEF Types

LEMMA ActivateTeamMemberKeepsIInv ==
  ASSUME IInv, NEW p \in People, ActivateTeamMember(p)
  PROVE  IInv'
<1>1. Types /\ RequestsOK /\ Doing(p, "show") /\ Then(p, <<>>)
      /\ UNCHANGED <<users, credentials, page, lanes, requests, created>>
  BY InvIsRequests DEF ActivateTeamMember
<1>2. work[p] # <<>> /\ member' \in [People -> {"none", "active", "inactive"}]
  BY <1>1 DEF ActivateTeamMember, Types, Doing
<1> QED
  BY <1>1, <1>2, Dropping, AccountsKept DEF Types

LEMMA DeactivateGuardKeepsIInv ==
  ASSUME IInv, NEW p \in People, DeactivateGuard(p)
  PROVE  IInv'
<1> DEFINE u == Now(p).user
           s == [do |-> "hide", user |-> u, who |-> users[u].who]
<1>1. /\ Types /\ RequestsOK /\ Doing(p, "guard") /\ UNCHANGED <<users, credentials, page, lanes, created, member, requests>>
      /\ IF users[u] = None \/ LastAdmin(u) THEN Abort(p) ELSE Then(p, <<On("deactivate", u), s>>)
  BY InvIsRequests DEF DeactivateGuard, tables
<1>2. work[p] # <<>> /\ u \in UserIds /\ Head(work[p]).do \in Ends
  BY <1>1, FirstStatement, Fields DEF Ends
<1>3. On("deactivate", u) \in Statement /\ On("deactivate", u).do = "deactivate" /\ On("deactivate", u).user = u
  BY <1>2, OnIsStatement
<1>4. s.do = "hide"
  OBVIOUS
<1> HIDE DEF u, s
<1>5. RequestsOK'
  <2>1. CASE users[u] = None \/ LastAdmin(u)
    BY <1>1, <1>2, <2>1, Dropping
  <2>2. CASE users[u] # None /\ ~LastAdmin(u)
    <3>1. s \in Statement /\ Holds(s, users) /\ Holds(On("deactivate", u), users)
      BY <1>1, <1>2, <1>3, <2>2, Hiding, NotTheLast DEF s, Holds
    <3> DEFINE steps == <<On("deactivate", u), s>>
    <3>2. /\ steps \in Seq(Statement) /\ InOrder(steps)
          /\ DOMAIN steps = 1..2 /\ steps[1] = On("deactivate", u) /\ steps[2] = s
      BY <1>3, <1>4, <3>1, TwoSteps
    <3>3. Then(p, steps)
      BY <1>1, <2>2
    <3> HIDE DEF steps
    <3>4. \A i \in DOMAIN steps : Holds(steps[i], users')
      BY <1>1, <3>1, <3>2
    <3> QED
      BY <1>1, <1>2, <3>2, <3>3, <3>4, Finishing
  <2> QED
    BY <2>1, <2>2
<1> QED
  BY <1>1, <1>5, AccountsKept DEF Types

LEMMA guardAdminDemotionKeepsIInv ==
  ASSUME IInv, NEW p \in People, guardAdminDemotion(p)
  PROVE  IInv'
<1> DEFINE u == Now(p).user
           s == [do |-> "update", user |-> u, admin |-> Now(p).admin, active |-> users[u].active]
<1>1. /\ Types /\ RequestsOK /\ Doing(p, "adminGuard") /\ UNCHANGED <<users, credentials, page, lanes, created, member, requests>>
      /\ IF users[u] = None \/ (~Now(p).admin /\ LastAdmin(u)) THEN Abort(p) ELSE Then(p, <<s>>)
  BY InvIsRequests DEF guardAdminDemotion, tables
<1>2. work[p] # <<>> /\ u \in UserIds /\ Head(work[p]).do \in Ends /\ Now(p).admin \in BOOLEAN
  BY <1>1, FirstStatement, Fields DEF Ends
<1>3. RequestsOK'
  <2>1. CASE users[u] = None \/ (~Now(p).admin /\ LastAdmin(u))
    BY <1>1, <1>2, <2>1, Dropping
  <2>2. CASE users[u] # None /\ (Now(p).admin \/ ~LastAdmin(u))
    <3>1. s \in Statement
      BY <1>1, <1>2, <2>2, Queries DEF Statement, User
    <3>2. Now(p).admin \/ Spared(u, users)
      BY <1>1, <1>2, <2>2, NotTheLast
    <3>3. Holds(s, users)
      BY <2>2, <3>2 DEF Holds
    <3>4. Then(p, <<s>>)
      BY <1>1, <2>2
    <3> HIDE DEF s
    <3>5. \A i \in DOMAIN <<s>> : Holds(<<s>>[i], users')
      BY <1>1, <3>1, <3>3, SingleHolds
    <3> QED
      BY <1>1, <1>2, <3>1, <3>4, <3>5, SingleStep, Finishing
  <2> QED
    BY <2>1, <2>2
<1> QED
  BY <1>1, <1>3, AccountsKept DEF Types

LEMMA denyPendingUserKeepsIInv ==
  ASSUME IInv, NEW p \in People, denyPendingUser(p)
  PROVE  IInv'
<1> DEFINE u == Now(p).user
<1>1. /\ Types /\ RequestsOK /\ Doing(p, "deny") /\ UNCHANGED <<member, page, lanes, requests, created>>
      /\ Then(p, <<>>)
      /\ users' = [users EXCEPT ![u] = None]
      /\ sessions' = [sessions EXCEPT ![u] = "none"]
      /\ tokens' = [tokens EXCEPT ![u] = "none"] /\ oauth' = oauth \ {u}
  BY InvIsRequests DEF denyPendingUser
<1>2. work[p] # <<>> /\ u \in UserIds /\ Head(work[p]).do \in Ends
  BY <1>1, FirstStatement, Fields DEF Ends
<1> HIDE DEF u
<1>3. RequestsOK'
  BY <1>1, <1>2, NoStep, Finishing
<1>4. /\ users' \in [UserIds -> User \cup {None}] /\ users'[u] = None
      /\ \A v \in UserIds : v # u => users'[v] = users[v]
  BY <1>1, <1>2 DEF Types
<1>5. /\ sessions' \in [UserIds -> {"none", "live", "expired"}] /\ sessions'[u] = "none"
      /\ \A v \in UserIds : v # u => sessions'[v] = sessions[v]
  BY <1>1, <1>2 DEF Types
<1>6. /\ tokens' \in [UserIds -> {"none", "forever", "live", "expired"}] /\ tokens'[u] = "none"
      /\ \A v \in UserIds : v # u => tokens'[v] = tokens[v]
  BY <1>1, <1>2 DEF Types
<1>7. Types'
  BY <1>1, <1>3, <1>4, <1>5, <1>6 DEF Types, RequestsOK
<1>8. IdsAreFresh' /\ OneAccountEach'
  BY <1>1, <1>4 DEF IInv, IdsAreFresh, OneAccountEach
<1>9. PagesDenyOthers'
  BY <1>1, <1>4 DEF IInv, PagesDenyOthers
<1>10. NothingLeftOfTheDenied'
  BY <1>1, <1>4, <1>5, <1>6 DEF IInv, NothingLeftOfTheDenied, Rows
<1>11. SessionsAreAdmitted'
  BY <1>1, <1>4, <1>5 DEF IInv, SessionsAreAdmitted, Rows, Pending
<1> QED
  BY <1>3, <1>7, <1>8, <1>9, <1>10, <1>11 DEF IInv, RequestsOK

LEMMA handleTeamPostKeepsIInv ==
  ASSUME IInv, NEW p \in People, handleTeamPost(p)
  PROVE  IInv'
<1>1. Types /\ RequestsOK /\ Serve(p, "team", <<>>)
      /\ UNCHANGED <<users, credentials, page, lanes, created>>
  BY InvIsRequests DEF handleTeamPost
<1>2. RequestsOK' /\ requests' \in 0..MaxRequests
  BY <1>1, NoStep, Serving
<1>3. member' \in [People -> {"none", "active", "inactive"}]
  BY <1>1 DEF handleTeamPost, Types
<1> QED
  BY <1>1, <1>2, <1>3, AccountsKept

LEMMA handleTeamMemberDeleteKeepsIInv ==
  ASSUME IInv, NEW p \in People, handleTeamMemberDelete(p)
  PROVE  IInv'
<1>1. Types /\ RequestsOK /\ Serve(p, "team", <<>>)
      /\ UNCHANGED <<users, credentials, page, lanes, created>>
  BY InvIsRequests DEF handleTeamMemberDelete
<1>2. RequestsOK' /\ requests' \in 0..MaxRequests
  BY <1>1, NoStep, Serving
<1>3. member' \in [People -> {"none", "active", "inactive"}]
  BY <1>1 DEF handleTeamMemberDelete, Types
<1> QED
  BY <1>1, <1>2, <1>3, AccountsKept

-----------------------------------------------------------------------------
(* API tokens and the passing of time *)

LEMMA Authenticated ==
  ASSUME Types, NEW p \in People, NEW u \in authenticateOptional(p)
  PROVE  u \in UserIds /\ users[u] # None
BY DEF authenticateOptional, ValidateSession, GetSessionByToken, GetAPITokenByHash, GetUserByEmail,
       Rows

\* A request that gives or takes back tokens.
LEMMA TokensChange ==
  ASSUME IInv, NEW p \in People, Serve(p, "tokens", <<>>),
         UNCHANGED <<users, member, sessions, oauth, page, lanes, created>>,
         tokens' \in [UserIds -> {"none", "forever", "live", "expired"}],
         \A v \in UserIds : users[v] = None /\ tokens[v] = "none" => tokens'[v] = "none"
  PROVE  IInv'
<1>1. Types /\ RequestsOK
  BY InvIsRequests
<1>2. RequestsOK' /\ requests' \in 0..MaxRequests
  BY <1>1, NoStep, Serving
<1>3. \A v \in UserIds : users[v] = None =>
        sessions'[v] = "none" /\ tokens'[v] = "none" /\ v \notin oauth'
  BY DEF IInv, NothingLeftOfTheDenied, Rows
<1>4. lanes = 1 => \A v \in Rows : sessions'[v] # "none" => ~Pending(v)
  BY DEF IInv, SessionsAreAdmitted
<1> QED
  BY <1>1, <1>2, <1>3, <1>4, CredentialsChange DEF Types

LEMMA TokenRequestsKeepIInv ==
  ASSUME IInv, NEW p \in People,
         handleGenerateAPIToken(p) \/ handleRevokeAPIToken(p) \/ handleCleanupExpiredTokens(p)
  PROVE  IInv'
<1>1. Types
  BY InvIsRequests
<1>2. CASE handleGenerateAPIToken(p)
  <2>1. PICK u \in authenticateOptional(p), life \in {"forever", "live"} :
          tokens' = [tokens EXCEPT ![u] = life]
    BY <1>2 DEF handleGenerateAPIToken
  <2>2. u \in UserIds /\ users[u] # None
    BY <1>1, Authenticated
  <2>3. /\ tokens' \in [UserIds -> {"none", "forever", "live", "expired"}]
        /\ \A v \in UserIds : v # u => tokens'[v] = tokens[v]
    BY <1>1, <2>1, <2>2 DEF Types
  <2> QED
    BY <1>2, <2>2, <2>3, TokensChange DEF handleGenerateAPIToken
<1>3. CASE handleRevokeAPIToken(p)
  <2>1. PICK u \in authenticateOptional(p) : tokens' = [tokens EXCEPT ![u] = "none"]
    BY <1>3 DEF handleRevokeAPIToken
  <2>2. /\ tokens' \in [UserIds -> {"none", "forever", "live", "expired"}]
        /\ \A v \in UserIds : tokens[v] = "none" => tokens'[v] = "none"
    BY <1>1, <2>1 DEF Types
  <2> QED
    BY <1>3, <2>2, TokensChange DEF handleRevokeAPIToken
<1>4. CASE handleCleanupExpiredTokens(p)
  <2>1. /\ tokens' \in [UserIds -> {"none", "forever", "live", "expired"}]
        /\ \A v \in UserIds : tokens[v] = "none" => tokens'[v] = "none"
    BY <1>1, <1>4 DEF handleCleanupExpiredTokens, Types
  <2> QED
    BY <1>4, <2>1, TokensChange DEF handleCleanupExpiredTokens
<1> QED
  BY <1>2, <1>3, <1>4

\* Nothing but the credentials' age changes.
LEMMA TimeKeepsIInv ==
  ASSUME IInv, Expire \/ DeleteExpiredSessions
  PROVE  IInv'
<1>1. Types /\ RequestsOK
  BY InvIsRequests
<1>2. UNCHANGED <<users, member, oauth, page, work, lanes, requests, created>>
  BY DEF Expire, DeleteExpiredSessions
<1>3. /\ sessions' \in [UserIds -> {"none", "live", "expired"}]
      /\ tokens' \in [UserIds -> {"none", "forever", "live", "expired"}]
      /\ \A v \in UserIds : sessions[v] = "none" => sessions'[v] = "none"
      /\ \A v \in UserIds : tokens[v] = "none" => tokens'[v] = "none"
  <2>1. CASE DeleteExpiredSessions
    BY <1>1, <2>1 DEF DeleteExpiredSessions, Expired, Types
  <2>2. CASE Expire
    <3>1. PICK u \in UserIds :
            \/ /\ sessions[u] = "live" /\ sessions' = [sessions EXCEPT ![u] = "expired"]
               /\ UNCHANGED tokens
            \/ /\ tokens[u] = "live" /\ tokens' = [tokens EXCEPT ![u] = "expired"]
               /\ UNCHANGED sessions
      BY <2>2 DEF Expire
    <3> QED
      BY <1>1, <3>1 DEF Types
  <2> QED
    BY <2>1, <2>2
<1>4. RequestsOK'
  BY <1>1, <1>2 DEF RequestsOK, OneAtATime, StatementsHold
<1>5. \A v \in UserIds : users[v] = None =>
        sessions'[v] = "none" /\ tokens'[v] = "none" /\ v \notin oauth'
  BY <1>2, <1>3 DEF IInv, NothingLeftOfTheDenied, Rows
<1>6. lanes = 1 => \A v \in Rows : sessions'[v] # "none" => ~Pending(v)
  BY <1>3 DEF IInv, SessionsAreAdmitted, Rows
<1> QED
  BY <1>1, <1>2, <1>3, <1>4, <1>5, <1>6, CredentialsChange DEF Types

LEMMA RestartKeepsIInv ==
  ASSUME IInv, Restart
  PROVE  IInv'
<1>1. Types /\ RequestsOK
  BY InvIsRequests
<1>2. work' = [p \in People |-> <<>>]
      /\ UNCHANGED <<users, member, credentials, page, lanes, requests, created>>
  BY DEF Restart, tables
<1>3. work' \in [People -> Seq(Statement)] /\ \A p \in People : work'[p] = <<>>
  BY <1>2
<1>4. OneAtATime' /\ StatementsHold'
  BY <1>3, NoStep DEF OneAtATime, StatementsHold
<1> QED
  BY <1>1, <1>2, <1>3, <1>4, AccountsKept DEF RequestsOK, Types

-----------------------------------------------------------------------------
(* The theorems *)

LEMMA InitIInv ==
  ASSUME Init PROVE IInv
<1>1. PICK founder \in People \cup {None} :
        /\ users = [u \in UserIds |-> IF founder # None /\ u = 1
              THEN [who |-> founder, via |-> CHOOSE pr \in Providers : TRUE,
                    admin |-> TRUE, active |-> TRUE, deactivated |-> FALSE]
              ELSE None]
        /\ member = [p \in People |-> IF p = founder THEN "active" ELSE "none"]
        /\ sessions = [u \in UserIds |-> IF founder # None /\ u = 1 THEN "live" ELSE "none"]
        /\ oauth = IF founder # None THEN {1} ELSE {}
  BY DEF Init
<1> DEFINE row == [who |-> founder, via |-> CHOOSE pr \in Providers : TRUE,
                   admin |-> TRUE, active |-> TRUE, deactivated |-> FALSE]
<1>2. 1 \in UserIds /\ UserIds \subseteq Nat
  BY AccessAssumption DEF UserIds
<1>3. founder # None => row \in User
  <2>1. (CHOOSE pr \in Providers : TRUE) \in Providers
    BY AccessAssumption
  <2> QED
    BY <2>1 DEF User
<1>4. row.who = founder /\ row.active
  OBVIOUS
<1>5. users = [u \in UserIds |-> IF founder # None /\ u = 1 THEN row ELSE None]
  BY <1>1
<1> HIDE DEF row
<1>6. /\ users \in [UserIds -> User \cup {None}]
      /\ \A u \in UserIds : users[u] = IF founder # None /\ u = 1 THEN row ELSE None
  BY <1>3, <1>5
<1>7. founder # None => row # None
  BY <1>3, AccessAssumption
<1>8. created = IF founder = None THEN 0 ELSE 1
  BY <1>2, <1>6, <1>7 DEF Init
<1>9. /\ tokens = [u \in UserIds |-> "none"] /\ page = [p \in People |-> {}]
      /\ work = [p \in People |-> <<>>] /\ lanes \in 1..MaxLanes /\ requests = 0
  BY DEF Init
<1>10. Types
  BY <1>1, <1>2, <1>6, <1>8, <1>9, AccessAssumption DEF Types
<1>11. IdsAreFresh
  BY <1>2, <1>6, <1>8 DEF IdsAreFresh
<1>12. OneAccountEach
  BY <1>6 DEF OneAccountEach
<1>13. PagesDenyOthers
  BY <1>9 DEF PagesDenyOthers
<1>14. NothingLeftOfTheDenied
  BY <1>1, <1>2, <1>6, <1>7, <1>9 DEF NothingLeftOfTheDenied, Rows
<1>15. SessionsAreAdmitted
  BY <1>4, <1>6 DEF SessionsAreAdmitted, Rows, Pending
<1>16. OneAtATime /\ StatementsHold
  BY <1>9, NoStep DEF OneAtATime, StatementsHold
<1> QED
  BY <1>10, <1>11, <1>12, <1>13, <1>14, <1>15, <1>16 DEF IInv

LEMMA StutterKeepsIInv ==
  ASSUME IInv, UNCHANGED vars
  PROVE  IInv'
<1>1. Types /\ RequestsOK
  BY InvIsRequests
<1>2. RequestsOK'
  BY <1>1 DEF RequestsOK, OneAtATime, StatementsHold, vars
<1> QED
  BY <1>1, <1>2, AccountsKept DEF Types, vars, credentials

LEMMA NextKeepsIInv ==
  ASSUME IInv, [Next]_vars
  PROVE  IInv'
<1>1. ASSUME NEW p \in People, SignIn(p) PROVE IInv'
  BY <1>1, HandleCallbackKeepsIInv, GetOrCreateUserKeepsIInv, CreateUserAsFirstAdminKeepsIInv,
     EnsureTeamMemberKeepsIInv, StoreOAuthTokenKeepsIInv, CreateSessionKeepsIInv,
     HandleLogoutKeepsIInv DEF SignIn
<1>2. ASSUME NEW p \in People, Administration(p) PROVE IInv'
  BY <1>2, handleTeamKeepsIInv, handleUserApproveKeepsIInv, handleUserDenyKeepsIInv,
     handleUserReactivateKeepsIInv, handleUserDeactivateKeepsIInv,
     handleUserAdminUpdateKeepsIInv, ApproveUserKeepsIInv, denyPendingUserKeepsIInv,
     DeactivateGuardKeepsIInv, DeactivateUserKeepsIInv, DeactivateTeamMemberKeepsIInv,
     ReactivateUserKeepsIInv, ActivateTeamMemberKeepsIInv, guardAdminDemotionKeepsIInv,
     UpdateUserKeepsIInv, handleTeamPostKeepsIInv, handleTeamMemberDeleteKeepsIInv
     DEF Administration
<1>3. ASSUME NEW p \in People, ApiTokens(p) PROVE IInv'
  BY <1>3, TokenRequestsKeepIInv DEF ApiTokens
<1>4. CASE Expire \/ DeleteExpiredSessions
  BY <1>4, TimeKeepsIInv
<1>5. CASE Restart
  BY <1>5, RestartKeepsIInv
<1>6. CASE UNCHANGED vars
  BY <1>6, StutterKeepsIInv
<1> QED
  BY <1>1, <1>2, <1>3, <1>4, <1>5, <1>6 DEF Next

\* The invariant the other theorems rest on (users, sessions, tokens and running requests).
THEOREM InvariantHolds == Spec => []IInv
<1>1. Init => IInv
  BY InitIInv
<1>2. IInv /\ [Next]_vars => IInv'
  BY NextKeepsIInv
<1> QED
  BY <1>1, <1>2, PTL DEF Spec

\* The tables, the open pages and the running requests keep their types.
THEOREM TypesHold == Spec => []TypeOK
<1>1. ASSUME IInv PROVE TypeOK
  <2>1. ASSUME NEW p \in People, NEW i \in DOMAIN work[p] PROVE work[p][i].do \in Steps
    <3>1. work[p][i] \in Statement
      BY <1>1, <2>1 DEF IInv, Types
    <3> QED
      BY <3>1, Fields
  <2> QED
    BY <1>1, <2>1 DEF IInv, Types, TypeOK
<1> QED
  BY <1>1, InvariantHolds, PTL

\* user_admin_handlers.go denyPendingUser: nothing of a denied account is left or comes
\* back, however many requests run beside the denial.
THEOREM TheDeniedAreGone == Spec => []NothingLeftOfTheDenied
<1>1. IInv => NothingLeftOfTheDenied
  BY DEF IInv
<1> QED
  BY <1>1, InvariantHolds, PTL

\* user_service.go: with one request at a time, whoever holds a session was let in.
THEOREM OnlyTheAdmittedHaveSessions == Spec => []SessionsAreAdmitted
<1>1. IInv => SessionsAreAdmitted
  BY DEF IInv
<1> QED
  BY <1>1, InvariantHolds, PTL

\* An account that stays an active administrator, when another is changed or removed.
LEMMA AnotherIsLeft ==
  ASSUME NEW u, NEW us, NEW later, Spared(u, us), Admins(us) # {},
         \A v \in UserIds : v # u => later[v] = us[v]
  PROVE  Admins(later) # {}
BY DEF Spared, Admins

LEMMA StepLeavesAnAdmin ==
  ASSUME IInv, Next, lanes = 1, SomeAdmin
  PROVE  SomeAdmin'
<1>1. Types /\ RequestsOK /\ Admins(users) # {}
  BY InvIsRequests, Queries
<1>2. IInv' /\ (SomeAdmin' <=> Admins(users') # {})
  <2>1. IInv'
    BY NextKeepsIInv
  <2> QED
    BY <2>1 DEF SomeAdmin, Rows, Admins
<1>3. CASE UNCHANGED users
  BY <1>1, <1>2, <1>3
<1>4. ASSUME NEW p \in People, CreateUserAsFirstAdmin(p), ~UNCHANGED users PROVE Admins(users') # {}
  <2> DEFINE row == [who |-> p, via |-> Now(p).via, admin |-> FirstAdmin,
                     active |-> FirstAdmin, deactivated |-> FALSE]
  <2>1. users' = [users EXCEPT ![created + 1] = row] /\ created + 1 > created
    BY <1>1, <1>4 DEF CreateUserAsFirstAdmin, Types
  <2> HIDE DEF row
  <2>2. \A v \in UserIds : v # created + 1 => users'[v] = users[v]
    BY <1>1, <2>1 DEF Types
  <2>3. \A v \in Admins(users) : v # created + 1
    BY <2>1 DEF IInv, IdsAreFresh, Admins
  <2> QED
    BY <1>1, <2>2, <2>3 DEF Admins
<1>5. ASSUME NEW p \in People, NEW step, Doing(p, step)
      PROVE  work[p] # <<>> /\ Now(p) \in Statement /\ Now(p).do = step /\ Holds(Now(p), users)
  BY <1>1, <1>5, FirstStatement DEF RequestsOK, StatementsHold
<1>6. ASSUME NEW p \in People, ApproveUser(p) \/ ReactivateUser(p) PROVE Admins(users') # {}
  <2> DEFINE u == Now(p).user
             row == [users[u] EXCEPT !.active = TRUE, !.deactivated = FALSE]
  <2>1. UpdateRow(u, row) /\ u \in UserIds
    BY <1>5, <1>6, Fields DEF ApproveUser, ReactivateUser
  <2>2. users[u] # None => /\ row \in User /\ row.who = users[u].who /\ row.active
                           /\ row.admin = users[u].admin
    BY <1>1, <2>1, Queries DEF User
  <2> HIDE DEF u, row
  <2>3. /\ \A v \in UserIds : users'[v] = None <=> users[v] = None
        /\ \A v \in UserIds : v # u => users'[v] = users[v]
        /\ users[u] # None => users'[u] = row
    BY <1>1, <2>1, <2>2, RowIsUpdated
  <2> QED
    BY <1>1, <2>2, <2>3 DEF Admins
<1>7. ASSUME NEW p \in People, DeactivateUser(p) PROVE Admins(users') # {}
  <2> DEFINE u == Now(p).user
             row == [users[u] EXCEPT !.active = FALSE, !.deactivated = TRUE]
  <2>1. UpdateRow(u, row) /\ u \in UserIds /\ Spared(u, users)
    BY <1>5, <1>7, Fields DEF DeactivateUser, Holds
  <2>2. users[u] # None => row \in User /\ row.who = users[u].who
    BY <1>1, <2>1, Queries DEF User
  <2> HIDE DEF u, row
  <2>3. \A v \in UserIds : v # u => users'[v] = users[v]
    BY <1>1, <2>1, <2>2, RowIsUpdated
  <2> QED
    BY <1>1, <2>1, <2>3, AnotherIsLeft
<1>8. ASSUME NEW p \in People, UpdateUser(p) PROVE Admins(users') # {}
  <2> DEFINE u == Now(p).user
             row == [users[u] EXCEPT !.admin = Now(p).admin, !.active = Now(p).active]
  <2>1. /\ UpdateRow(u, row) /\ u \in UserIds /\ users[u] # None
        /\ Now(p).admin \in BOOLEAN /\ Now(p).active \in BOOLEAN
        /\ users[u].active = Now(p).active /\ (Now(p).admin \/ Spared(u, users))
    BY <1>5, <1>8, Fields DEF UpdateUser, Holds
  <2>2. /\ row \in User /\ row.who = users[u].who
        /\ row.admin = Now(p).admin /\ row.active = Now(p).active
    BY <1>1, <2>1, Queries DEF User
  <2> HIDE DEF u, row
  <2>3. /\ \A v \in UserIds : users'[v] = None <=> users[v] = None
        /\ \A v \in UserIds : v # u => users'[v] = users[v]
        /\ users'[u] = row
    BY <1>1, <2>1, <2>2, RowIsUpdated
  <2>4. CASE Spared(u, users)
    BY <1>1, <2>3, <2>4, AnotherIsLeft
  <2>5. CASE Now(p).admin
    BY <1>1, <2>1, <2>2, <2>3, <2>5 DEF Admins
  <2> QED
    BY <2>1, <2>4, <2>5
<1>9. ASSUME NEW p \in People, denyPendingUser(p) PROVE Admins(users') # {}
  <2> DEFINE u == Now(p).user
  <2>1. u \in UserIds /\ Spared(u, users) /\ users' = [users EXCEPT ![u] = None]
    BY <1>5, <1>9, Fields DEF denyPendingUser, Holds
  <2> HIDE DEF u
  <2>2. \A v \in UserIds : v # u => users'[v] = users[v]
    BY <1>1, <2>1 DEF Types
  <2>3. Spared(u, users) /\ Admins(users) # {}
    BY <1>1, <2>1
  <2> QED
    BY <2>2, <2>3, AnotherIsLeft
<1>10. ASSUME NEW p \in People, SignIn(p), ~UNCHANGED users PROVE Admins(users') # {}
  <2>1. CASE CreateUserAsFirstAdmin(p)
    BY <1>4, <1>10, <2>1
  <2> QED
    BY <1>10, <2>1 DEF SignIn, HandleCallback, GetOrCreateUser, EnsureTeamMember,
       StoreOAuthToken, CreateSession, HandleLogout, tables
<1>11. ASSUME NEW p \in People, Administration(p), ~UNCHANGED users PROVE Admins(users') # {}
  <2>1. CASE ApproveUser(p) \/ ReactivateUser(p)
    BY <1>6, <2>1
  <2>2. CASE DeactivateUser(p)
    BY <1>7, <2>2
  <2>3. CASE UpdateUser(p)
    BY <1>8, <2>3
  <2>4. CASE denyPendingUser(p)
    BY <1>9, <2>4
  <2>5. ~(handleTeam(p) \/ handleUserApprove(p) \/ handleUserDeny(p) \/ handleUserReactivate(p)
           \/ handleUserDeactivate(p) \/ handleUserAdminUpdate(p))
    BY <1>11 DEF handleTeam, handleUserApprove, handleUserDeny, handleUserReactivate,
       handleUserDeactivate, handleUserAdminUpdate, tables
  <2>6. ~(DeactivateGuard(p) \/ DeactivateTeamMember(p) \/ ActivateTeamMember(p)
           \/ guardAdminDemotion(p) \/ handleTeamPost(p) \/ handleTeamMemberDelete(p))
    BY <1>11 DEF DeactivateGuard, DeactivateTeamMember, ActivateTeamMember,
       guardAdminDemotion, handleTeamPost, handleTeamMemberDelete, tables
  <2> QED
    BY <1>11, <2>1, <2>2, <2>3, <2>4, <2>5, <2>6 DEF Administration
<1>12. (Expire \/ DeleteExpiredSessions \/ Restart \/ \E p \in People : ApiTokens(p))
       => UNCHANGED users
  BY DEF Expire, DeleteExpiredSessions, Restart, ApiTokens, handleGenerateAPIToken,
     handleRevokeAPIToken, handleCleanupExpiredTokens, tables
<1> QED
  BY <1>2, <1>3, <1>10, <1>11, <1>12 DEF Next

\* user_admin_handlers.go and guardAdminDemotion: an instance that serves one request at a
\* time keeps an active administrator, whatever the age of the pages that are acted on.
THEOREM AnAdminRemains == Spec => AdminRemains
<1>1. IInv /\ [Next]_vars => [(lanes = 1 /\ SomeAdmin) => SomeAdmin']_vars
  BY StepLeavesAnAdmin
<1> QED
  BY <1>1, InvariantHolds, PTL DEF Spec, AdminRemains

=============================================================================
