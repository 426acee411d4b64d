------------------------------ MODULE Access ------------------------------
(***************************************************************************)
(* Who may use the application (src/internal/auth, web/user_admin_handlers *)
(* and team_handlers): people sign in through a provider, administrators   *)
(* approve, deny, deactivate, reactivate, promote and demote accounts, and *)
(* sessions and API tokens carry an account from request to request.       *)
(*                                                                         *)
(* A request is a sequence of SQL statements; work[p] holds those that the *)
(* request of p's browser has still to run, each with what was read for    *)
(* it.  lanes is how many requests the instance serves at the same time.   *)
(* An email address belongs to one person, so a session is kept by user.   *)
(***************************************************************************)
EXTENDS Naturals, FiniteSets, Sequences

CONSTANTS
  People, Providers,
  MaxUsers,      \* users rows an instance may create
  MaxLanes, MaxRequests,
  Jobs,          \* kinds of requests an instance makes
  None

UserIds == 1..MaxUsers
Buttons == {"approve", "deny", "promote", "demote", "deactivate", "reactivate"}
Kinds == Buttons \cup {"signin", "logout", "tokens", "team"}

User == [who : People, via : Providers, admin : BOOLEAN, active : BOOLEAN, deactivated : BOOLEAN]

ASSUME AccessAssumption ==
  /\ {MaxUsers, MaxLanes, MaxRequests} \subseteq Nat /\ MaxUsers > 0 /\ MaxLanes > 0
  /\ IsFiniteSet(People) /\ Providers # {} /\ None \notin People \cup User /\ Jobs \subseteq Kinds

VARIABLES
  users,      \* users: by id, a row or None
  member,     \* team_members, by the person's email
  sessions,   \* sessions, by user
  tokens,     \* api_tokens, by user
  oauth,      \* users with a row in oauth_tokens
  page,       \* the buttons of the team page open in a browser
  work, lanes, requests,
  created     \* users rows ever made: an id is a uuid and is not used twice

vars == <<users, member, sessions, tokens, oauth, page, work, lanes, requests, created>>
credentials == <<sessions, tokens, oauth>>
tables == <<users, member, credentials, created>>

Steps == {"lookup", "create", "ensure", "store", "session", "approve", "deny", "guard",
          "deactivate", "hide", "reactivate", "show", "adminGuard", "update"}

-----------------------------------------------------------------------------
(* Queries *)
Rows == {u \in UserIds : users[u] # None}
GetUserByProvider(p, pr) == {u \in Rows : users[u].who = p /\ users[u].via = pr}
GetUserByEmail(p) == {u \in Rows : users[u].who = p}
\* Mutation: any account may sign in.
AnyUser(u) == users[u] # None
IsUserActive(u) == users[u] # None /\ users[u].active

IsAdmin(u) == users[u].admin
Pending(u) == users[u] # None /\ ~users[u].active /\ ~users[u].deactivated
ListDeactivatedUsers == {u \in Rows : ~users[u].active /\ users[u].deactivated}
ListPendingUsers == {u \in Rows : Pending(u)}
ListActiveUsers == {u \in Rows : IsUserActive(u)}
\* Mutation: administrators that cannot sign in are counted too.
EveryAdmin == {u \in Rows : users[u].admin}
CountAdmins == {u \in Rows : users[u].admin /\ users[u].active}


GetSessionByToken(p) == {u \in GetUserByEmail(p) : sessions[u] = "live"}
ValidateSession(p) == {u \in GetSessionByToken(p) : IsUserActive(u)}
RequireAdmin(p) == \E u \in ValidateSession(p) : IsAdmin(u)

\* A live token is enough: the account it belongs to is not looked at again.
GetAPITokenByHash(p) == {u \in GetUserByEmail(p) : tokens[u] \in {"forever", "live"}}
authenticateOptional(p) ==
  IF ValidateSession(p) # {} THEN ValidateSession(p) ELSE GetAPITokenByHash(p)

-----------------------------------------------------------------------------
(* Requests and their statements *)
Doing(p, step) == work[p] # <<>> /\ Head(work[p]).do = step
Now(p) == Head(work[p])
Then(p, steps) == work' = [work EXCEPT ![p] = steps \o Tail(@)]
Abort(p) == work' = [work EXCEPT ![p] = <<>>]
On(step, u) == [do |-> step, user |-> u]

Arrive(p, kind) ==
  /\ kind \in Jobs /\ work[p] = <<>> /\ requests < MaxRequests
  /\ Cardinality({q \in People : work[q] # <<>>}) < lanes
  /\ requests' = requests + 1

Serve(p, kind, steps) == Arrive(p, kind) /\ work' = [work EXCEPT ![p] = steps]

\* A statement that changes the user it names, if the row is still there.
UpdateRow(u, row) == users' = IF users[u] = None THEN users ELSE [users EXCEPT ![u] = row]

-----------------------------------------------------------------------------
(* Signing in: the provider has vouched for p, and the callback runs. *)
HandleCallback(p) ==
  /\ \E pr \in Providers : Serve(p, "signin", <<[do |-> "lookup", via |-> pr]>>)
  /\ UNCHANGED <<tables, page, lanes>>

\* What the callback does with the user it found or made.
Admit(u, active) ==
  IF active
  THEN <<[do |-> "ensure", active |-> TRUE], On("store", u), On("session", u)>>
  ELSE <<[do |-> "ensure", active |-> FALSE]>>

\* The second way in, by email, is refused: the account has another provider.
GetOrCreateUser(p) ==
  /\ Doing(p, "lookup")
  /\ LET known == GetUserByProvider(p, Now(p).via)
     IN IF known # {} THEN \E u \in known : Then(p, Admit(u, IsUserActive(u)))
        ELSE IF GetUserByEmail(p) # {} THEN Abort(p)
        ELSE Then(p, <<[do |-> "create", via |-> Now(p).via]>>)
  /\ UNCHANGED <<tables, page, lanes, requests>>

\* One INSERT ... SELECT: counting the administrators and inserting is atomic.
FirstAdmin == CountAdmins = {}

CreateUserAsFirstAdmin(p) ==
  /\ Doing(p, "create")
  /\ IF GetUserByEmail(p) # {} THEN Abort(p) /\ UNCHANGED <<users, created>>
     ELSE /\ created < MaxUsers /\ created' = created + 1
          /\ LET u == created + 1
             IN /\ users' = [users EXCEPT ![u] =
                     [who |-> p, via |-> Now(p).via, admin |-> FirstAdmin,
                      active |-> FirstAdmin, deactivated |-> FALSE]]
                /\ Then(p, Admit(u, FirstAdmin))
  /\ UNCHANGED <<member, credentials, page, lanes, requests>>

\* Mutation: a member is given the state of the account.
SyncState(m, active) == IF active THEN "active" ELSE "pending"
\* A new team member is active, whatever the account is.
syncTeamMember(m, active) == IF active /\ m = "inactive" THEN "active" ELSE m

EnsureTeamMember(p) ==
  /\ Doing(p, "ensure")
  /\ member' = [member EXCEPT ![p] = IF @ = "none" THEN "active"
                                     ELSE syncTeamMember(@, Now(p).active)]
  /\ Then(p, <<>>)
  /\ UNCHANGED <<users, credentials, page, lanes, requests, created>>

\* Its error is ignored: the foreign key refuses the token of a user that is gone.
StoreOAuthToken(p) ==
  /\ Doing(p, "store")
  /\ oauth' = oauth \cup ({Now(p).user} \cap Rows)
  /\ Then(p, <<>>)
  /\ UNCHANGED <<users, member, sessions, tokens, page, lanes, requests, created>>

\* Mutation: the connection does not enforce foreign keys.
Unchecked(u) == TRUE
\* The foreign key on sessions.user_id.
Insertable(u) == users[u] # None

CreateSession(p) ==
  /\ Doing(p, "session")
  /\ sessions' = IF Insertable(Now(p).user) THEN [sessions EXCEPT ![Now(p).user] = "live"]
                 ELSE sessions
  /\ Abort(p)
  /\ UNCHANGED <<users, member, tokens, oauth, page, lanes, requests, created>>

HandleLogout(p) ==
  /\ Serve(p, "logout", <<>>)
  /\ \E u \in GetUserByEmail(p) :
       sessions[u] # "none" /\ sessions' = [sessions EXCEPT ![u] = "none"]
  /\ UNCHANGED <<users, member, tokens, oauth, page, lanes, created>>

-----------------------------------------------------------------------------
(* The team page, and the buttons it offers for an account. *)
Offered(u) ==
  {b \in Buttons :
     \/ b \in {"approve", "deny"} /\ u \in ListPendingUsers
     \/ b = "reactivate" /\ u \in ListDeactivatedUsers
     \/ b = "deactivate" /\ u \in ListActiveUsers
     \/ b = "promote" /\ u \in ListActiveUsers /\ ~IsAdmin(u)
     \/ b = "demote" /\ u \in ListActiveUsers /\ IsAdmin(u) /\ Cardinality(CountAdmins) > 1}

handleTeam(p) ==
  /\ RequireAdmin(p) /\ work[p] = <<>>
  /\ page' = [page EXCEPT ![p] = UNION {Offered(u) \X {u} : u \in Rows}]
  /\ UNCHANGED <<tables, work, lanes, requests>>

\* A button is pressed on a page that may be old by now.
Press(p, b, u, steps) == RequireAdmin(p) /\ <<b, u>> \in page[p] /\ Serve(p, b, steps)

handleUserApprove(p) ==
  /\ \E u \in UserIds : Press(p, "approve", u, <<On("approve", u)>>)
  /\ UNCHANGED <<tables, page, lanes>>

\* Whose team member to hide is read before the account is removed.
Denial(u) ==
  IF users[u] = None THEN <<>>
  ELSE <<On("deny", u), [do |-> "hide", user |-> u, who |-> users[u].who]>>

handleUserDeny(p) ==
  /\ \E u \in UserIds : Press(p, "deny", u, Denial(u))
  /\ UNCHANGED <<tables, page, lanes>>

handleUserReactivate(p) ==
  /\ \E u \in UserIds : Press(p, "reactivate", u, <<On("reactivate", u), On("show", u)>>)
  /\ UNCHANGED <<tables, page, lanes>>

handleUserDeactivate(p) ==
  /\ \E u \in UserIds : Press(p, "deactivate", u, <<On("guard", u)>>)
  /\ UNCHANGED <<tables, page, lanes>>

handleUserAdminUpdate(p) ==
  /\ \E u \in UserIds, makeAdmin \in BOOLEAN :
       Press(p, IF makeAdmin THEN "promote" ELSE "demote", u,
             <<[do |-> "adminGuard", user |-> u, admin |-> makeAdmin]>>)
  /\ UNCHANGED <<tables, page, lanes>>

ApproveUser(p) ==
  /\ Doing(p, "approve")
  /\ UpdateRow(Now(p).user, [users[Now(p).user] EXCEPT !.active = TRUE, !.deactivated = FALSE])
  /\ Then(p, <<>>)
  /\ UNCHANGED <<member, credentials, page, lanes, requests, created>>

\* One transaction, and the member after it; api_tokens goes with the user.
denyPendingUser(p) ==
  /\ Doing(p, "deny")
  /\ LET u == Now(p).user
     IN /\ users' = [users EXCEPT ![u] = None]
        /\ sessions' = [sessions EXCEPT ![u] = "none"]
        /\ tokens' = [tokens EXCEPT ![u] = "none"]
        /\ oauth' = oauth \ {u}
        /\ Then(p, <<>>)
  /\ UNCHANGED <<member, page, lanes, requests, created>>

\* Refuses the last administrator; what it counted may be old when it writes.
LastAdmin(u) == IsAdmin(u) /\ Cardinality(CountAdmins) <= 1

DeactivateGuard(p) ==
  /\ Doing(p, "guard")
  /\ LET u == Now(p).user
     IN IF users[u] = None \/ LastAdmin(u) THEN Abort(p)
        ELSE Then(p, <<On("deactivate", u), [do |-> "hide", user |-> u, who |-> users[u].who]>>)
  /\ UNCHANGED <<tables, page, lanes, requests>>

DeactivateUser(p) ==
  /\ Doing(p, "deactivate")
  /\ LET u == Now(p).user
     IN /\ UpdateRow(u, [users[u] EXCEPT !.active = FALSE, !.deactivated = TRUE])
        /\ IF users[u] = None THEN Abort(p) ELSE Then(p, <<>>)
  /\ UNCHANGED <<member, credentials, page, lanes, requests, created>>

DeactivateTeamMember(p) ==
  /\ Doing(p, "hide")
  /\ member' = [member EXCEPT ![Now(p).who] = IF @ = "none" THEN @ ELSE "inactive"]
  /\ Then(p, <<>>)
  /\ UNCHANGED <<users, credentials, page, lanes, requests, created>>

ReactivateUser(p) ==
  /\ Doing(p, "reactivate")
  /\ LET u == Now(p).user
     IN /\ UpdateRow(u, [users[u] EXCEPT !.active = TRUE, !.deactivated = FALSE])
        /\ IF users[u] = None THEN Abort(p) ELSE Then(p, <<>>)
  /\ UNCHANGED <<member, credentials, page, lanes, requests, created>>

ActivateTeamMember(p) ==
  /\ Doing(p, "show")
  /\ member' = [w \in People |->
       IF \E u \in {Now(p).user} \cap Rows : users[u].who = w /\ member[w] # "none"
       THEN "active" ELSE member[w]]
  /\ Then(p, <<>>)
  /\ UNCHANGED <<users, credentials, page, lanes, requests, created>>

guardAdminDemotion(p) ==
  /\ Doing(p, "adminGuard")
  /\ LET u == Now(p).user
     IN IF users[u] = None \/ (~Now(p).admin /\ LastAdmin(u)) THEN Abort(p)
        ELSE Then(p, <<[do |-> "update", user |-> u, admin |-> Now(p).admin,
                        active |-> users[u].active]>>)
  /\ UNCHANGED <<tables, page, lanes, requests>>

\* Writes is_active back as the guard read it.
UpdateUser(p) ==
  /\ Doing(p, "update")
  /\ UpdateRow(Now(p).user, [users[Now(p).user] EXCEPT !.admin = Now(p).admin,
                                                       !.active = Now(p).active])
  /\ Then(p, <<>>)
  /\ UNCHANGED <<member, credentials, page, lanes, requests, created>>

\* The address must be new: a hidden member keeps his row.
handleTeamPost(p) ==
  /\ RequireAdmin(p) /\ Serve(p, "team", <<>>)
  /\ \E w \in People : member[w] = "none" /\ member' = [member EXCEPT ![w] = "active"]
  /\ UNCHANGED <<users, credentials, page, lanes, created>>

handleTeamMemberDelete(p) ==
  /\ RequireAdmin(p) /\ Serve(p, "team", <<>>)
  /\ \E w \in People : member[w] = "active" /\ member' = [member EXCEPT ![w] = "none"]
  /\ UNCHANGED <<users, credentials, page, lanes, created>>

-----------------------------------------------------------------------------
(* API tokens, by a session or by a token. *)
handleGenerateAPIToken(p) ==
  /\ Serve(p, "tokens", <<>>)
  /\ \E u \in authenticateOptional(p), life \in {"forever", "live"} :
       tokens[u] = "none" /\ tokens' = [tokens EXCEPT ![u] = life]
  /\ UNCHANGED <<users, member, sessions, oauth, page, lanes, created>>

handleRevokeAPIToken(p) ==
  /\ Serve(p, "tokens", <<>>)
  /\ \E u \in authenticateOptional(p) :
       tokens[u] # "none" /\ tokens' = [tokens EXCEPT ![u] = "none"]
  /\ UNCHANGED <<users, member, sessions, oauth, page, lanes, created>>

handleCleanupExpiredTokens(p) ==
  /\ Serve(p, "tokens", <<>>)
  /\ \E u \in authenticateOptional(p) : IsAdmin(u)
  /\ tokens' = [u \in UserIds |-> IF tokens[u] = "expired" THEN "none" ELSE tokens[u]]
  /\ UNCHANGED <<users, member, sessions, oauth, page, lanes, created>>

\* Time passes for a session or a token.
Expire ==
  /\ \E u \in UserIds :
       \/ /\ sessions[u] = "live" /\ sessions' = [sessions EXCEPT ![u] = "expired"]
          /\ UNCHANGED tokens
       \/ /\ tokens[u] = "live" /\ tokens' = [tokens EXCEPT ![u] = "expired"]
          /\ UNCHANGED sessions
  /\ UNCHANGED <<users, member, oauth, page, work, lanes, requests, created>>

\* The ticker of the session manager.
Expired(s) == s = "expired"

DeleteExpiredSessions ==
  /\ sessions' = [u \in UserIds |-> IF Expired(sessions[u]) THEN "none" ELSE sessions[u]]
  /\ UNCHANGED <<users, member, tokens, oauth, page, work, lanes, requests, created>>

\* The server stops and starts again: the tables stay.
Restart ==
  /\ \E p \in People : work[p] # <<>>
  /\ work' = [p \in People |-> <<>>]
  /\ UNCHANGED <<tables, page, lanes, requests>>

-----------------------------------------------------------------------------
\* A fresh database, or one in which somebody has signed in first.
Init ==
  /\ \E founder \in People \cup {None} :
       LET founded == founder # None
       IN /\ users = [u \in UserIds |-> IF founded /\ u = 1
                        THEN [who |-> founder, via |-> CHOOSE pr \in Providers : TRUE,
                              admin |-> TRUE, active |-> TRUE, deactivated |-> FALSE]
                        ELSE None]
          /\ member = [p \in People |-> IF p = founder THEN "active" ELSE "none"]
          /\ sessions = [u \in UserIds |-> IF founded /\ u = 1 THEN "live" ELSE "none"]
          /\ oauth = IF founded THEN {1} ELSE {}
  /\ tokens = [u \in UserIds |-> "none"]
  /\ page = [p \in People |-> {}]
  /\ work = [p \in People |-> <<>>]
  /\ lanes \in 1..MaxLanes
  /\ requests = 0
  /\ created = IF users[1] = None THEN 0 ELSE 1

SignIn(p) ==
  \/ HandleCallback(p) \/ GetOrCreateUser(p) \/ CreateUserAsFirstAdmin(p) \/ EnsureTeamMember(p)
  \/ StoreOAuthToken(p) \/ CreateSession(p) \/ HandleLogout(p)

Administration(p) ==
  \/ handleTeam(p) \/ handleUserApprove(p) \/ handleUserDeny(p) \/ handleUserReactivate(p)
  \/ handleUserDeactivate(p) \/ handleUserAdminUpdate(p) \/ ApproveUser(p) \/ denyPendingUser(p)
  \/ DeactivateGuard(p) \/ DeactivateUser(p) \/ DeactivateTeamMember(p) \/ ReactivateUser(p)
  \/ ActivateTeamMember(p) \/ guardAdminDemotion(p) \/ UpdateUser(p)
  \/ handleTeamPost(p) \/ handleTeamMemberDelete(p)

ApiTokens(p) ==
  handleGenerateAPIToken(p) \/ handleRevokeAPIToken(p) \/ handleCleanupExpiredTokens(p)

Next ==
  \/ \E p \in People : SignIn(p) \/ Administration(p) \/ ApiTokens(p)
  \/ Expire \/ DeleteExpiredSessions \/ Restart

Spec == Init /\ [][Next]_vars

-----------------------------------------------------------------------------
TypeOK ==
  /\ users \in [UserIds -> User \cup {None}] /\ created \in 0..MaxUsers
  /\ member \in [People -> {"none", "active", "inactive"}]
  /\ sessions \in [UserIds -> {"none", "live", "expired"}]
  /\ tokens \in [UserIds -> {"none", "forever", "live", "expired"}]
  /\ oauth \subseteq UserIds /\ page \in [People -> SUBSET (Buttons \X UserIds)]
  /\ \A p \in People : \A i \in DOMAIN work[p] : work[p][i].do \in Steps
  /\ lanes \in 1..MaxLanes /\ requests \in 0..MaxRequests

SomeAdmin == \E u \in Rows : users[u].admin /\ users[u].active

\* user_admin_handlers.go:129-145 and guardAdminDemotion: while an instance serves
\* one request at a time it never loses its last active administrator, whatever
\* pages its administrators act on.
AdminRemains == [][(lanes = 1 /\ SomeAdmin) => SomeAdmin']_vars

\* user_service.go:28-40: a pending account gets no session.  With one request at a
\* time, whoever holds one has been let in by an administrator (or was the first).
SessionsAreAdmitted ==
  lanes = 1 => \A u \in Rows : sessions[u] # "none" => ~Pending(u)

\* user_admin_handlers.go:72 denyPendingUser: nothing of a denied account is left or
\* comes back, even when its own sign-in is still running.
NothingLeftOfTheDenied ==
  \A u \in UserIds \ Rows : sessions[u] = "none" /\ tokens[u] = "none" /\ u \notin oauth

=============================================================================
