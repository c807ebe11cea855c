------------------------------ MODULE Identity ------------------------------
(***************************************************************************)
(* backend/internal/modules/identity and platform/auth: one workspace, its  *)
(* members and their roles, browser sessions, passports of agents, OAuth    *)
(* authorization codes and the secrets of an incumbent connection.          *)
(*                                                                         *)
(* A request that reads, and writes in a later transaction, is open between *)
(* the two: it is a row of call, and its second step does not read again.    *)
(***************************************************************************)
EXTENDS Naturals, FiniteSets

CONSTANTS
  Users,         \* app_user rows the workspace may have
  Sessions,      \* session rows, one for each login
  Passports,     \* passport rows
  Codes,         \* oauth_auth_code rows
  Secrets,       \* connector_secret rows
  Calls,         \* HTTP requests and store calls, each made once
  Scopes,        \* "action:object" permissions
  RoleScopes,    \* role key -> the scopes its permissions carry
  SessionTicks,  \* sessionDuration
  IdleTicks,     \* sessionIdleDuration
  MaxNow,        \* bound of the clock
  NoRow

Roles == DOMAIN RoleScopes

ASSUME IdentityAssumption ==
  /\ "admin" \in Roles
  /\ RoleScopes \in [Roles -> SUBSET Scopes]
  /\ SessionTicks \in Nat /\ IdleTicks \in Nat \ {0} /\ MaxNow \in Nat
  /\ IsFiniteSet(Users)
  /\ NoRow \notin Users \cup Sessions \cup Passports \cup Codes \cup Secrets

VARIABLES
  now,         \* the clock, in ticks
  member,      \* users with a row in app_user
  assigned,    \* role_assignment: user -> roles
  session,
  passport,
  code,
  connection,  \* status of the incumbent_connection row
  secret,      \* connector_secret rows
  call         \* open requests

accountVars    == <<session, passport, code>>
connectionVars == <<connection, secret>>
identityVars   == <<now, member, assigned, accountVars, connectionVars, call>>

Times     == 0..(MaxNow + SessionTicks)
RowStates == {"absent", "live", "revoked"}
CallKinds == {"new", "touch", "mint", "assign", "gated", "count", "revoke", "consume",
              "verify", "rotate", "done"}

SessionRows  == [state : RowStates, user : Users \cup {NoRow}, expires : Times, idle : Times]
PassportRows == [state : RowStates, by : Users \cup {NoRow}, scopes : SUBSET Scopes,
                 expires : Times]
\* used: used_at is set.  grants is no column: how often Consume returned the grant.
CodeRows     == [state : {"absent", "issued"}, used : BOOLEAN, expires : Times,
                 grants : 0..2]
SecretRows   == [state : {"absent", "stored"}, rotated : Times]

\* who: the user a request is about.  row: the session or code.  role, scopes: what is
\* assigned, revoked or minted.  count, holds: what the last-admin guard read.  at: when
\* the request's transaction, or its lookup, began.  stale is no variable of the code:
\* an assignment of the role admin has come or gone since the guard counted.
CallRows == [kind : CallKinds, who : Users \cup {NoRow},
             row : Sessions \cup Passports \cup Codes \cup Secrets \cup {NoRow},
             role : Roles, scopes : SUBSET Scopes, count : 0..Cardinality(Users),
             at : 0..MaxNow, stale : BOOLEAN]

NewCall == [kind |-> "new", who |-> NoRow, row |-> NoRow, role |-> "admin", scopes |-> {},
            count |-> 0, at |-> 0, stale |-> FALSE]

IdentityTypeOK ==
  /\ now        \in 0..MaxNow
  /\ member     \in SUBSET Users
  /\ assigned   \in [Users -> SUBSET Roles]
  /\ session    \in [Sessions -> SessionRows]
  /\ passport   \in [Passports -> PassportRows]
  /\ code       \in [Codes -> CodeRows]
  /\ connection \in {"absent", "active", "revoked"}
  /\ secret     \in [Secrets -> SecretRows]
  /\ call       \in [Calls -> CallRows]

IdentityInit ==
  /\ now        = 0
  /\ member     = {}
  /\ assigned   = [u \in Users |-> {}]
  /\ session    = [s \in Sessions |->
                     [state |-> "absent", user |-> NoRow, expires |-> 0, idle |-> 0]]
  /\ passport   = [p \in Passports |->
                     [state |-> "absent", by |-> NoRow, scopes |-> {}, expires |-> 0]]
  /\ code       = [k \in Codes |->
                     [state |-> "absent", used |-> FALSE, expires |-> 0, grants |-> 0]]
  /\ connection = "absent"
  /\ secret     = [x \in Secrets |-> [state |-> "absent", rotated |-> 0]]
  /\ call       = [r \in Calls |-> NewCall]

-----------------------------------------------------------------------------
\* The requests.
OpenCall(r, q) == call[r].kind = "new" /\ call' = [call EXCEPT ![r] = q]
CloseCall(r)   == call' = [call EXCEPT ![r].kind = "done"]

Admins == {u \in Users : "admin" \in assigned[u]}

\* loadHumanScopes, LoadRolePermissions: the union over the roles assigned.
HumanScopes(u) == UNION {RoleScopes[k] : k \in assigned[u]}

\* RequireManageMembers: only the admin role carries workspace/manage_members.
ManagesMembers(u) == u \in member /\ "admin" \in assigned[u]

\* What every open count of administrators now is.
OutdateCounts(cs) ==
  [r \in Calls |-> IF cs[r].kind \in {"count", "revoke"} THEN [cs[r] EXCEPT !.stale = TRUE]
                                                         ELSE cs[r]]

-----------------------------------------------------------------------------
\* POST /workspaces: workspace, purposes, user, role and assignment in one transaction.
HandleCreateWorkspace(u) ==
  /\ member = {}
  /\ member'   = {u}
  /\ assigned' = [assigned EXCEPT ![u] = {"admin"}]
  /\ UNCHANGED <<now, accountVars, connectionVars, call>>

\* Rows of app_user that the bootstrap does not make come from the seed or the directory.
ExternalMember(u) ==
  /\ member # {} /\ u \notin member
  /\ member' = member \cup {u}
  /\ UNCHANGED <<now, assigned, accountVars, connectionVars, call>>

ClockTick ==
  /\ now < MaxNow
  /\ now' = now + 1
  /\ UNCHANGED <<member, assigned, accountVars, connectionVars, call>>

-----------------------------------------------------------------------------
\* Sessions.
Alive(s)        == session[s].state = "live" /\ session[s].expires > now
ValidSession(s) == Alive(s) /\ session[s].idle > now

HandleLogin(s, u) ==
  /\ u \in member
  /\ session[s].state = "absent"
  /\ session' = [session EXCEPT ![s] = [state |-> "live", user |-> u,
                   expires |-> now + SessionTicks, idle |-> now + IdleTicks]]
  /\ UNCHANGED <<now, member, assigned, passport, code, connectionVars, call>>

\* SessionVerifier.LookupSession: the lookup, and Touch in a transaction of its own,
\* which asks for nothing but the id.
LookupSession(r, s) ==
  /\ ValidSession(s)
  /\ OpenCall(r, [NewCall EXCEPT !.kind = "touch", !.row = s, !.at = now])
  /\ UNCHANGED <<now, member, assigned, accountVars, connectionVars>>

\* Mutant: the absolute end moves with the idle one.
TouchSession_Extends(r) ==
  /\ call[r].kind = "touch"
  /\ session' = [session EXCEPT ![call[r].row].idle = now + IdleTicks,
                                ![call[r].row].expires = now + SessionTicks]
  /\ CloseCall(r)
  /\ UNCHANGED <<now, member, assigned, passport, code, connectionVars>>

TouchSession(r) ==
  /\ call[r].kind = "touch"
  /\ session' = [session EXCEPT ![call[r].row].idle = now + IdleTicks]
  /\ CloseCall(r)
  /\ UNCHANGED <<now, member, assigned, passport, code, connectionVars>>

\* Touch ignores its error: a lost update is a lookup without one.
TouchFails(r) ==
  /\ call[r].kind = "touch"
  /\ CloseCall(r)
  /\ UNCHANGED <<now, member, assigned, accountVars, connectionVars>>

HandleLogout(s) ==
  /\ ValidSession(s)
  /\ session' = [session EXCEPT ![s].state = "revoked"]
  /\ UNCHANGED <<now, member, assigned, passport, code, connectionVars, call>>

-----------------------------------------------------------------------------
\* Passports: the scopes are compared with the roles first, the row is inserted later.
HandleCreatePassport(r, u, want) ==
  /\ u \in member
  /\ want \subseteq HumanScopes(u)
  /\ OpenCall(r, [NewCall EXCEPT !.kind = "mint", !.who = u, !.scopes = want])
  /\ UNCHANGED <<now, member, assigned, accountVars, connectionVars>>

CreatePassport(r, p, ttl) ==
  /\ call[r].kind = "mint"
  /\ passport[p].state = "absent"
  /\ passport' = [passport EXCEPT ![p] = [state |-> "live", by |-> call[r].who,
                    scopes |-> call[r].scopes, expires |-> now + ttl]]
  /\ CloseCall(r)
  /\ UNCHANGED <<now, member, assigned, session, code, connectionVars>>

\* DELETE /passports/{id}: an expired passport is revoked all the same.
HandleRevokePassport(p) ==
  /\ passport[p].state = "live"
  /\ passport' = [passport EXCEPT ![p].state = "revoked"]
  /\ UNCHANGED <<now, member, assigned, session, code, connectionVars, call>>

-----------------------------------------------------------------------------
\* Members.  Assigning resolves role and user first and inserts in a transaction.
HandleAssignRole(r, by, u, k) ==
  /\ ManagesMembers(by)
  /\ u \in member
  /\ OpenCall(r, [NewCall EXCEPT !.kind = "assign", !.who = u, !.role = k])
  /\ UNCHANGED <<now, member, assigned, accountVars, connectionVars>>

AssignRole(r) ==
  LET u == call[r].who
      k == call[r].role
      closed == [call EXCEPT ![r].kind = "done"]
  IN /\ call[r].kind = "assign"
     /\ assigned' = [assigned EXCEPT ![u] = @ \cup {k}]
     /\ call' = IF k = "admin" /\ k \notin assigned[u] THEN OutdateCounts(closed) ELSE closed
     /\ UNCHANGED <<now, member, accountVars, connectionVars>>

\* DELETE /members/{user}/roles/{key}: for admin the assignments are counted, then the
\* user's own is looked up, then one is deleted, each in a transaction of its own.
HandleRevokeRole(r, by, u, k) ==
  /\ ManagesMembers(by)
  /\ OpenCall(r, [NewCall EXCEPT !.kind = IF k = "admin" THEN "gated" ELSE "revoke",
                           !.who = u, !.role = k])
  /\ UNCHANGED <<now, member, assigned, accountVars, connectionVars>>

CountAdmins(r) ==
  /\ call[r].kind = "gated"
  /\ call' = [call EXCEPT ![r].kind = "count", ![r].count = Cardinality(Admins)]
  /\ UNCHANGED <<now, member, assigned, accountVars, connectionVars>>

\* Mutant: the guard refuses only when nobody is an administrator.
LastAdminGuard_None(r) ==
  /\ call[r].kind = "count"
  /\ call' = [call EXCEPT ![r].kind =
               IF call[r].who \in Admins /\ call[r].count < 1 THEN "done" ELSE "revoke"]
  /\ UNCHANGED <<now, member, assigned, accountVars, connectionVars>>

\* The user's own assignment is asked for after the count.
LastAdminGuard(r) ==
  /\ call[r].kind = "count"
  /\ call' = [call EXCEPT ![r].kind =
               IF call[r].who \in Admins /\ call[r].count <= 1 THEN "done" ELSE "revoke"]
  /\ UNCHANGED <<now, member, assigned, accountVars, connectionVars>>

RevokeRole(r) ==
  LET u == call[r].who
      k == call[r].role
      closed == [call EXCEPT ![r].kind = "done"]
  IN /\ call[r].kind = "revoke"
     /\ assigned' = [assigned EXCEPT ![u] = @ \ {k}]
     /\ call' = IF k = "admin" /\ k \in assigned[u] THEN OutdateCounts(closed) ELSE closed
     /\ UNCHANGED <<now, member, accountVars, connectionVars>>

-----------------------------------------------------------------------------
\* Authorization codes.
IssueCode(k, ttl) ==
  /\ member # {}
  /\ code[k].state = "absent"
  /\ code' = [code EXCEPT ![k].state = "issued", ![k].expires = now + ttl]
  /\ UNCHANGED <<now, member, assigned, session, passport, connectionVars, call>>

\* Consume is one transaction: now() is when it began, and its SELECT ... FOR UPDATE
\* waits for another Consume of the code and then looks at the row again.
ConsumeBegin(r, k) ==
  /\ OpenCall(r, [NewCall EXCEPT !.kind = "consume", !.row = k, !.at = now])
  /\ UNCHANGED <<now, member, assigned, accountVars, connectionVars>>

\* Mutant: SELECT without FOR UPDATE.
LockedCode_Never(k) == FALSE

LockedCode(k) == \E r \in Calls : call[r].kind = "verify" /\ call[r].row = k

ConsumeLock(r) ==
  LET k == call[r].row
      found == code[k].state = "issued" /\ code[k].expires > call[r].at /\ ~code[k].used
  IN /\ call[r].kind = "consume"
     /\ ~LockedCode(k)
     /\ call' = [call EXCEPT ![r].kind = IF found THEN "verify" ELSE "done"]
     /\ UNCHANGED <<now, member, assigned, accountVars, connectionVars>>

\* The verifier matches the challenge, and the transaction commits.
ConsumeCommit(r) ==
  LET k == call[r].row
  IN /\ call[r].kind = "verify"
     /\ code' = [code EXCEPT ![k].used = TRUE, ![k].grants = IF @ < 2 THEN @ + 1 ELSE @]
     /\ CloseCall(r)
     /\ UNCHANGED <<now, member, assigned, session, passport, connectionVars>>

\* It does not match, or the transaction rolls back.
ConsumeFails(r) ==
  /\ call[r].kind = "verify"
  /\ CloseCall(r)
  /\ UNCHANGED <<now, member, assigned, accountVars, connectionVars>>

-----------------------------------------------------------------------------
\* The incumbent connection and its secrets: uq_incumbent_connection_workspace_connector
\* leaves a revoked connection in the way of a new one.
Stored == {x \in Secrets : secret[x].state = "stored"}

CreateConnection ==
  /\ member # {} /\ connection = "absent"
  /\ connection' = "active"
  /\ UNCHANGED <<now, member, assigned, accountVars, secret, call>>

RevokeConnection ==
  /\ connection = "active"
  /\ connection' = "revoked"
  /\ UNCHANGED <<now, member, assigned, accountVars, secret, call>>

\* Rotate: requireActiveConnection takes no lock; Put inserts with rotated_at = now(),
\* the beginning of the caller's transaction.
RotateBegin(r) ==
  /\ connection = "active"
  /\ OpenCall(r, [NewCall EXCEPT !.kind = "rotate", !.at = now])
  /\ UNCHANGED <<now, member, assigned, accountVars, connectionVars>>

RotateCommit(r, x) ==
  /\ call[r].kind = "rotate"
  /\ secret[x].state = "absent"
  /\ secret' = [secret EXCEPT ![x] = [state |-> "stored", rotated |-> call[r].at]]
  /\ CloseCall(r)
  /\ UNCHANGED <<now, member, assigned, accountVars, connection>>

\* ConnectorSecretStore.Lookup of an active connection: any of the newest by rotated_at.
LookupSecret ==
  {x \in Stored : connection = "active" /\ \A y \in Stored : secret[y].rotated <= secret[x].rotated}

-----------------------------------------------------------------------------
Bootstrap == \E u \in Users : HandleCreateWorkspace(u) \/ ExternalMember(u)

SessionNext ==
  \/ ClockTick \/ Bootstrap
  \/ \E s \in Sessions, u \in Users : HandleLogin(s, u)
  \/ \E s \in Sessions : HandleLogout(s) \/ \E r \in Calls : LookupSession(r, s)
  \/ \E r \in Calls : TouchSession(r) \/ TouchFails(r)

MemberNext ==
  \/ Bootstrap
  \/ \E r \in Calls, by, u \in Users, k \in Roles :
       HandleAssignRole(r, by, u, k) \/ HandleRevokeRole(r, by, u, k)
  \/ \E r \in Calls : \/ AssignRole(r) \/ CountAdmins(r)
                        \/ LastAdminGuard(r) \/ RevokeRole(r)
  \/ \E r \in Calls, u \in Users, want \in SUBSET Scopes : HandleCreatePassport(r, u, want)
  \/ \E r \in Calls, p \in Passports, ttl \in 0..1 : CreatePassport(r, p, ttl)
  \/ \E p \in Passports : HandleRevokePassport(p)

CodeNext ==
  \/ ClockTick \/ Bootstrap
  \/ \E k \in Codes : \/ \E ttl \in 1..2 : IssueCode(k, ttl)
                     \/ \E r \in Calls : ConsumeBegin(r, k)
  \/ \E r \in Calls : ConsumeLock(r) \/ ConsumeCommit(r) \/ ConsumeFails(r)

ConnectionNext ==
  \/ ClockTick \/ Bootstrap \/ CreateConnection \/ RevokeConnection
  \/ \E r \in Calls : RotateBegin(r) \/ \E x \in Secrets : RotateCommit(r, x)

IdentityNext == SessionNext \/ MemberNext \/ CodeNext \/ ConnectionNext

IdentitySpec == IdentityInit /\ [][IdentityNext]_identityVars

-----------------------------------------------------------------------------
(* Properties. *)

\* A step accepts again a session that a lookup would refuse only by the late Touch of a
\* request that found it valid.
RevivalIsLate ==
  \A s \in Sessions :
    session[s].state # "absent" /\ ~ValidSession(s) /\ ValidSession(s)' =>
      /\ Alive(s)
      /\ \E r \in Calls : /\ call[r].kind = "touch" /\ call[r].row = s
                          /\ call[r].at < session[s].idle

\* session_store.go, Touch: a session that a lookup would refuse is accepted again only
\* because a request that looked it up before it idled out wrote its Touch late; one
\* that was revoked, or is past its absolute end, is never accepted again.
RevivedOnlyByOverlap == [][RevivalIsLate]_identityVars

\* oauth_auth_code_store.go, Consume: an authorization code yields its grant once,
\* whatever the number of Consumes, their order and their rollbacks.
CodeGrantsOnce == \A k \in Codes : code[k].grants <= 1 /\ (code[k].grants = 1 => code[k].used)

\* members_handler.go, HandleRevokeRole: the workspace loses its last administrator only
\* to a revocation whose count was no longer true when it deleted.
AdminlessNeedsOverlap ==
  [][Admins # {} /\ Admins' = {} =>
       \E r \in Calls : call[r].kind = "revoke" /\ call'[r].kind = "done"
                           /\ call[r].stale]_identityVars
=============================================================================
