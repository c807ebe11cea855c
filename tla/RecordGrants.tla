---------------------------- MODULE RecordGrants ----------------------------
(***************************************************************************)
(* Sharing one record (modules/people, RecordGrantStore, and the handler in  *)
(* modules/relationships): the grantor's own access is resolved in one         *)
(* transaction, the grant is upserted in a later one.                        *)
(***************************************************************************)
EXTENDS Naturals, FiniteSets

CONSTANTS
  Subjects,       \* users, who own, grant and are granted
  GrantRequests,  \* POSTs to /record-grants
  Nobody          \* owner_id NULL

ASSUME GrantAssumption == Nobody \notin Subjects

VARIABLES
  owner,     \* owner_id of the record
  grant,     \* access of each subject's row of record_grant
  granting   \* open requests

grantVars == <<owner, grant, granting>>

Accesses == {"none", "read", "write"}

\* lowered: the grantor's access was reduced since it was resolved.
GrantTypeOK ==
  /\ owner \in Subjects \cup {Nobody}
  /\ grant \in [Subjects -> Accesses]
  /\ granting \in [GrantRequests -> [pc : {"new", "resolved", "done"}, by : Subjects \cup {Nobody},
                                     access : Accesses, lowered : BOOLEAN]]

GrantInit ==
  /\ owner = Nobody
  /\ grant = [u \in Subjects |-> "none"]
  /\ granting = [q \in GrantRequests |-> [pc |-> "new", by |-> Nobody, access |-> "none",
                                          lowered |-> FALSE]]

accessRank == [none |-> 0, read |-> 1, write |-> 2]

\* resolveGrantorOwnAccess: the owner writes; another has what was granted, or reads.
HeldWith(o, g) ==
  [u \in Subjects |-> IF o = u THEN "write" ELSE IF g[u] # "none" THEN g[u] ELSE "read"]

OwnAccess(u) == HeldWith(owner, grant)[u]

\* Whose access is less than the request resolved.
Lower(held) ==
  [q \in GrantRequests |->
     IF /\ granting[q].pc = "resolved"
        /\ accessRank[held[granting[q].by]] < accessRank[granting[q].access]
     THEN [granting[q] EXCEPT !.lowered = TRUE] ELSE granting[q]]

\* A record without an owner fails: owner_id is scanned into a string.
ResolveAccess(q, u) ==
  /\ granting[q].pc = "new"
  /\ owner # Nobody
  /\ granting' = [granting EXCEPT ![q] = [pc |-> "resolved", by |-> u, access |-> OwnAccess(u),
                                          lowered |-> FALSE]]
  /\ UNCHANGED <<owner, grant>>

\* Mutant: the ranks are not compared.
CreateGrant_Unranked(q, u, access) ==
  /\ granting[q].pc = "resolved"
  /\ grant' = [grant EXCEPT ![u] = access]
  /\ granting' = [Lower(HeldWith(owner, grant')) EXCEPT ![q].pc = "done"]
  /\ UNCHANGED owner

\* RecordGrantStore.Create: the rank test and the upsert, which may lower a grant.
CreateGrant(q, u, access) ==
  /\ granting[q].pc = "resolved"
  /\ accessRank[access] <= accessRank[granting[q].access]
  /\ grant' = [grant EXCEPT ![u] = access]
  /\ granting' = [Lower(HeldWith(owner, grant')) EXCEPT ![q].pc = "done"]
  /\ UNCHANGED owner

\* ErrGrantExceedsGrantorAccess.
RefuseGrant(q) ==
  /\ granting[q].pc = "resolved"
  /\ granting' = [granting EXCEPT ![q].pc = "done"]
  /\ UNCHANGED <<owner, grant>>

\* RecordGrantStore.Revoke, which asks nothing of its caller.
RevokeGrant(u) ==
  /\ grant[u] # "none"
  /\ grant' = [grant EXCEPT ![u] = "none"]
  /\ granting' = Lower(HeldWith(owner, grant'))
  /\ UNCHANGED owner

\* PATCH of the record: COALESCE leaves an owner in place, the user's deletion clears it.
ChangeOwner(u) ==
  /\ owner # u
  /\ owner' = u
  /\ granting' = Lower(HeldWith(owner', grant))
  /\ UNCHANGED grant

GrantNext ==
  \/ \E q \in GrantRequests, u \in Subjects :
       ResolveAccess(q, u) \/ \E access \in {"read", "write"} : CreateGrant(q, u, access)
  \/ \E q \in GrantRequests : RefuseGrant(q)
  \/ \E u \in Subjects : RevokeGrant(u)
  \/ \E u \in Subjects \cup {Nobody} : ChangeOwner(u)

GrantSpec == GrantInit /\ [][GrantNext]_grantVars

-----------------------------------------------------------------------------
\* "A grant can never exceed the granting principal's own access" (ErrGrantExceedsGrantorAccess):
\* at the moment it is written it exceeds it only if that access was reduced since it was read.
ExcessNeedsOverlap ==
  [][\A q \in GrantRequests, u \in Subjects :
       granting[q].pc = "resolved" /\ granting'[q].pc = "done" /\ grant'[u] # grant[u] =>
         \/ granting[q].lowered
         \/ accessRank[grant'[u]] <= accessRank[OwnAccess(granting[q].by)]]_grantVars
=============================================================================
