---------------------------- MODULE MCDirectory ----------------------------
(***************************************************************************)
(* People, organizations, relationships, record grants and identity.  They     *)
(* share no rows (a merge of people meets a relationship in Relationships, by    *)
(* its own statements), so every behaviour exercises one of them: part says       *)
(* which.  Of identity, the sessions, the members with their passports, the        *)
(* authorization codes and the connector secrets are apart from each other too.     *)
(***************************************************************************)
EXTENDS PersonMerge, Organizations, Relationships, RecordGrants, Identity, TLC

VARIABLE part

DirectoryVars == <<part, vars, orgVars, edgeVars, grantVars, identityVars>>

DirectoryInit ==
  /\ part \in {"people", "organizations", "relationships", "grants",
               "sessions", "members", "codes", "connections"}
  /\ Init /\ OrgInit /\ EdgeInit /\ GrantInit /\ IdentityInit

IdentityStep ==
  \/ part = "sessions" /\ SessionNext
  \/ part = "members" /\ MemberNext
  \/ part = "codes" /\ CodeNext
  \/ part = "connections" /\ ConnectionNext

DirectoryNext ==
  /\ UNCHANGED part
  /\ \/ part = "people" /\ Next
        /\ UNCHANGED <<orgVars, edgeVars, grantVars, identityVars>>
     \/ part = "organizations" /\ OrgNext
        /\ UNCHANGED <<vars, edgeVars, grantVars, identityVars>>
     \/ part = "relationships" /\ EdgeNext
        /\ UNCHANGED <<vars, orgVars, grantVars, identityVars>>
     \/ part = "grants" /\ GrantNext
        /\ UNCHANGED <<vars, orgVars, edgeVars, identityVars>>
     \/ IdentityStep
        /\ UNCHANGED <<vars, orgVars, edgeVars, grantVars>>

DirectorySpec == DirectoryInit /\ [][DirectoryNext]_DirectoryVars

\* The permissions a role carries.
AdminAndRep == [admin |-> {"read"}, rep |-> {}]

\* The model values of the other components are the same (see the configuration).
Symmetry == Permutations(People) \cup Permutations(Requests) \cup Permutations(Domains)
=============================================================================
