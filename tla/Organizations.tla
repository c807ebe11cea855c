--------------------------- MODULE Organizations ---------------------------
(***************************************************************************)
(* Organizations (modules/organizations) with their domains, parents and     *)
(* 1:1 partner rows (modules/partners): create, patch of the parent, archive, *)
(* restore, merge and the partner upsert, under READ COMMITTED.  What a       *)
(* merge read, and what the trigger against cycles read, may have changed      *)
(* when the transaction commits.                                              *)
(***************************************************************************)
EXTENDS Naturals, FiniteSets

CONSTANTS
  Orgs,         \* organization ids
  Domains,      \* domain names, each created with one organization
  Links,        \* deals, relationships: rows with an organization_id
  OrgRequests,  \* calls of Update, Archive, Restore, Merge and Upsert
  NoOrg         \* parent_org_id NULL, merged_into_id NULL, no row

ASSUME OrgAssumption == NoOrg \notin Orgs /\ IsFiniteSet(Orgs)

VARIABLES
  org,        \* the organization table
  domain,     \* organization_domain: owner and is_primary of each domain
  link,       \* organization_id of each link
  partner,    \* partner row by organization_id, which is UNIQUE
  orgReq,     \* the requests
  orgsOverlap,   \* history: a transaction began while another was open
  parentsCross   \* history: two changes of a parent were open at once

orgVars == <<org, domain, link, partner, orgReq, orgsOverlap, parentsCross>>

OrgPcs == {"new", "parented", "seen", "validated", "relinked", "done"}

OrgTypeOK ==
  /\ org \in [Orgs -> [state : {"absent", "live", "archived"}, into : Orgs \cup {NoOrg},
                       parent : Orgs \cup {NoOrg}, version : Nat]]
  /\ domain  \in [Domains -> [owner : Orgs \cup {NoOrg}, primary : BOOLEAN]]
  /\ link    \in [Links -> Orgs \cup {NoOrg}]
  /\ partner \in [Orgs -> {"none", "live", "archived"}]
  /\ orgReq  \in [OrgRequests ->
                    [pc : OrgPcs, o : Orgs \cup {NoOrg}, t : Orgs \cup {NoOrg}, version : Nat,
                     domains : SUBSET Domains, links : SUBSET Links, demoted : BOOLEAN,
                     partner : {"none", "collapsed", "moved"}]]
  /\ orgsOverlap \in BOOLEAN /\ parentsCross \in BOOLEAN

NoRequest == [pc |-> "new", o |-> NoOrg, t |-> NoOrg, version |-> 0, domains |-> {},
              links |-> {}, demoted |-> FALSE, partner |-> "none"]

OrgInit ==
  /\ org     = [o \in Orgs |-> [state |-> "absent", into |-> NoOrg, parent |-> NoOrg,
                                version |-> 1]]
  /\ domain  = [d \in Domains |-> [owner |-> NoOrg, primary |-> FALSE]]
  /\ link    = [l \in Links |-> NoOrg]
  /\ partner = [o \in Orgs |-> "none"]
  /\ orgReq  = [r \in OrgRequests |-> NoRequest]
  /\ orgsOverlap = FALSE /\ parentsCross = FALSE

OpenOrg == {r \in OrgRequests : orgReq[r].pc \notin {"new", "done"}}

OrgStarts(r) == orgReq[r].pc = "new" /\ orgsOverlap' = (orgsOverlap \/ OpenOrg # {})

\* What an open transaction has updated is locked to its end.
LockedOrgs    == {orgReq[r].o : r \in {q \in OpenOrg : orgReq[q].pc = "parented"}}
LockedDomains == UNION {orgReq[r].domains : r \in OrgRequests}
LockedLinks   == UNION {orgReq[r].links : r \in OrgRequests}

\* Partner rows a merge has changed, and the organization_id it has given one.
LockedPartners ==
  {orgReq[r].o : r \in {q \in OrgRequests : orgReq[q].partner # "none"}} \cup
  {orgReq[r].t : r \in {q \in OrgRequests : orgReq[q].partner = "moved"}}

-----------------------------------------------------------------------------
\* The ancestors the loop of org_no_cycle reaches from p.
AncestorsFrom(p) ==
  LET up[n \in 0..Cardinality(Orgs)] ==
        IF n = 0 THEN {p}
        ELSE up[n-1] \cup {org[a].parent : a \in up[n-1] \ {NoOrg}}
  IN  up[Cardinality(Orgs)]

\* trg_org_no_cycle, before every UPDATE: o among p's ancestors is an error; a cycle that
\* o is not on has no end.
NoCycleThrough(o, p) == o \notin AncestorsFrom(p) /\ NoOrg \in AncestorsFrom(p)

\* An UPDATE of row o: its lock is free, and the triggers pass.
CanUpdate(o) == o \notin LockedOrgs /\ NoCycleThrough(o, org[o].parent)

\* trg_org_touch.
OrgTouch(row) == [row EXCEPT !.version = @ + 1]

-----------------------------------------------------------------------------
\* normalizeCreateDomains: one primary, the first when the body flags none.  A
\* domain that exists, on a live organization or not, is refused.
CreateOrg(o, ds) ==
  /\ org[o].state = "absent"
  /\ \A d \in ds : domain[d].owner = NoOrg
  /\ org' = [org EXCEPT ![o].state = "live"]
  /\ \E first \in IF ds = {} THEN {NoOrg} ELSE ds :
       domain' = [d \in Domains |-> IF d \in ds THEN [owner |-> o, primary |-> d = first]
                                                ELSE domain[d]]
  /\ orgsOverlap' = (orgsOverlap \/ OpenOrg # {})
  /\ UNCHANGED <<link, partner, orgReq, parentsCross>>

\* A deal or a relationship is given an organization, which may be archived.
LinkOrg(l, o) ==
  /\ link[l] = NoOrg /\ org[o].state # "absent"
  /\ link' = [link EXCEPT ![l] = o]
  /\ orgsOverlap' = (orgsOverlap \/ OpenOrg # {})
  /\ UNCHANGED <<org, domain, partner, orgReq, parentsCross>>

\* OrgStore.Update with parent_org_id: the row is locked, then the trigger walks up over
\* what is committed; the new parent is visible at the commit.
SetParent(r, o, p, ifMatch) ==
  /\ OrgStarts(r)
  /\ org[o].state = "live" /\ org[p].state # "absent"
  /\ ifMatch = 0 \/ org[o].version = ifMatch
  /\ o \notin LockedOrgs /\ NoCycleThrough(o, p)
  /\ orgReq' = [orgReq EXCEPT ![r] = [NoRequest EXCEPT !.pc = "parented", !.o = o, !.t = p]]
  /\ parentsCross' = (parentsCross \/ LockedOrgs # {})
  /\ UNCHANGED <<org, domain, link, partner>>

CommitParent(r) ==
  LET o == orgReq[r].o
  IN /\ orgReq[r].pc = "parented"
     /\ org' = [org EXCEPT ![o] = [OrgTouch(@) EXCEPT !.parent = orgReq[r].t]]
     /\ orgReq' = [orgReq EXCEPT ![r].pc = "done"]
     /\ UNCHANGED <<domain, link, partner, orgsOverlap, parentsCross>>

\* OrgStore.Archive: the domains and the partner row stay as they are.
ArchiveOrg(r, o) ==
  /\ OrgStarts(r)
  /\ org[o].state = "live" /\ CanUpdate(o)
  /\ org' = [org EXCEPT ![o] = [OrgTouch(@) EXCEPT !.state = "archived"]]
  /\ orgReq' = [orgReq EXCEPT ![r].pc = "done"]
  /\ UNCHANGED <<domain, link, partner, parentsCross>>

\* OrgStore.Restore: archived and not merged away when it is read.  No domain has two
\* rows (uq_org_domain), so its search for a duplicate finds none.
ReadRestoreOrg(r, o) ==
  /\ OrgStarts(r)
  /\ org[o].state = "archived" /\ org[o].into = NoOrg
  /\ orgReq' = [orgReq EXCEPT ![r] = [NoRequest EXCEPT !.pc = "seen", !.o = o]]
  /\ UNCHANGED <<org, domain, link, partner, parentsCross>>

RestoreOrg(r) ==
  LET o == orgReq[r].o
  IN /\ orgReq[r].pc = "seen" /\ CanUpdate(o)
     /\ org' = [org EXCEPT ![o] =
                  IF @.state = "archived" THEN [OrgTouch(@) EXCEPT !.state = "live"] ELSE @]
     /\ orgReq' = [orgReq EXCEPT ![r].pc = "done"]
     /\ UNCHANGED <<domain, link, partner, orgsOverlap, parentsCross>>

-----------------------------------------------------------------------------
\* The ErrSelfMerge test and validateOrgMergePair, which reads without a lock.
ValidOrgPair(o, t) ==
  /\ o # t
  /\ org[o].state # "absent" /\ org[o].into = NoOrg
  /\ org[t].state = "live"   /\ org[t].into = NoOrg

ValidateOrgMerge(r, o, t) ==
  /\ OrgStarts(r) /\ ValidOrgPair(o, t)
  /\ orgReq' = [orgReq EXCEPT ![r] = [NoRequest EXCEPT !.pc = "validated", !.o = o, !.t = t,
                                                       !.version = org[o].version]]
  /\ UNCHANGED <<org, domain, link, partner, parentsCross>>

DomainsOf(o) == {d \in Domains : domain[d].owner = o}
LinksOf(o)   == {l \in Links : link[l] = o}

HasPrimaryDomain(t) == \E d \in DomainsOf(t) : domain[d].primary

\* The two UPDATEs of partner: o's row is archived when t has a live one, and becomes t's
\* otherwise.  An archived row of t's breaks UNIQUE (organization_id), and the merge.
PartnerChange(o, t) ==
  IF partner[o] # "live" THEN "none" ELSE IF partner[t] = "live" THEN "collapsed" ELSE "moved"

\* relinkOrgFKs, when the rows it updates are free.
RelinkOrg(r) ==
  LET o == orgReq[r].o
      t == orgReq[r].t
      change == PartnerChange(o, t)
  IN /\ orgReq[r].pc = "validated"
     /\ DomainsOf(o) \cap LockedDomains = {} /\ LinksOf(o) \cap LockedLinks = {}
     /\ change # "none" => o \notin LockedPartners
     /\ change = "moved" => t \notin LockedPartners /\ partner[t] = "none"
     /\ orgReq' = [orgReq EXCEPT ![r] = [@ EXCEPT !.pc = "relinked", !.domains = DomainsOf(o),
                     !.links = LinksOf(o), !.demoted = HasPrimaryDomain(t), !.partner = change]]
     /\ UNCHANGED <<org, domain, link, partner, orgsOverlap, parentsCross>>

\* The WHERE clause of Merge's UPDATE.
OrgStillMergeable(o, v) ==
  org[o].version = v /\ org[o].into = NoOrg /\ org[o].state = "live"

\* Mutant: the loser keeps its primary domain when the target has one.
MovedDomain_NotPrimary(r, d) ==
  IF d \in orgReq[r].domains /\ ~(domain[d].primary /\ orgReq[r].demoted)
  THEN [owner |-> orgReq[r].t, primary |-> domain[d].primary]
  ELSE domain[d]

\* What becomes of a domain: a second primary breaks uq_org_domain_primary.
MovedDomain(r, d) ==
  IF d \in orgReq[r].domains
  THEN [owner |-> orgReq[r].t, primary |-> domain[d].primary /\ ~orgReq[r].demoted]
  ELSE domain[d]

CommitOrgMerge(r) ==
  LET o == orgReq[r].o
      t == orgReq[r].t
  IN /\ orgReq[r].pc = "relinked"
     /\ OrgStillMergeable(o, orgReq[r].version) /\ CanUpdate(o)
     /\ org' = [org EXCEPT ![o] = [OrgTouch(@) EXCEPT !.state = "archived", !.into = t]]
     /\ domain' = [d \in Domains |-> MovedDomain(r, d)]
     /\ \A d, e \in Domains : /\ domain'[d].primary /\ domain'[e].primary
                              /\ domain'[d].owner = domain'[e].owner => d = e
     /\ link' = [l \in Links |-> IF l \in orgReq[r].links THEN t ELSE link[l]]
     /\ partner' = CASE orgReq[r].partner = "none"      -> partner
                     [] orgReq[r].partner = "collapsed" -> [partner EXCEPT ![o] = "archived"]
                     [] orgReq[r].partner = "moved"     -> [partner EXCEPT ![o] = "none",
                                                                           ![t] = "live"]
     /\ orgReq' = [orgReq EXCEPT ![r] = [NoRequest EXCEPT !.pc = "done"]]
     /\ UNCHANGED <<orgsOverlap, parentsCross>>

\* An error of any statement, or the connection: nothing the transaction wrote stays.
AbortOrg(r) ==
  /\ r \in OpenOrg
  /\ orgReq' = [orgReq EXCEPT ![r] = [NoRequest EXCEPT !.pc = "done"]]
  /\ UNCHANGED <<org, domain, link, partner, orgsOverlap, parentsCross>>

-----------------------------------------------------------------------------
\* PartnerStore.Upsert: ON CONFLICT (organization_id) updates the row, archived or not, and
\* leaves archived_at; the organization's row is classified, archived or not.
UpsertPartner(r, o) ==
  /\ OrgStarts(r)
  /\ org[o].state # "absent" /\ CanUpdate(o)
  /\ o \notin LockedPartners
  /\ partner' = [partner EXCEPT ![o] = IF @ = "none" THEN "live" ELSE @]
  /\ org' = [org EXCEPT ![o] = OrgTouch(@)]
  /\ orgReq' = [orgReq EXCEPT ![r].pc = "done"]
  /\ UNCHANGED <<domain, link, parentsCross>>

OrgNext ==
  \/ \E o \in Orgs, ds \in SUBSET Domains : CreateOrg(o, ds)
  \/ \E l \in Links, o \in Orgs : LinkOrg(l, o)
  \/ \E r \in OrgRequests :
       \/ \E o, t \in Orgs : \/ \E v \in 0..1 : SetParent(r, o, t, v)
                             \/ ValidateOrgMerge(r, o, t)
       \/ \E o \in Orgs : ArchiveOrg(r, o) \/ ReadRestoreOrg(r, o) \/ UpsertPartner(r, o)
       \/ CommitParent(r) \/ RestoreOrg(r) \/ RelinkOrg(r) \/ CommitOrgMerge(r) \/ AbortOrg(r)

OrgSpec == OrgInit /\ [][OrgNext]_orgVars

-----------------------------------------------------------------------------
(* Properties. *)

MergedAway(o) == org[o].into # NoOrg

\* store_merge_org.go, Merge: as long as no two transactions overlap, an organization merged
\* away is archived and has no domain left, and one with domains has one primary domain.
OrgDamageNeedsOverlap ==
  ~orgsOverlap =>
    /\ \A o \in Orgs : MergedAway(o) => org[o].state = "archived" /\ DomainsOf(o) = {}
    /\ \A o \in Orgs : DomainsOf(o) # {} =>
         Cardinality({d \in DomainsOf(o) : domain[d].primary}) = 1

\* org_no_cycle reads what is committed: the parents form a cycle, on which no row can be
\* updated any more, only after two changes of a parent that were open at once.
CyclesNeedCrossing ==
  ~parentsCross => \A o \in Orgs : NoOrg \in AncestorsFrom(o)

\* A merge hands over all that the loser has: what either organization owned when it commits,
\* domains, links and a live partner row, the target owns after it.  Only a row that was given
\* to the loser, or a partner row taken from the target, while the merge was open is missed.
MergeHandsOver ==
  [][~orgsOverlap => \A o, t \in Orgs :
       org[o].into # t /\ org'[o].into = t =>
         /\ \A l \in Links : link[l] \in {o, t} => link'[l] = t
         /\ \A d \in Domains : domain[d].owner \in {o, t} => domain'[d].owner = t
         /\ "live" \in {partner[o], partner[t]} => partner'[t] = "live"]_orgVars
=============================================================================
