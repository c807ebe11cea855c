------------------------------ MODULE Retention ------------------------------
(***************************************************************************)
(* The privacy side of backend/internal/modules/gdpr over the rows of Leads: *)
(* the nightly retention sweep (adapters/evaluator.go), erasure             *)
(* (adapters/erasure.go) with its suppression list, and consent             *)
(* (adapters/consent.go).                                                   *)
(*                                                                         *)
(* The sweep collects what is due in one transaction and acts on it in      *)
(* others, one per record.  Everyone else goes on writing in between.       *)
(***************************************************************************)
EXTENDS Leads

CONSTANTS
  Addresses,     \* e-mail addresses
  Ladders,       \* the actions the policies lead/unconverted and person/no_consent_no_deal have
  MaxFails,      \* bound: sweeps that fail for a passing reason
  MaxNews        \* bound: patches, files, holds, consents, links, rows growing old, failed sweeps

Actions == {"archive", "anonymize", "erase"}

ASSUME RetentionAssumption ==
  /\ Ladders \subseteq [lead : Actions, person : Actions] /\ MaxFails \in Nat /\ MaxNews \in Nat
  /\ LeadIds \cap People = {} /\ Patched \subseteq LeadStatuses

VARIABLES
  emails,     \* person_email rows
  granted,    \* people with a consent that is granted
  linked,     \* people with an activity that is linked to a deal
  ladder,     \* the action of each policy
  batch,      \* what the sweep has collected and not acted on yet
  changed,    \* what of it has changed since
  erasure,    \* the open call of Erase; only the sweep calls it
  erased,     \* people with an erasure tombstone in the audit log
  suppressed, \* erasure_suppression
  gone,       \* addresses that an erasure deleted
  slipped,    \* addresses that a merge moved while one of the two was being erased
  fails,      \* sweeps that failed for a passing reason
  news        \* patches, files, holds, consents, links, rows grown old and failed sweeps

vars == <<leadVars, emails, granted, linked, ladder, batch, changed, erasure, erased,
          suppressed, gone, slipped, fails, news>>

Records == LeadIds \cup People
Emails  == [address : Addresses, owner : People, live : BOOLEAN]

TypeOK ==
  /\ LeadsTypeOK
  /\ emails \subseteq Emails
  /\ granted \subseteq People /\ linked \subseteq People /\ erased \subseteq People
  /\ ladder \in Ladders
  /\ batch \subseteq Records /\ changed \subseteq batch
  /\ erasure \in [person : People \cup {None}, captured : SUBSET Addresses]
  /\ suppressed \subseteq Addresses /\ gone \subseteq Addresses /\ slipped \subseteq Addresses
  /\ fails \in 0..MaxFails /\ news \in 0..MaxNews

NoErasure == [person |-> None, captured |-> {}]

Init ==
  /\ LeadsInit
  /\ emails = {} /\ granted = {} /\ linked = {}
  /\ ladder \in Ladders
  /\ batch = {} /\ changed = {}
  /\ erasure = NoErasure
  /\ erased = {} /\ suppressed = {} /\ gone = {} /\ slipped = {} /\ fails = 0 /\ news = 0

AddressesOf(p) == {e.address : e \in {f \in emails : f.owner = p}}

\* What a write to the records S means for a sweep that is under way.
Changes(S) == changed' = changed \cup (S \cap batch)

News == news < MaxNews /\ news' = news + 1

-----------------------------------------------------------------------------
(* Leads and people. *)

privacy == <<emails, granted, linked, ladder, batch, erasure, erased, suppressed, gone, slipped, fails>>

LeadStep ==
  /\ \/ \E l \in LeadIds :
          /\ \/ (CreateLead(l) \/ ArchiveLead(l)) /\ UNCHANGED news
             \/ \E s \in Patched : UpdateLead(l, s) /\ News
          /\ Changes({l})
     \/ \E l \in LeadIds : AttachFile(l) /\ Changes({}) /\ News
     \/ \E r \in Promotions :
          /\ \/ \E l \in LeadIds : ReadLead(r, l) /\ Changes({})
             \/ \E p \in People : Promote(r, p) /\ Changes({promo[r].lead})
             \/ AbandonPromotion(r) /\ Changes({})
          /\ UNCHANGED news
  /\ UNCHANGED privacy

\* PersonStore.Create with one address; uq_person_email allows a live row of it once.
CreatePerson(p, a) ==
  /\ person[p].state = "absent"
  /\ \A e \in emails : e.address = a => ~e.live
  /\ person' = [person EXCEPT ![p] = [NoPerson EXCEPT !.state = "live", !.named = TRUE]]
  /\ emails' = emails \cup {[address |-> a, owner |-> p, live |-> TRUE]}
  /\ UNCHANGED <<lead, filed, promo, granted, linked, ladder, batch, changed, erasure, erased,
                 suppressed, gone, slipped, fails, news>>

\* PersonStore.Merge of p into q as one step (PersonMerge has its races): live addresses and
\* activity links move, consent stays.
Merge(p, q) ==
  LET moved == {e \in emails : e.owner = p /\ e.live} IN
  /\ p # q /\ person[p].state = "live" /\ person[q].state = "live"
  /\ person' = [person EXCEPT ![p] = [Touch(@) EXCEPT !.state = "archived", !.into = q]]
  /\ emails' = (emails \ moved) \cup {[e EXCEPT !.owner = q] : e \in moved}
  /\ linked' = IF p \in linked THEN (linked \ {p}) \cup {q} ELSE linked
  /\ slipped' = IF erasure.person \in {p, q}
                  THEN slipped \cup {e.address : e \in moved} ELSE slipped
  /\ Changes({p, q})
  /\ UNCHANGED <<lead, filed, promo, granted, ladder, batch, erasure, erased, suppressed, gone,
                 fails, news>>

\* Record: the state of the consent, the proof and the audit row, in one transaction.
RecordConsent(p, state) ==
  /\ person[p].state # "absent" /\ (p \in granted) # (state = "granted")
  /\ granted' = IF state = "granted" THEN granted \cup {p} ELSE granted \ {p}
  /\ Changes({p}) /\ News
  /\ UNCHANGED <<leadVars, emails, linked, ladder, batch, erasure, erased, suppressed, gone,
                 slipped, fails>>

-----------------------------------------------------------------------------
(* What other parts and the clock do to the rows. *)

\* An activity of the person is linked to a deal.
LinkToDeal(p) ==
  /\ person[p].state = "live" /\ p \notin linked
  /\ linked' = linked \cup {p} /\ Changes({p}) /\ News
  /\ UNCHANGED <<leadVars, emails, granted, ladder, batch, erasure, erased, suppressed, gone,
                 slipped, fails>>

\* legal_hold is set or cleared: an UPDATE of the row.
SetHold(x) ==
  /\ IF x \in LeadIds
       THEN /\ lead[x].state = "live" /\ UNCHANGED person
            /\ WriteLead(x, [lead[x] EXCEPT !.held = ~@])
       ELSE /\ person[x].state = "live" /\ UNCHANGED <<lead, promo>>
            /\ person' = [person EXCEPT ![x] = [Touch(@) EXCEPT !.held = ~person[x].held]]
  /\ Changes({x}) /\ News
  /\ UNCHANGED <<filed, privacy>>

\* The record has not been written for as long as its policy retains it.
Ages(x) ==
  /\ IF x \in LeadIds
       THEN /\ lead[x].state = "live" /\ ~lead[x].old
            /\ lead' = [lead EXCEPT ![x].old = TRUE] /\ UNCHANGED person
       ELSE /\ person[x].state = "live" /\ ~person[x].old
            /\ person' = [person EXCEPT ![x].old = TRUE] /\ UNCHANGED lead
  /\ News
  /\ UNCHANGED <<filed, promo, changed, privacy>>

-----------------------------------------------------------------------------
(* Erasure. *)

Idle == erasure.person = None

\* applyAction with erase and a person: Erase, first captureEmails.
Capture(p) ==
  /\ p \in batch /\ ladder.person = "erase" /\ Idle
  /\ erasure' = [person |-> p, captured |-> AddressesOf(p)]
  /\ UNCHANGED <<leadVars, emails, granted, linked, ladder, batch, changed, erased, suppressed,
                 gone, slipped, fails, news>>

\* Mutant: the addresses are read after they were deleted.
Suppressed_Late == {}

\* suppressEmails: what was captured, not what was deleted.
Suppressed == erasure.captured

\* The source lead of the erased person without its personal columns.
Erased(p) ==
  [l \in LeadIds |-> IF person[p].from = l
                       THEN [Touch(lead[l]) EXCEPT !.named = FALSE] ELSE lead[l]]

\* eraseNormalized, suppressEmails, writeErasureAudit and the commit.  The row itself stays.
CommitErasure ==
  LET p == erasure.person IN
  /\ ~Idle
  /\ person' = [person EXCEPT ![p] = [Touch(@) EXCEPT !.named = FALSE]]
  /\ lead'   = Erased(p)
  /\ promo'  = IF person[p].from = None THEN promo ELSE Outdated(person[p].from)
  /\ gone'   = gone \cup AddressesOf(p)
  /\ emails' = {e \in emails : e.owner # p}
  /\ suppressed' = suppressed \cup Suppressed
  /\ erased'  = erased \cup {p}
  /\ erasure' = NoErasure
  /\ batch'   = batch \ {p}
  /\ changed' = (changed \cup ({person[p].from} \cap batch)) \ {p}
  /\ UNCHANGED <<filed, granted, linked, ladder, slipped, fails, news>>

-----------------------------------------------------------------------------
(* The sweep. *)

\* Mutant: legal_hold is left out of the query.
DueLead_Held(l) == lead[l].state = "live" /\ lead[l].status # "promoted" /\ lead[l].old

\* selectOverAgeQuery, lead/unconverted.
DueLead(l) ==
  lead[l].state = "live" /\ lead[l].status # "promoted" /\ ~lead[l].held /\ lead[l].old

\* selectOverAgeQuery, person/no_consent_no_deal.
DuePerson(p) ==
  /\ person[p].state = "live" /\ ~person[p].held /\ person[p].old
  /\ p \notin granted /\ p \notin linked

Due(x) == IF x \in LeadIds THEN DueLead(x) ELSE DuePerson(x)

\* collectWorkItems.
Collect ==
  /\ batch = {}
  /\ {x \in Records : Due(x)} # {}
  /\ batch' = {x \in Records : Due(x)}
  /\ UNCHANGED <<leadVars, emails, granted, linked, ladder, changed, erasure, erased, suppressed,
                 gone, slipped, fails, news>>

ActionFor(x) == IF x \in LeadIds THEN ladder.lead ELSE ladder.person

\* Mutant: the UPDATE matches no row.
Acted_Nothing(row, action) == row

\* applyArchive and applyAnonymize: by id alone, whatever the row has become, and no other row.
Acted(row, action) ==
  IF action = "archive" THEN [Touch(row) EXCEPT !.state = "archived"]
                        ELSE [Touch(row) EXCEPT !.named = FALSE]

\* applyAction: a record's action and its audit row, in a transaction of their own.
Apply(x) ==
  /\ x \in batch /\ Idle
  /\ ActionFor(x) \in {"archive", "anonymize"}
  /\ IF x \in LeadIds
       THEN WriteLead(x, Acted(lead[x], ActionFor(x))) /\ UNCHANGED person
       ELSE /\ person' = [person EXCEPT ![x] = Acted(@, ActionFor(x))]
            /\ UNCHANGED <<lead, promo>>
  /\ batch' = batch \ {x} /\ changed' = changed \ {x}
  /\ UNCHANGED <<filed, emails, granted, linked, ladder, erasure, erased, suppressed, gone, slipped,
                 fails, news>>

EndSweep ==
  /\ batch' = {} /\ changed' = {}
  /\ erasure' = NoErasure
  /\ UNCHANGED <<leadVars, emails, granted, linked, ladder, erased, suppressed, gone, slipped>>

\* The first error ends the sweep; what is left waits for the next one.
SweepFails == batch # {} /\ fails < MaxFails /\ fails' = fails + 1 /\ EndSweep /\ News

\* runRetentionAction knows no erase for a lead: an error, every time.
Unsupported(l) ==
  /\ l \in batch /\ ladder.lead = "erase" /\ Idle
  /\ EndSweep /\ UNCHANGED <<fails, news>>

SweepStep ==
  \/ \E x \in Records : Apply(x)
  \/ \E p \in People : Capture(p)
  \/ CommitErasure
  \/ \E l \in LeadIds : Unsupported(l)

Next ==
  \/ LeadStep
  \/ \E p \in People :
       \/ \E a \in Addresses : CreatePerson(p, a)
       \/ \E q \in People : Merge(p, q)
       \/ \E s \in {"granted", "withdrawn"} : RecordConsent(p, s)
       \/ LinkToDeal(p)
  \/ \E x \in Records : SetHold(x) \/ Ages(x)
  \/ Collect \/ SweepStep \/ SweepFails

Spec == Init /\ [][Next]_vars

\* River runs the job every night and again after an error; a sweep that runs goes on.
FairSpec == Spec /\ WF_vars(Collect) /\ WF_vars(SweepStep)

-----------------------------------------------------------------------------
Protected(x) ==
  IF x \in LeadIds THEN lead[x].held \/ lead[x].status = "promoted"
                   ELSE person[x].held \/ x \in granted \/ x \in linked

\* What a step takes out of the batch and writes is not protected, or has changed.
SweptIsUnprotected ==
  \A x \in batch \ batch' : (lead' # lead \/ person' # person) => ~Protected(x) \/ x \in changed

\* A hold, a promotion, a consent or a deal keeps the sweep from a record, unless the record
\* changed after the sweep collected it (selectOverAgeQuery; data-model DM-DDL-10, "never
\* auto-acted"; that a later hold comes too late is HeldIsNeverActed).
SweepSparesProtected == [][SweptIsUnprotected]_vars

\* One lead becomes one person, unless promotions overlap or a patch undoes the status
\* (Promote's check of the status).
TwinsNeedStaleRead ==
  \A p, q \in People :
    p # q /\ person[p].from # None /\ person[p].from = person[q].from =>
      person[p].stale \/ person[q].stale \/ lead[person[p].from].reset

\* An erasure takes the lead with the person, and suppresses every address it deletes,
\* unless a merge moved the address while the erasure ran (eraseNormalized, suppressEmails).
ErasureIsWhole ==
  /\ gone \subseteq suppressed \cup slipped
  /\ \A p \in erased : person[p].from # None => ~lead[person[p].from].named

\* What is due is acted on, or stops being due: no record outlives its policy for ever, as
\* long as no policy asks what the sweep cannot do (Work, processWorkspace).
DueIsActedOn ==
  \A x \in Records : Due(x) /\ ladder.lead # "erase" ~> ~Due(x)

-----------------------------------------------------------------------------
(* What the documents say and the code does not do. *)

\* docs/architecture/data-model.md:511: "legal_hold = true is never auto-acted".
HeldIsNeverActed ==
  [][\A l \in LeadIds : l \in batch \ batch' /\ lead' # lead => ~lead[l].held]_vars

\* backend/api/crm.yaml:6263: "promoted is reachable only via POST /leads/{id}/promote".
PromotedHasAPerson == \A l \in LeadIds : lead[l].status = "promoted" => lead[l].person # None

\* ADR-0008 and crm.yaml's 409 "Lead already promoted": a lead is promoted once.
PromotedOnce ==
  \A p, q \in People : person[p].from # None /\ person[p].from = person[q].from => p = q

\* docs/quality/testing.md:223: the nightly evaluator erases an over-age lead whose policy
\* says erase.  It fails instead, and whatever comes after the lead in the sweep waits.
DueIsAlwaysActedOn == \A x \in Records : Due(x) ~> ~Due(x)

\* Everything an erasure deletes is suppressed: GDPR-DDL-1.
ErasedIsSuppressed == gone \subseteq suppressed

\* docs/subsystems/access-and-admin.md:581: erasure "permanently wipes the person": also the
\* rows that were merged into the person before.
ErasedIsWiped ==
  [][\A p \in erased' \ erased, q \in People : person[q].into = p => ~person'[q].named]_vars

\* docs/architecture/data-model.md:234 (DM-CONV-15): archiving a person archives its e-mails.
ArchivedHasNoLiveAddress ==
  \A e \in emails : e.live => person[e.owner].state = "live"

\* docs/architecture/data-model.md:234 (DM-CONV-15): attachments "pointing at the archived row
\* are archived in the same transaction".
ArchiveTakesFiles ==
  [][\A l \in LeadIds : lead[l].state = "live" /\ lead'[l].state = "archived" => l \notin filed']_vars
=============================================================================
