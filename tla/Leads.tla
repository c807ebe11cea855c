-------------------------------- MODULE Leads --------------------------------
(***************************************************************************)
(* Lead rows of backend/internal/modules/leads (adapters/store_lead.go) and *)
(* the people promoted from them.  Create, Update and Archive are one       *)
(* statement that matters each; Promote reads the lead without a lock and   *)
(* writes afterwards, without looking at it again.                          *)
(***************************************************************************)
EXTENDS Naturals, FiniteSets

CONSTANTS
  LeadIds,    \* ids of lead rows
  People,     \* ids of person rows
  Promotions, \* calls of Promote
  Patched,    \* the statuses an Update may carry: the store takes any
  None        \* the null value

ASSUME LeadsAssumption == None \notin LeadIds \cup People

VARIABLES
  lead,    \* lead rows
  filed,   \* leads that a live attachment row names
  person,  \* person rows
  promo    \* open calls of Promote

leadVars == <<lead, filed, person, promo>>

LeadStatuses == {"new", "working", "promoted", "disqualified"}
RowStates    == {"absent", "live", "archived"}

\* named: full_name, email and the other personal columns hold something.
\* old: updated_at lies before the cut-off of the retention policy.  held: legal_hold.
\* reset is no column: a patch took the status of a promoted lead away.
LeadRows == [state : RowStates, status : LeadStatuses, named : BOOLEAN, reset : BOOLEAN,
             person : People \cup {None}, old : BOOLEAN, held : BOOLEAN]

\* from: converted_from_lead_id.  into: merged_into_id.  stale is no column: the
\* promotion that made the row acted on a lead that had changed since it was read.
PersonRows == [state : RowStates, named : BOOLEAN, from : LeadIds \cup {None},
               into : People \cup {None}, old : BOOLEAN, held : BOOLEAN, stale : BOOLEAN]

PromoRows == [lead : LeadIds \cup {None}, named : BOOLEAN, stale : BOOLEAN]

LeadsTypeOK ==
  /\ lead   \in [LeadIds -> LeadRows] /\ filed \subseteq LeadIds
  /\ person \in [People -> PersonRows]
  /\ promo  \in [Promotions -> PromoRows]

NoLead   == [state |-> "absent", status |-> "new", named |-> FALSE, reset |-> FALSE,
             person |-> None, old |-> FALSE, held |-> FALSE]
NoPerson == [state |-> "absent", named |-> FALSE, from |-> None, into |-> None,
             old |-> FALSE, held |-> FALSE, stale |-> FALSE]
NoPromo  == [lead |-> None, named |-> FALSE, stale |-> FALSE]

LeadsInit ==
  /\ lead   = [l \in LeadIds |-> NoLead] /\ filed = {}
  /\ person = [p \in People |-> NoPerson]
  /\ promo  = [r \in Promotions |-> NoPromo]

-----------------------------------------------------------------------------
\* touch_versioned: every UPDATE moves updated_at.
Touch(row) == [row EXCEPT !.old = FALSE]

\* The promotions after a write to the lead: those that have read it have read the past.
Outdated(l) ==
  [r \in Promotions |-> IF promo[r].lead = l THEN [promo[r] EXCEPT !.stale = TRUE] ELSE promo[r]]

\* One committed UPDATE of a lead row.
WriteLead(l, row) ==
  /\ lead'  = [lead EXCEPT ![l] = Touch(row)]
  /\ promo' = Outdated(l)

CreateLead(l) ==
  /\ lead[l].state = "absent"
  /\ lead' = [lead EXCEPT ![l] = [NoLead EXCEPT !.state = "live", !.named = TRUE]]
  /\ UNCHANGED <<filed, person, promo>>

\* A patch with a status; whether an If-Match is sent decides only if it is refused.
UpdateLead(l, s) ==
  /\ lead[l].state = "live"
  /\ WriteLead(l, [lead[l] EXCEPT !.status = s, !.reset = @ \/ lead[l].status = "promoted"])
  /\ UNCHANGED <<filed, person>>

\* AttachmentStore.Create asks nothing of the lead it names.
AttachFile(l) ==
  /\ lead[l].state # "absent" /\ l \notin filed
  /\ filed' = filed \cup {l}
  /\ UNCHANGED <<lead, person, promo>>

\* Archive disqualifies, a promoted lead too, and takes the attachments along.
ArchiveLead(l) ==
  /\ lead[l].state = "live"
  /\ WriteLead(l, [lead[l] EXCEPT !.state = "archived", !.status = "disqualified"])
  /\ filed' = filed \ {l}
  /\ UNCHANGED person

\* Mutant: a promoted lead may be promoted.
Promotable_Again(l) == lead[l].state = "live"

Promotable(l) == lead[l].state = "live" /\ lead[l].status # "promoted"

\* Promote, its SELECT and the early returns behind it.
ReadLead(r, l) ==
  /\ promo[r].lead = None
  /\ Promotable(l)
  /\ promo' = [promo EXCEPT ![r] = [lead |-> l, named |-> lead[l].named, stale |-> FALSE]]
  /\ UNCHANGED <<lead, filed, person>>

\* Promote, its INSERT, its UPDATE and the commit.  Neither looks at the lead again: the
\* name is the one that was read, and an archived lead stays archived.
Promote(r, p) ==
  LET l == promo[r].lead IN
  /\ l # None
  /\ person[p].state = "absent"
  /\ person' = [person EXCEPT ![p] = [NoPerson EXCEPT !.state = "live", !.from = l,
                                         !.named = promo[r].named, !.stale = promo[r].stale]]
  /\ lead'   = [lead EXCEPT ![l] = [Touch(@) EXCEPT !.status = "promoted", !.person = p]]
  /\ promo'  = [Outdated(l) EXCEPT ![r] = NoPromo]
  /\ UNCHANGED filed

\* A lost connection or an error: nothing was written.
AbandonPromotion(r) ==
  /\ promo[r].lead # None
  /\ promo' = [promo EXCEPT ![r] = NoPromo]
  /\ UNCHANGED <<lead, filed, person>>
=============================================================================
