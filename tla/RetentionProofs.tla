--------------------------- MODULE RetentionProofs ---------------------------
(***************************************************************************)
(* Proofs about Leads and Retention, for any number of leads, people,       *)
(* promotions, addresses and sweeps.  The first half is about the rows and   *)
(* the promotions that read them, the second about the sweep and erasure.    *)
(***************************************************************************)
EXTENDS Retention, TLAPS

\* What a write to a lead that is there may not undo.
RowKept(a, b) ==
  /\ b.state # "absent"
  /\ a.state = "archived" => b.state = "archived"
  /\ ~a.named => ~b.named
  /\ a.reset => b.reset
  /\ a.status = "promoted" => b.status = "promoted" \/ b.reset \/ b.state = "archived"

Present ==
  /\ \A p \in People : person[p].from # None =>
       person[p].state # "absent" /\ lead[person[p].from].state # "absent"
  /\ \A r \in Promotions : promo[r].lead # None => lead[promo[r].lead].state # "absent"
  /\ \A p \in erased : p \in People /\ person[p].state # "absent"

\* A promotion whose read is not stale would read the same now.
ReadsHold ==
  \A r \in Promotions : promo[r].lead # None /\ ~promo[r].stale => Promotable(promo[r].lead)

\* A lead with a person is promoted, or archived since, unless a patch took the status away.
TakenStays ==
  \A p \in People : person[p].from # None /\ ~lead[person[p].from].reset =>
    lead[person[p].from].status = "promoted" \/ lead[person[p].from].state = "archived"

ErasedWithLead ==
  \A p \in erased : person[p].from # None => ~lead[person[p].from].named

\* The types of the rows the proofs follow; attachments are none of them.
LeadTypes ==
  /\ lead \in [LeadIds -> LeadRows] /\ person \in [People -> PersonRows]
  /\ promo \in [Promotions -> PromoRows]

LeadInv == LeadTypes /\ Present /\ ReadsHold /\ TakenStays /\ TwinsNeedStaleRead /\ ErasedWithLead

\* No lead disappears.
LeadsStay == \A l \in LeadIds : lead[l].state # "absent" => lead'[l].state # "absent"

\* Every write but a promotion keeps where people come from.
LEMMA LeadsKept ==
  ASSUME LeadInv, LeadTypes', ReadsHold',
         \A l \in LeadIds : lead[l].state # "absent" => RowKept(lead[l], lead'[l]),
         \A r \in Promotions : promo'[r].lead # None => lead'[promo'[r].lead].state # "absent",
         \A p \in People : /\ person'[p].from = person[p].from
                           /\ person[p].from # None => person'[p].stale = person[p].stale
                           /\ person[p].state # "absent" => person'[p].state # "absent",
         \A p \in erased' : /\ p \in People /\ person[p].state # "absent"
                            /\ p \in erased \/ (person[p].from # None => ~lead'[person[p].from].named)
  PROVE  LeadInv' /\ LeadsStay
<1> USE DEF LeadInv
<1>0. \A p \in People : person[p].from # None => person[p].from \in LeadIds
  BY DEF LeadTypes, PersonRows
<1>1. Present'
  BY <1>0 DEF Present, RowKept
<1>2. TakenStays'
  BY <1>0 DEF Present, TakenStays, RowKept
<1>3. TwinsNeedStaleRead'
  <2> SUFFICES ASSUME NEW p \in People, NEW q \in People, p # q, person'[p].from # None,
                      person'[p].from = person'[q].from
               PROVE  person'[p].stale \/ person'[q].stale \/ lead'[person'[p].from].reset
    BY DEF TwinsNeedStaleRead
  <2>1. person[p].stale \/ person[q].stale \/ lead[person[p].from].reset
    BY DEF TwinsNeedStaleRead
  <2>2. lead[person[p].from].reset => lead'[person[p].from].reset
    BY <1>0 DEF Present, RowKept
  <2> QED BY <2>1, <2>2
<1>4. ErasedWithLead'
  <2> SUFFICES ASSUME NEW p \in erased', person[p].from # None PROVE ~lead'[person[p].from].named
    BY DEF ErasedWithLead
  <2>1. p \in People
    OBVIOUS
  <2>2. CASE p \in erased
    BY <1>0, <2>1, <2>2 DEF ErasedWithLead, Present, RowKept
  <2> QED BY <2>2
<1>5. LeadsStay
  BY DEF LeadsStay, RowKept
<1> QED BY <1>1, <1>2, <1>3, <1>4, <1>5

\* touch_versioned changes nothing that matters here.
LEMMA Touched ==
  ASSUME NEW row \in LeadRows
  PROVE  /\ Touch(row) \in LeadRows
         /\ Touch(row).state = row.state /\ Touch(row).status = row.status
         /\ Touch(row).named = row.named /\ Touch(row).reset = row.reset
         /\ Touch(row).held = row.held /\ Touch(row).person = row.person
  BY DEF Touch, LeadRows

LEMMA TouchedPerson ==
  ASSUME NEW row \in PersonRows
  PROVE  /\ Touch(row) \in PersonRows
         /\ Touch(row).state = row.state /\ Touch(row).from = row.from
         /\ Touch(row).stale = row.stale /\ Touch(row).held = row.held
  BY DEF Touch, PersonRows

\* The promotions that read the lead are told.
LEMMA OutdatedReads ==
  ASSUME LeadInv, NEW l
  PROVE  /\ Outdated(l) \in [Promotions -> PromoRows]
         /\ \A r \in Promotions : /\ Outdated(l)[r].lead = promo[r].lead
                                  /\ promo[r].lead = l => Outdated(l)[r].stale
                                  /\ promo[r].lead # l => Outdated(l)[r] = promo[r]
  BY DEF LeadInv, LeadTypes, PromoRows, Outdated

\* A lead's row is written in one statement.
LEMMA WriteKeeps ==
  ASSUME LeadInv, NEW l \in LeadIds, NEW row \in LeadRows, lead[l].state # "absent",
         WriteLead(l, row), RowKept(lead[l], row), UNCHANGED <<person, erased>>
  PROVE  LeadInv' /\ LeadsStay
<1> DEFINE new == Touch(row)
           told == Outdated(l)
<1>1. new \in LeadRows /\ RowKept(lead[l], new)
  BY Touched DEF RowKept
<1>2. /\ lead' = [lead EXCEPT ![l] = new] /\ promo' = told
  BY DEF WriteLead
<1>3. /\ told \in [Promotions -> PromoRows]
      /\ \A r \in Promotions : /\ told[r].lead = promo[r].lead
                               /\ promo[r].lead = l => told[r].stale
                               /\ promo[r].lead # l => told[r] = promo[r]
  BY OutdatedReads
<1> HIDE DEF new, told
<1>4. LeadTypes'
  BY <1>1, <1>2, <1>3 DEF LeadInv, LeadTypes
<1>5. lead'[l] = new /\ \A k \in LeadIds \ {l} : lead'[k] = lead[k]
  BY <1>2 DEF LeadInv, LeadTypes
<1>6. \A r \in Promotions : promo[r].lead # None => promo[r].lead \in LeadIds
  BY DEF LeadInv, LeadTypes, PromoRows
<1>7. ReadsHold'
  BY <1>2, <1>3, <1>5, <1>6 DEF LeadInv, ReadsHold, Promotable
<1>8. \A k \in LeadIds : lead[k].state # "absent" => RowKept(lead[k], lead'[k])
  BY <1>1, <1>5 DEF RowKept
<1>9. \A r \in Promotions : promo'[r].lead # None => lead'[promo'[r].lead].state # "absent"
  BY <1>2, <1>3, <1>6, <1>8 DEF LeadInv, Present, RowKept
<1>10. \A p \in erased' : p \in People /\ person[p].state # "absent" /\ p \in erased
  BY DEF LeadInv, Present
<1> QED BY <1>4, <1>7, <1>8, <1>9, <1>10, LeadsKept

\* Rows of people are written, and none of leads.
LEMMA PeopleKeep ==
  ASSUME LeadInv, person' \in [People -> PersonRows], UNCHANGED <<lead, promo, erased>>,
         \A p \in People : /\ person'[p].from = person[p].from
                           /\ person[p].from # None => person'[p].stale = person[p].stale
                           /\ person[p].state # "absent" => person'[p].state # "absent"
  PROVE  LeadInv' /\ LeadsStay
<1>1. LeadTypes'
  BY DEF LeadInv, LeadTypes
<1>2. ReadsHold'
  BY DEF LeadInv, ReadsHold, Promotable
<1>3. \A l \in LeadIds : lead[l].state # "absent" => RowKept(lead[l], lead'[l])
  BY DEF RowKept
<1>4. \A r \in Promotions : promo'[r].lead # None => lead'[promo'[r].lead].state # "absent"
  BY DEF LeadInv, Present
<1>5. \A p \in erased' : p \in People /\ person[p].state # "absent" /\ p \in erased
  BY DEF LeadInv, Present
<1> QED BY <1>1, <1>2, <1>3, <1>4, <1>5, LeadsKept

LEMMA NothingWritten ==
  ASSUME LeadInv, UNCHANGED <<lead, person, promo, erased>>
  PROVE  LeadInv' /\ LeadsStay
  BY DEF LeadInv, LeadTypes, Present, ReadsHold, Promotable, TakenStays,
         TwinsNeedStaleRead, ErasedWithLead, LeadsStay

\* A promotion makes one person of a lead that was free, or says that it read the past.
LEMMA PromoteKeeps ==
  ASSUME LeadInv, NEW r \in Promotions, NEW p \in People, Promote(r, p), UNCHANGED erased
  PROVE  LeadInv' /\ LeadsStay
<1> DEFINE l    == promo[r].lead
           row  == [NoPerson EXCEPT !.state = "live", !.from = l, !.named = promo[r].named,
                                    !.stale = promo[r].stale]
           new  == [Touch(lead[l]) EXCEPT !.status = "promoted", !.person = p]
           told == Outdated(l)
<1> USE DEF LeadInv
<1>1. /\ l \in LeadIds /\ l # None /\ lead[l] \in LeadRows /\ promo[r] \in PromoRows
      /\ lead[l].state # "absent" /\ person[p].state = "absent"
  BY DEF Promote, LeadTypes, PromoRows, Present
<1>2. /\ new \in LeadRows /\ new.status = "promoted" /\ RowKept(lead[l], new)
  <2> DEFINE t == Touch(lead[l])
  <2>1. /\ t \in LeadRows /\ t.state = lead[l].state /\ t.named = lead[l].named
        /\ t.reset = lead[l].reset
    BY <1>1, Touched
  <2> HIDE DEF t
  <2>2. new = [t EXCEPT !.status = "promoted", !.person = p]
    BY DEF t
  <2>3. /\ new \in LeadRows /\ new.status = "promoted" /\ new.state = t.state /\ new.named = t.named
        /\ new.reset = t.reset
    <3> HIDE DEF new
    <3> QED BY <2>1, <2>2 DEF LeadRows, LeadStatuses
  <2> HIDE DEF new
  <2> QED BY <1>1, <2>1, <2>3 DEF RowKept
<1>3. row \in PersonRows /\ row.from = l /\ row.stale = promo[r].stale /\ row.state = "live"
  BY <1>1 DEF NoPerson, PersonRows, PromoRows, RowStates
<1>4. /\ told \in [Promotions -> PromoRows]
      /\ \A q \in Promotions : /\ told[q].lead = promo[q].lead
                               /\ promo[q].lead = l => told[q].stale
                               /\ promo[q].lead # l => told[q] = promo[q]
  BY OutdatedReads
<1>5. /\ person' = [person EXCEPT ![p] = row] /\ lead' = [lead EXCEPT ![l] = new]
      /\ promo' = [told EXCEPT ![r] = NoPromo]
  BY DEF Promote
<1> HIDE DEF new, told, row
<1>6. NoPromo \in PromoRows /\ NoPromo.lead = None
  BY DEF NoPromo, PromoRows
<1>7. LeadTypes'
  BY <1>1, <1>2, <1>3, <1>4, <1>5, <1>6 DEF LeadTypes
<1>8. /\ lead'[l] = new /\ \A k \in LeadIds \ {l} : lead'[k] = lead[k]
      /\ person'[p] = row /\ \A q \in People \ {p} : person'[q] = person[q]
      /\ promo'[r] = NoPromo /\ \A q \in Promotions \ {r} : promo'[q] = told[q]
  BY <1>1, <1>4, <1>5 DEF LeadTypes
<1>9. /\ \A q \in Promotions : promo[q].lead # None => promo[q].lead \in LeadIds
      /\ \A q \in People : person[q].from # None => person[q].from \in LeadIds
  BY DEF LeadTypes, PromoRows, PersonRows
<1>10. \A k \in LeadIds : lead[k].state # "absent" => RowKept(lead[k], lead'[k])
  BY <1>2, <1>8 DEF RowKept
<1>11. ReadsHold'
  BY <1>4, <1>6, <1>8, <1>9 DEF ReadsHold, Promotable
<1>12. p \notin erased
  BY <1>1 DEF Present
<1>13. Present'
  <2>1. \A q \in People : person'[q].from # None =>
          person'[q].state # "absent" /\ lead'[person'[q].from].state # "absent"
    BY <1>1, <1>2, <1>3, <1>8, <1>9, <1>10 DEF Present, RowKept
  <2>2. \A q \in Promotions : promo'[q].lead # None => lead'[promo'[q].lead].state # "absent"
    BY <1>4, <1>6, <1>8, <1>9, <1>10 DEF Present, RowKept
  <2>3. \A q \in erased' : q \in People /\ person'[q].state # "absent"
    BY <1>8, <1>12 DEF Present
  <2> QED BY <2>1, <2>2, <2>3 DEF Present
<1>14. TakenStays'
  <2> SUFFICES ASSUME NEW q \in People, person'[q].from # None, ~lead'[person'[q].from].reset
               PROVE  lead'[person'[q].from].status = "promoted" \/ lead'[person'[q].from].state = "archived"
    BY DEF TakenStays
  <2>1. CASE person'[q].from = l
    BY <1>2, <1>8, <2>1
  <2>2. CASE person'[q].from # l
    <3>1. q # p /\ person'[q] = person[q] /\ person[q].from \in LeadIds
      BY <1>3, <1>8, <1>9, <2>2
    <3> QED BY <1>8, <2>2, <3>1 DEF TakenStays
  <2> QED BY <2>1, <2>2
<1>15. ~promo[r].stale =>
         \A q \in People : person[q].from = l => lead[l].reset
  BY <1>1 DEF ReadsHold, Promotable, TakenStays
<1>16. lead[l].reset => lead'[l].reset
  BY <1>1, <1>10 DEF RowKept
<1>17. TwinsNeedStaleRead'
  <2> SUFFICES ASSUME NEW a \in People, NEW b \in People, a # b, person'[a].from # None,
                      person'[a].from = person'[b].from
               PROVE  person'[a].stale \/ person'[b].stale \/ lead'[person'[a].from].reset
    BY DEF TwinsNeedStaleRead
  <2>1. CASE a = p
    BY <1>3, <1>8, <1>15, <1>16, <2>1
  <2>2. CASE b = p
    BY <1>3, <1>8, <1>15, <1>16, <2>2
  <2>3. CASE a # p /\ b # p
    <3>1. person[a].stale \/ person[b].stale \/ lead[person[a].from].reset
      BY <1>8, <2>3 DEF TwinsNeedStaleRead
    <3>2. lead[person[a].from].reset => lead'[person[a].from].reset
      BY <1>8, <1>9, <1>10, <2>3 DEF Present, RowKept
    <3> QED BY <1>8, <2>3, <3>1, <3>2
  <2> QED BY <2>1, <2>2, <2>3
<1>18. ErasedWithLead'
  <2> SUFFICES ASSUME NEW q \in erased, person'[q].from # None PROVE ~lead'[person'[q].from].named
    BY DEF ErasedWithLead
  <2>1. q \in People /\ q # p /\ person'[q] = person[q]
    BY <1>8, <1>12 DEF Present
  <2> QED BY <1>9, <1>10, <2>1 DEF ErasedWithLead, Present, RowKept
<1>19. LeadsStay
  BY <1>10 DEF LeadsStay, RowKept
<1> QED BY <1>7, <1>11, <1>13, <1>14, <1>17, <1>18, <1>19

LEMMA CreateLeadKeeps ==
  ASSUME LeadInv, NEW l \in LeadIds, CreateLead(l), UNCHANGED erased
  PROVE  LeadInv' /\ LeadsStay
<1> DEFINE row == [NoLead EXCEPT !.state = "live", !.named = TRUE]
<1>1. /\ lead[l].state = "absent" /\ lead' = [lead EXCEPT ![l] = row]
      /\ UNCHANGED <<person, promo>>
  BY DEF CreateLead
<1>2. row \in LeadRows /\ row.state = "live"
  BY DEF NoLead, LeadRows, LeadStatuses, RowStates
<1> HIDE DEF row
<1>3. LeadTypes' /\ lead'[l] = row /\ \A k \in LeadIds \ {l} : lead'[k] = lead[k]
  BY <1>1, <1>2 DEF LeadInv, LeadTypes
<1>4. \A r \in Promotions : promo[r].lead # None => promo[r].lead \in LeadIds /\ promo[r].lead # l
  BY <1>1 DEF LeadInv, LeadTypes, PromoRows, Present
<1>5. ReadsHold'
  BY <1>1, <1>3, <1>4 DEF LeadInv, ReadsHold, Promotable
<1>6. \A k \in LeadIds : lead[k].state # "absent" => RowKept(lead[k], lead'[k])
  BY <1>1, <1>3 DEF RowKept
<1>7. \A r \in Promotions : promo'[r].lead # None => lead'[promo'[r].lead].state # "absent"
  BY <1>1, <1>3, <1>4 DEF LeadInv, Present
<1>8. \A p \in erased' : p \in People /\ person[p].state # "absent" /\ p \in erased
  BY DEF LeadInv, Present
<1> QED BY <1>1, <1>3, <1>5, <1>6, <1>7, <1>8, LeadsKept

LEMMA UpdateLeadKeeps ==
  ASSUME LeadInv, NEW l \in LeadIds, UNCHANGED erased,
         ArchiveLead(l) \/ \E s \in Patched : UpdateLead(l, s)
  PROVE  LeadInv' /\ LeadsStay
<1>0. lead[l] \in LeadRows
  BY DEF LeadInv, LeadTypes
<1>1. ASSUME NEW s \in Patched, UpdateLead(l, s) PROVE LeadInv' /\ LeadsStay
  <2> DEFINE v   == lead[l].reset \/ lead[l].status = "promoted"
             row == [lead[l] EXCEPT !.status = s, !.reset = v]
  <2>1. lead[l].state = "live" /\ WriteLead(l, row) /\ UNCHANGED person
    BY <1>1 DEF UpdateLead
  <2>2. v \in BOOLEAN /\ s \in LeadStatuses /\ (v <=> lead[l].reset \/ lead[l].status = "promoted")
    BY RetentionAssumption
  <2>3. row \in LeadRows /\ row.state = lead[l].state /\ row.named = lead[l].named /\ row.reset = v
    <3> HIDE DEF v
    <3> QED BY <1>0, <2>2 DEF LeadRows
  <2> HIDE DEF row, v
  <2>4. RowKept(lead[l], row)
    BY <2>1, <2>2, <2>3 DEF RowKept
  <2> QED BY <2>1, <2>3, <2>4, WriteKeeps
<1>2. CASE ArchiveLead(l)
  <2> DEFINE row == [lead[l] EXCEPT !.state = "archived", !.status = "disqualified"]
  <2>1. lead[l].state = "live" /\ WriteLead(l, row) /\ UNCHANGED person
    BY <1>2 DEF ArchiveLead
  <2>2. /\ row \in LeadRows /\ row.state = "archived" /\ row.named = lead[l].named
        /\ row.reset = lead[l].reset
    BY <1>0 DEF LeadRows, LeadStatuses, RowStates
  <2> HIDE DEF row
  <2>3. RowKept(lead[l], row)
    BY <2>2 DEF RowKept
  <2> QED BY <2>1, <2>2, <2>3, WriteKeeps
<1> QED BY <1>1, <1>2

\* A promotion begins with its read, or is given up.
LEMMA ReadLeadKeeps ==
  ASSUME LeadInv, NEW r \in Promotions, UNCHANGED erased,
         AbandonPromotion(r) \/ \E l \in LeadIds : ReadLead(r, l)
  PROVE  LeadInv' /\ LeadsStay
<1>1. PICK row \in PromoRows :
        /\ promo' = [promo EXCEPT ![r] = row] /\ UNCHANGED <<lead, person>>
        /\ row.lead # None => Promotable(row.lead)
  <2>1. CASE AbandonPromotion(r)
    <3>1. NoPromo \in PromoRows /\ NoPromo.lead = None
      BY DEF NoPromo, PromoRows
    <3> QED BY <2>1, <3>1 DEF AbandonPromotion
  <2>2. ASSUME NEW l \in LeadIds, ReadLead(r, l)
        PROVE  \E row \in PromoRows : /\ promo' = [promo EXCEPT ![r] = row] /\ UNCHANGED <<lead, person>>
                                      /\ row.lead # None => Promotable(row.lead)
    <3> DEFINE row == [lead |-> l, named |-> lead[l].named, stale |-> FALSE]
    <3>1. row \in PromoRows /\ row.lead = l
      <4>1. lead[l].named \in BOOLEAN
        BY DEF LeadInv, LeadTypes, LeadRows
      <4> QED BY <4>1 DEF PromoRows
    <3>2. promo' = [promo EXCEPT ![r] = row] /\ UNCHANGED <<lead, person>> /\ Promotable(l)
      BY <2>2 DEF ReadLead
    <3> HIDE DEF row
    <3> QED BY <3>1, <3>2
  <2> QED BY <2>1, <2>2
<1>2. LeadTypes' /\ promo'[r] = row /\ \A q \in Promotions \ {r} : promo'[q] = promo[q]
  BY <1>1 DEF LeadInv, LeadTypes
<1>3. ReadsHold'
  BY <1>1, <1>2 DEF LeadInv, ReadsHold, Promotable
<1>4. \A l \in LeadIds : lead[l].state # "absent" => RowKept(lead[l], lead'[l])
  BY <1>1 DEF RowKept
<1>5. \A q \in Promotions : promo'[q].lead # None => lead'[promo'[q].lead].state # "absent"
  BY <1>1, <1>2 DEF LeadInv, Present, Promotable
<1>6. \A p \in erased' : p \in People /\ person[p].state # "absent" /\ p \in erased
  BY DEF LeadInv, Present
<1> QED BY <1>1, <1>2, <1>3, <1>4, <1>5, <1>6, LeadsKept

\* An erasure takes the source lead's columns with the person's.
LEMMA CommitErasureKeeps ==
  ASSUME LeadInv, CommitErasure, erasure.person \in People, person[erasure.person].state # "absent"
  PROVE  LeadInv' /\ LeadsStay
<1>1. PICK p \in People : p = erasure.person
  OBVIOUS
<1> DEFINE row  == [Touch(person[p]) EXCEPT !.named = FALSE]
           l    == person[p].from
           told == Outdated(l)
<1>2. /\ person' = [person EXCEPT ![p] = row] /\ lead' = Erased(p)
      /\ promo' = IF l = None THEN promo ELSE told
      /\ erased' = erased \cup {p} /\ person[p].state # "absent"
  BY <1>1 DEF CommitErasure
<1>3. row \in PersonRows /\ row.from = l /\ row.stale = person[p].stale /\ row.state = person[p].state
  <2> DEFINE t == Touch(person[p])
  <2>1. /\ t \in PersonRows /\ t.from = l /\ t.stale = person[p].stale /\ t.state = person[p].state
    BY TouchedPerson DEF LeadInv, LeadTypes
  <2> HIDE DEF t
  <2>2. row = [t EXCEPT !.named = FALSE]
    BY DEF t
  <2> HIDE DEF row
  <2> QED BY <2>1, <2>2 DEF PersonRows
<1>4. ASSUME NEW k \in LeadIds
      PROVE  /\ lead'[k] \in LeadRows
             /\ k # l => lead'[k] = lead[k]
             /\ k = l => ~lead'[k].named
             /\ lead'[k].state = lead[k].state /\ lead'[k].status = lead[k].status
             /\ lead'[k].reset = lead[k].reset /\ lead'[k].held = lead[k].held
  <2> DEFINE t == Touch(lead[k])
  <2>1. lead[k] \in LeadRows
    BY DEF LeadInv, LeadTypes
  <2>2. /\ t \in LeadRows /\ t.state = lead[k].state /\ t.status = lead[k].status
        /\ t.reset = lead[k].reset /\ t.held = lead[k].held
    BY <2>1, Touched
  <2>3. lead'[k] = IF l = k THEN [t EXCEPT !.named = FALSE] ELSE lead[k]
    BY <1>2 DEF Erased
  <2> HIDE DEF t
  <2>4. CASE k = l
    BY <2>2, <2>3, <2>4 DEF LeadRows
  <2>5. CASE k # l
    BY <2>1, <2>3, <2>5
  <2> QED BY <2>4, <2>5
<1>5. /\ told \in [Promotions -> PromoRows]
      /\ \A r \in Promotions : /\ told[r].lead = promo[r].lead
                               /\ promo[r].lead = l => told[r].stale
                               /\ promo[r].lead # l => told[r] = promo[r]
  BY OutdatedReads
<1> HIDE DEF row, told
<1>6. lead' = [k \in LeadIds |-> lead'[k]]
  BY <1>2 DEF Erased
<1>7. LeadTypes'
  <2>1. lead' \in [LeadIds -> LeadRows]
    BY <1>4, <1>6
  <2>2. person' \in [People -> PersonRows] /\ promo' \in [Promotions -> PromoRows]
    BY <1>2, <1>3, <1>5 DEF LeadInv, LeadTypes
  <2> QED BY <2>1, <2>2 DEF LeadTypes
<1>8. \A r \in Promotions : promo[r].lead # None => promo[r].lead \in LeadIds
  BY DEF LeadInv, LeadTypes, PromoRows
<1>9. \A r \in Promotions : /\ promo'[r].lead = promo[r].lead
                            /\ ~promo'[r].stale => promo[r].lead # l \/ l = None
                            /\ promo[r].lead # l => promo'[r] = promo[r]
  BY <1>2, <1>5
<1>10. ReadsHold'
  BY <1>4, <1>8, <1>9 DEF LeadInv, ReadsHold, Promotable
<1>11. \A k \in LeadIds : lead[k].state # "absent" => RowKept(lead[k], lead'[k])
  BY <1>4 DEF RowKept
<1>12. \A r \in Promotions : promo'[r].lead # None => lead'[promo'[r].lead].state # "absent"
  BY <1>4, <1>8, <1>9 DEF LeadInv, Present
<1>13. \A q \in People : /\ person'[q].from = person[q].from /\ person'[q].stale = person[q].stale
                         /\ person'[q].state = person[q].state
  BY <1>2, <1>3 DEF LeadInv, LeadTypes
<1>14. \A q \in erased' : /\ q \in People /\ person[q].state # "absent"
                          /\ q \in erased \/ (person[q].from # None => ~lead'[person[q].from].named)
  <2>1. l # None => l \in LeadIds
    BY DEF LeadInv, LeadTypes, PersonRows
  <2> QED BY <1>2, <1>4, <2>1 DEF LeadInv, Present
<1> QED BY <1>7, <1>10, <1>11, <1>12, <1>13, <1>14, LeadsKept

-----------------------------------------------------------------------------
(* The sweep and erasure. *)

\* What the sweep collected and nobody changed is as free as it was.
Spared == \A x \in batch : ~Protected(x) \/ x \in changed

\* An erasure under way knows the addresses it will delete, but for those a merge moves.
Captured ==
  erasure.person # None =>
    /\ erasure.person \in People /\ person[erasure.person].state # "absent"
    /\ \A a \in AddressesOf(erasure.person) : a \in erasure.captured \/ a \in slipped

SweepInv ==
  /\ emails \subseteq Emails /\ batch \subseteq Records
  /\ \A p \in People : p \in batch => person[p].state # "absent"
  /\ \A l \in LeadIds : l \in batch => lead[l].state # "absent"
  /\ Spared /\ Captured
  /\ gone \subseteq suppressed \cup slipped

RetInv == LeadInv /\ SweepInv

LEMMA InitHolds == Init => RetInv
<1> SUFFICES ASSUME Init PROVE RetInv
  OBVIOUS
<1>1. LeadTypes
  <2>1. NoLead \in LeadRows
    BY DEF NoLead, LeadRows, RowStates, LeadStatuses
  <2>2. NoPerson \in PersonRows
    BY DEF NoPerson, PersonRows, RowStates
  <2>3. NoPromo \in PromoRows
    BY DEF NoPromo, PromoRows
  <2> QED BY <2>1, <2>2, <2>3 DEF Init, LeadsInit, LeadTypes
<1>2. (\A p \in People : person[p].from = None) /\ (\A r \in Promotions : promo[r].lead = None)
  BY DEF Init, LeadsInit, NoPerson, NoPromo
<1>3. LeadInv
  BY <1>1, <1>2 DEF Init, LeadInv, Present, ReadsHold, TakenStays, TwinsNeedStaleRead, ErasedWithLead
<1>4. SweepInv
  BY DEF Init, NoErasure, SweepInv, Spared, Captured
<1> QED BY <1>3, <1>4 DEF RetInv

\* The batch shrinks, and what becomes protected in it is marked.
LEMMA SweepKept ==
  ASSUME SweepInv, LeadsStay, batch' \subseteq batch, changed \cap batch' \subseteq changed',
         \A x \in batch' : Protected(x)' => Protected(x) \/ x \in changed',
         emails' \subseteq Emails, slipped \subseteq slipped', gone' \subseteq suppressed' \cup slipped',
         \A p \in People : person[p].state # "absent" => person'[p].state # "absent",
         \/ erasure'.person = None
         \/ /\ erasure' = erasure
            /\ \A p \in People : p = erasure.person => AddressesOf(p)' \subseteq AddressesOf(p) \cup slipped'
  PROVE  SweepInv'
<1> USE DEF SweepInv, LeadsStay
<1>1. Spared'
  BY DEF Spared
<1>2. Captured'
  <2>1. CASE erasure'.person = None
    BY <2>1 DEF Captured
  <2>2. CASE erasure' = erasure /\ erasure.person # None
    <3>1. PICK p \in People : p = erasure.person
      BY <2>2 DEF Captured
    <3>2. \A a \in AddressesOf(p)' : a \in erasure.captured \/ a \in slipped'
      BY <2>2, <3>1 DEF Captured
    <3>3. p = erasure'.person
      BY <2>2, <3>1
    <3>4. person'[p].state # "absent"
      BY <2>2, <3>1 DEF Captured
    <3>5. AddressesOf(erasure.person)' = AddressesOf(p)'
      BY <3>3 DEF AddressesOf
    <3> QED BY <2>2, <3>1, <3>2, <3>3, <3>4, <3>5 DEF Captured
  <2> QED BY <2>1, <2>2
<1> QED BY <1>1, <1>2

\* The usual case: one row is written, and the sweep is told if it has it.
LEMMA RowWritten ==
  ASSUME SweepInv, LeadsStay, NEW S, Changes(S), UNCHANGED <<emails, batch, erasure, suppressed, gone, slipped>>,
         \A k \in LeadIds : k \notin S => lead'[k] = lead[k],
         \A p \in People : p \notin S /\ person[p].state # "absent" =>
           /\ person'[p] = person[p]
           /\ (p \in granted' <=> p \in granted) /\ (p \in linked' <=> p \in linked),
         \A p \in People : person[p].state # "absent" => person'[p].state # "absent"
  PROVE  SweepInv'
<1> USE DEF SweepInv
<1>1. changed \subseteq changed' /\ \A x \in batch : x \in S => x \in changed'
  BY DEF Changes
<1>2. ASSUME NEW x \in batch', Protected(x)' PROVE Protected(x) \/ x \in changed'
  <2>1. x \in batch
    OBVIOUS
  <2>2. CASE x \in S
    BY <1>1, <2>1, <2>2
  <2>3. CASE x \notin S /\ x \in LeadIds
    BY <1>2, <2>3 DEF Protected
  <2>4. CASE x \notin S /\ x \notin LeadIds
    <3>1. x \in People /\ person[x].state # "absent"
      BY <2>1, <2>4 DEF Records
    <3> QED BY <1>2, <2>4, <3>1 DEF Protected
  <2> QED BY <2>2, <2>3, <2>4
<1>3. \A p \in People : AddressesOf(p)' = AddressesOf(p)
  BY DEF AddressesOf
<1> QED BY <1>1, <1>2, <1>3, SweepKept

LEMMA LeadStepHolds ==
  ASSUME RetInv, LeadStep
  PROVE  RetInv'
<1> USE DEF RetInv
<1>0. UNCHANGED <<emails, granted, linked, batch, erasure, erased, suppressed, gone, slipped>>
  BY DEF LeadStep, privacy
<1>1. ASSUME NEW l \in LeadIds, Changes({l}),
             CreateLead(l) \/ ArchiveLead(l) \/ \E s \in Patched : UpdateLead(l, s)
      PROVE  RetInv'
  <2>1. LeadInv' /\ LeadsStay
    BY <1>0, <1>1, CreateLeadKeeps, UpdateLeadKeeps
  <2>2. (\A k \in LeadIds : k \notin {l} => lead'[k] = lead[k]) /\ person' = person
    BY <1>1 DEF LeadInv, LeadTypes, CreateLead, ArchiveLead, UpdateLead, WriteLead
  <2> QED BY <1>0, <1>1, <2>1, <2>2, RowWritten
<1>2. ASSUME NEW r \in Promotions, Changes({}),
             AbandonPromotion(r) \/ \E l \in LeadIds : ReadLead(r, l)
      PROVE  RetInv'
  <2>1. LeadInv' /\ LeadsStay
    BY <1>0, <1>2, ReadLeadKeeps
  <2>2. UNCHANGED <<lead, person>>
    BY <1>2 DEF AbandonPromotion, ReadLead
  <2> QED BY <1>0, <1>2, <2>1, <2>2, RowWritten
<1>3. ASSUME NEW r \in Promotions, NEW p \in People, Promote(r, p), Changes({promo[r].lead})
      PROVE  RetInv'
  <2>1. LeadInv' /\ LeadsStay
    BY <1>0, <1>3, PromoteKeeps
  <2>2. PICK l : l = promo[r].lead
    OBVIOUS
  <2>3. /\ \A k \in LeadIds : k \notin {l} => lead'[k] = lead[k]
        /\ \A q \in People : person[q].state # "absent" => person'[q] = person[q]
    BY <1>3, <2>2 DEF LeadInv, LeadTypes, Promote
  <2> QED BY <1>0, <1>3, <2>1, <2>2, <2>3, RowWritten
<1>4. ASSUME NEW l \in LeadIds, Changes({}), AttachFile(l) PROVE RetInv'
  <2>1. UNCHANGED <<lead, person, promo>>
    BY <1>4 DEF AttachFile
  <2>2. LeadInv' /\ LeadsStay
    BY <1>0, <2>1, NothingWritten
  <2> QED BY <1>0, <1>4, <2>1, <2>2, RowWritten
<1> QED BY <1>1, <1>2, <1>3, <1>4 DEF LeadStep

LEMMA PersonStepHolds ==
  ASSUME RetInv, NEW p \in People,
         \/ \E a \in Addresses : CreatePerson(p, a)
         \/ \E q \in People : Merge(p, q)
         \/ \E s \in {"granted", "withdrawn"} : RecordConsent(p, s)
         \/ LinkToDeal(p)
  PROVE  RetInv'
<1> USE DEF RetInv
<1>0. person \in [People -> PersonRows]
  BY DEF LeadInv, LeadTypes
<1>1. ASSUME NEW a \in Addresses, CreatePerson(p, a) PROVE RetInv'
  <2> DEFINE row == [NoPerson EXCEPT !.state = "live", !.named = TRUE]
             e   == [address |-> a, owner |-> p, live |-> TRUE]
  <2>1. /\ person[p].state = "absent" /\ person' = [person EXCEPT ![p] = row]
        /\ emails' = emails \cup {e}
        /\ UNCHANGED <<lead, promo, granted, linked, batch, changed, erasure, erased, suppressed, gone, slipped>>
    BY <1>1 DEF CreatePerson
  <2>2. row \in PersonRows /\ row.from = None /\ row.state = "live"
    BY DEF NoPerson, PersonRows, RowStates
  <2>3. e \in Emails /\ e.owner = p
    BY DEF Emails
  <2> HIDE DEF row, e
  <2>4. person[p].from = None
    BY <2>1 DEF LeadInv, Present
  <2>5. /\ person' \in [People -> PersonRows] /\ person'[p] = row
        /\ \A q \in People \ {p} : person'[q] = person[q]
    BY <1>0, <2>1, <2>2
  <2>6. LeadInv' /\ LeadsStay
    BY <2>1, <2>2, <2>4, <2>5, PeopleKeep
  <2>7. \A x \in batch' : Protected(x)' => Protected(x)
    BY <2>1, <2>5 DEF SweepInv, Protected, Records
  <2>8. \A q \in People : q = erasure.person => AddressesOf(q)' \subseteq AddressesOf(q)
    <3>1. p # erasure.person
      BY <2>1, LeadsAssumption DEF SweepInv, Captured
    <3> QED BY <2>1, <2>3, <3>1 DEF AddressesOf
  <2>9. SweepInv'
    BY <2>1, <2>2, <2>3, <2>5, <2>6, <2>7, <2>8, SweepKept DEF SweepInv
  <2> QED BY <2>6, <2>9
<1>2. ASSUME NEW q \in People, Merge(p, q) PROVE RetInv'
  <2> DEFINE moved == {e \in emails : e.owner = p /\ e.live}
             row   == [Touch(person[p]) EXCEPT !.state = "archived", !.into = q]
  <2>1. /\ person' = [person EXCEPT ![p] = row]
        /\ emails' = (emails \ moved) \cup {[e EXCEPT !.owner = q] : e \in moved}
        /\ linked' = IF p \in linked THEN (linked \ {p}) \cup {q} ELSE linked
        /\ slipped' = IF erasure.person \in {p, q}
                        THEN slipped \cup {e.address : e \in moved} ELSE slipped
        /\ Changes({p, q})
        /\ UNCHANGED <<lead, promo, granted, batch, erasure, erased, suppressed, gone>>
    BY <1>2 DEF Merge
  <2>2. row \in PersonRows /\ row.from = person[p].from /\ row.stale = person[p].stale /\ row.state = "archived"
    <3> DEFINE t == Touch(person[p])
    <3>1. t \in PersonRows /\ t.from = person[p].from /\ t.stale = person[p].stale
      BY <1>0, TouchedPerson
    <3> HIDE DEF t
    <3>2. row = [t EXCEPT !.state = "archived", !.into = q]
      BY DEF t
    <3> HIDE DEF row
    <3> QED BY <3>1, <3>2 DEF PersonRows, RowStates
  <2> HIDE DEF row
  <2>3. /\ person' \in [People -> PersonRows] /\ person'[p] = row
        /\ \A z \in People \ {p} : person'[z] = person[z]
    BY <1>0, <2>1, <2>2
  <2>4. LeadInv' /\ LeadsStay
    BY <2>1, <2>2, <2>3, PeopleKeep
  <2>5. changed \subseteq changed' /\ \A x \in batch : x \in {p, q} => x \in changed'
    BY <2>1 DEF Changes
  <2>6. \A x \in batch' : Protected(x)' => Protected(x) \/ x \in changed'
    BY <2>1, <2>3, <2>5 DEF SweepInv, Protected, Records
  <2>7. emails' \subseteq Emails
    BY <2>1 DEF SweepInv, Emails
  <2>8. ASSUME NEW z \in People, z = erasure.person
        PROVE  AddressesOf(z)' \subseteq AddressesOf(z) \cup slipped'
    <3> SUFFICES ASSUME NEW f \in emails', f.owner = z
                 PROVE  f.address \in AddressesOf(z) \cup slipped'
      BY DEF AddressesOf
    <3>1. CASE f \in emails
      BY <3>1 DEF AddressesOf
    <3>2. ASSUME NEW e \in moved, f = [e EXCEPT !.owner = q]
          PROVE  f.address \in AddressesOf(z) \cup slipped'
      <4>1. f.owner = q /\ f.address = e.address
        BY <3>2 DEF SweepInv, Emails
      <4> QED BY <2>1, <2>8, <4>1
    <3> QED BY <2>1, <3>1, <3>2
  <2>9. SweepInv'
    BY <2>1, <2>2, <2>3, <2>4, <2>5, <2>6, <2>7, <2>8, SweepKept DEF SweepInv
  <2> QED BY <2>4, <2>9
<1>3. ASSUME NEW s \in {"granted", "withdrawn"}, RecordConsent(p, s) PROVE RetInv'
  <2>1. /\ granted' = IF s = "granted" THEN granted \cup {p} ELSE granted \ {p}
        /\ Changes({p}) /\ UNCHANGED <<leadVars, erased>>
        /\ UNCHANGED <<emails, linked, batch, erasure, suppressed, gone, slipped>>
    BY <1>3 DEF RecordConsent
  <2>2. UNCHANGED <<lead, person>>
    BY <2>1 DEF leadVars
  <2> QED BY <2>1, <2>2, NothingWritten, RowWritten DEF leadVars
<1>4. CASE LinkToDeal(p)
  <2>1. /\ linked' = linked \cup {p} /\ Changes({p}) /\ UNCHANGED <<leadVars, erased>>
        /\ UNCHANGED <<emails, granted, batch, erasure, suppressed, gone, slipped>>
    BY <1>4 DEF LinkToDeal
  <2>2. UNCHANGED <<lead, person>>
    BY <2>1 DEF leadVars
  <2> QED BY <2>1, <2>2, NothingWritten, RowWritten DEF leadVars
<1> QED BY <1>1, <1>2, <1>3, <1>4

\* A hold is set or cleared, or a record grows old.
LEMMA SetHoldHolds ==
  ASSUME RetInv, NEW x \in Records, SetHold(x)
  PROVE  RetInv'
<1> USE DEF RetInv
<1>0. /\ Changes({x})
      /\ UNCHANGED <<emails, granted, linked, batch, erasure, erased, suppressed, gone, slipped>>
  BY DEF SetHold, privacy
<1>1. CASE x \in LeadIds
  <2> DEFINE v   == ~lead[x].held
             row == [lead[x] EXCEPT !.held = v]
  <2>1. lead[x].state = "live" /\ UNCHANGED person /\ WriteLead(x, row)
    BY <1>1 DEF SetHold
  <2>2. v \in BOOLEAN /\ lead[x] \in LeadRows
    BY <1>1 DEF LeadInv, LeadTypes
  <2>3. row \in LeadRows /\ RowKept(lead[x], row)
    <3> HIDE DEF v
    <3>1. /\ row \in LeadRows /\ row.state = lead[x].state /\ row.named = lead[x].named
          /\ row.reset = lead[x].reset /\ row.status = lead[x].status
      BY <2>2 DEF LeadRows
    <3> HIDE DEF row
    <3> QED BY <2>1, <3>1 DEF RowKept
  <2> HIDE DEF row
  <2>4. LeadInv' /\ LeadsStay
    BY <1>0, <1>1, <2>1, <2>3, WriteKeeps
  <2>5. \A k \in LeadIds : k \notin {x} => lead'[k] = lead[k]
    BY <2>1 DEF WriteLead, LeadInv, LeadTypes
  <2> QED BY <1>0, <2>1, <2>4, <2>5, RowWritten
<1>2. CASE x \notin LeadIds
  <2> DEFINE v   == ~person[x].held
             t   == Touch(person[x])
             row == [t EXCEPT !.held = v]
  <2>1. x \in People /\ person[x].state = "live" /\ UNCHANGED <<lead, promo>>
    BY <1>2 DEF SetHold, Records
  <2>2. person' = [person EXCEPT ![x] = row]
    BY <1>2 DEF SetHold
  <2>3. /\ t \in PersonRows /\ t.from = person[x].from /\ t.stale = person[x].stale
        /\ t.state = person[x].state /\ v \in BOOLEAN
    BY <2>1, TouchedPerson DEF LeadInv, LeadTypes
  <2>4. /\ row \in PersonRows /\ row.from = person[x].from /\ row.stale = person[x].stale
        /\ row.state = person[x].state
    <3> HIDE DEF t, v
    <3> QED BY <2>3 DEF PersonRows
  <2> HIDE DEF row
  <2>5. /\ person' \in [People -> PersonRows] /\ person'[x] = row
        /\ \A q \in People : q \notin {x} => person'[q] = person[q]
    BY <2>1, <2>2, <2>4 DEF LeadInv, LeadTypes
  <2>6. LeadInv' /\ LeadsStay
    BY <1>0, <2>1, <2>4, <2>5, PeopleKeep
  <2> QED BY <1>0, <2>1, <2>4, <2>5, <2>6, RowWritten
<1> QED BY <1>1, <1>2

LEMMA AgesHolds ==
  ASSUME RetInv, NEW x \in Records, Ages(x)
  PROVE  RetInv'
<1> USE DEF RetInv
<1>0. UNCHANGED <<promo, emails, granted, linked, batch, changed, erasure, erased, suppressed, gone, slipped>>
  BY DEF Ages, privacy
<1>1. CASE x \in LeadIds
  <2>1. lead[x].state = "live" /\ UNCHANGED person /\ lead' = [lead EXCEPT ![x].old = TRUE]
    BY <1>1 DEF Ages
  <2>2. lead' \in [LeadIds -> LeadRows]
    BY <1>1, <2>1 DEF LeadInv, LeadTypes, LeadRows
  <2>3. \A k \in LeadIds : /\ lead'[k].state = lead[k].state /\ lead'[k].status = lead[k].status
                           /\ lead'[k].named = lead[k].named /\ lead'[k].reset = lead[k].reset
                           /\ lead'[k].held = lead[k].held
    BY <1>1, <2>1 DEF LeadInv, LeadTypes, LeadRows
  <2>4. LeadTypes'
    BY <1>0, <2>1, <2>2 DEF LeadInv, LeadTypes
  <2>5. \A r \in Promotions : promo[r].lead # None => promo[r].lead \in LeadIds
    BY DEF LeadInv, LeadTypes, PromoRows
  <2>6. ReadsHold'
    BY <1>0, <2>3, <2>5 DEF LeadInv, ReadsHold, Promotable
  <2>7. \A k \in LeadIds : lead[k].state # "absent" => RowKept(lead[k], lead'[k])
    BY <2>3 DEF RowKept
  <2>8. \A r \in Promotions : promo'[r].lead # None => lead'[promo'[r].lead].state # "absent"
    BY <1>0, <2>3, <2>5 DEF LeadInv, Present
  <2>9. \A p \in erased' : p \in People /\ person[p].state # "absent" /\ p \in erased
    BY <1>0 DEF LeadInv, Present
  <2>10. LeadInv' /\ LeadsStay
    BY <2>1, <2>4, <2>6, <2>7, <2>8, <2>9, LeadsKept
  <2>11. \A y \in batch' : Protected(y)' => Protected(y)
    BY <1>0, <2>1, <2>3 DEF Protected
  <2>12. \A p \in People : AddressesOf(p)' = AddressesOf(p)
    BY <1>0 DEF AddressesOf
  <2>13. SweepInv'
    BY <1>0, <2>1, <2>10, <2>11, <2>12, SweepKept DEF SweepInv
  <2> QED BY <2>10, <2>13
<1>2. CASE x \notin LeadIds
  <2>1. x \in People /\ UNCHANGED lead /\ person' = [person EXCEPT ![x].old = TRUE]
    BY <1>2 DEF Ages, Records
  <2>2. person' \in [People -> PersonRows]
    BY <2>1 DEF LeadInv, LeadTypes, PersonRows
  <2>3. \A p \in People : /\ person'[p].state = person[p].state /\ person'[p].from = person[p].from
                          /\ person'[p].stale = person[p].stale /\ person'[p].held = person[p].held
    BY <2>1 DEF LeadInv, LeadTypes, PersonRows
  <2>4. LeadInv' /\ LeadsStay
    BY <1>0, <2>1, <2>2, <2>3, PeopleKeep
  <2>5. \A y \in batch' : Protected(y)' => Protected(y)
    BY <1>0, <2>1, <2>3 DEF Protected, SweepInv, Records
  <2>6. \A p \in People : AddressesOf(p)' = AddressesOf(p)
    BY <1>0 DEF AddressesOf
  <2>7. SweepInv'
    BY <1>0, <2>3, <2>4, <2>5, <2>6, SweepKept DEF SweepInv
  <2> QED BY <2>4, <2>7
<1> QED BY <1>1, <1>2

\* What the sweep collects is due, and nothing that is due is protected.
LEMMA CollectHolds ==
  ASSUME RetInv, Collect
  PROVE  RetInv'
<1> USE DEF RetInv
<1>1. /\ batch' = {x \in Records : Due(x)} /\ UNCHANGED <<leadVars, erased>>
      /\ UNCHANGED <<emails, granted, linked, changed, erasure, suppressed, gone, slipped>>
  BY DEF Collect
<1>2. LeadInv'
  BY <1>1, NothingWritten DEF leadVars
<1>3. UNCHANGED <<lead, person>>
  BY <1>1 DEF leadVars
<1>4. \A x \in batch' : ~Protected(x)'
  BY <1>1, <1>3 DEF Due, DueLead, DuePerson, Protected
<1>5. \A p \in People : p \in batch' => person'[p].state # "absent"
  <2>1. \A p \in People : p \notin LeadIds
    BY RetentionAssumption
  <2> QED BY <1>1, <1>3, <2>1 DEF Due, DuePerson
<1>7. \A l \in LeadIds : l \in batch' => lead'[l].state # "absent"
  BY <1>1, <1>3 DEF Due, DueLead
<1>6. Captured'
  BY <1>1, <1>3 DEF SweepInv, Captured, AddressesOf
<1> QED BY <1>1, <1>2, <1>4, <1>5, <1>6, <1>7 DEF SweepInv, Spared

\* An erasure reads the addresses of a person of the batch.
LEMMA CaptureHolds ==
  ASSUME RetInv, NEW p \in People, Capture(p)
  PROVE  RetInv'
<1> USE DEF RetInv
<1>1. /\ p \in batch /\ erasure' = [person |-> p, captured |-> AddressesOf(p)]
      /\ UNCHANGED <<leadVars, erased>>
      /\ UNCHANGED <<emails, granted, linked, batch, changed, suppressed, gone, slipped>>
  BY DEF Capture
<1>2. LeadInv'
  BY <1>1, NothingWritten DEF leadVars
<1>3. UNCHANGED <<lead, person>>
  BY <1>1 DEF leadVars
<1>4. erasure'.person = p /\ erasure'.captured = AddressesOf(p)
  BY <1>1
<1>5. AddressesOf(erasure.person)' = AddressesOf(p)
  BY <1>1, <1>4 DEF AddressesOf
<1>6. Captured'
  BY <1>1, <1>3, <1>4, <1>5 DEF SweepInv, Captured
<1>7. Spared'
  BY <1>1, <1>3 DEF SweepInv, Spared, Protected
<1> QED BY <1>1, <1>2, <1>3, <1>6, <1>7 DEF SweepInv

LEMMA CommitErasureHolds ==
  ASSUME RetInv, CommitErasure
  PROVE  RetInv'
<1> USE DEF RetInv
<1>1. PICK p \in People : p = erasure.person /\ person[p].state # "absent"
  BY DEF CommitErasure, Idle, SweepInv, Captured
<1>2. LeadInv' /\ LeadsStay
  BY <1>1, CommitErasureKeeps
<1>3. /\ person' = [person EXCEPT ![p] = [Touch(@) EXCEPT !.named = FALSE]] /\ lead' = Erased(p)
      /\ gone' = gone \cup AddressesOf(p) /\ emails' = {e \in emails : e.owner # p}
      /\ suppressed' = suppressed \cup erasure.captured
      /\ erasure' = NoErasure /\ batch' = batch \ {p}
      /\ changed' = (changed \cup ({person[p].from} \cap batch)) \ {p}
      /\ UNCHANGED <<granted, linked, slipped>>
  BY <1>1 DEF CommitErasure, Suppressed
<1>4. \A k \in LeadIds : lead'[k].status = lead[k].status /\ lead'[k].held = lead[k].held
  <2> SUFFICES ASSUME NEW k \in LeadIds
               PROVE  lead'[k].status = lead[k].status /\ lead'[k].held = lead[k].held
    OBVIOUS
  <2> DEFINE t == Touch(lead[k])
  <2>1. t \in LeadRows /\ t.status = lead[k].status /\ t.held = lead[k].held
    BY Touched DEF LeadInv, LeadTypes
  <2>2. lead'[k] \in {[t EXCEPT !.named = FALSE], lead[k]}
    BY <1>3 DEF Erased
  <2> HIDE DEF t
  <2> QED BY <2>1, <2>2 DEF LeadRows
<1>5. \A q \in People \ {p} : person'[q] = person[q]
  BY <1>3 DEF LeadInv, LeadTypes
<1>6. \A q \in People : person[q].state # "absent" => person'[q].state # "absent"
  <2> DEFINE t == Touch(person[p])
  <2>1. t \in PersonRows /\ t.state = person[p].state
    BY TouchedPerson DEF LeadInv, LeadTypes
  <2>2. person' = [person EXCEPT ![p] = [t EXCEPT !.named = FALSE]]
    BY <1>3
  <2> HIDE DEF t
  <2>3. person'[p].state = person[p].state
    BY <2>1, <2>2 DEF LeadInv, LeadTypes, PersonRows
  <2> QED BY <1>5, <2>3
<1>7. \A x \in batch' : Protected(x)' => Protected(x)
  BY <1>3, <1>4, <1>5 DEF SweepInv, Protected, Records
<1>8. \A a \in AddressesOf(p) : a \in erasure.captured \/ a \in slipped
  BY <1>1, LeadsAssumption DEF SweepInv, Captured
<1>9. erasure'.person = None
  BY <1>3 DEF NoErasure
<1>10. gone' \subseteq suppressed' \cup slipped'
  BY <1>3, <1>8 DEF SweepInv
<1>11. batch' \subseteq batch /\ changed \cap batch' \subseteq changed' /\ emails' \subseteq Emails
  BY <1>3 DEF SweepInv
<1>12. SweepInv'
  BY <1>2, <1>3, <1>6, <1>7, <1>9, <1>10, <1>11, SweepKept
<1> QED BY <1>2, <1>12

\* An archive or an anonymisation of one record of the batch.
LEMMA ApplyHolds ==
  ASSUME RetInv, NEW x \in Records, Apply(x)
  PROVE  RetInv'
<1> USE DEF RetInv
<1>0. /\ batch' = batch \ {x} /\ changed' = changed \ {x} /\ x \in batch
      /\ UNCHANGED <<emails, granted, linked, erasure, erased, suppressed, gone, slipped>>
  BY DEF Apply
<1>1. \A p \in People : AddressesOf(p)' = AddressesOf(p)
  BY <1>0 DEF AddressesOf
<1>2. CASE x \in LeadIds
  <2> DEFINE row == Acted(lead[x], ActionFor(x))
             t   == Touch(lead[x])
  <2>1. WriteLead(x, row) /\ UNCHANGED person /\ lead[x].state # "absent" /\ lead[x] \in LeadRows
    BY <1>0, <1>2 DEF Apply, SweepInv, LeadInv, LeadTypes
  <2>2. /\ t \in LeadRows /\ t.state = lead[x].state /\ t.status = lead[x].status
        /\ t.named = lead[x].named /\ t.reset = lead[x].reset
    BY <2>1, Touched
  <2>3. row = [t EXCEPT !.state = "archived"] \/ row = [t EXCEPT !.named = FALSE]
    BY DEF Acted
  <2> HIDE DEF row, t
  <2>4. row \in LeadRows /\ RowKept(lead[x], row)
    <3>1. CASE row = [t EXCEPT !.state = "archived"]
      <4>1. /\ row \in LeadRows /\ row.state = "archived" /\ row.named = t.named
            /\ row.reset = t.reset
        BY <2>2, <3>1 DEF LeadRows, RowStates
      <4> QED BY <2>2, <4>1 DEF RowKept
    <3>2. CASE row = [t EXCEPT !.named = FALSE]
      <4>1. /\ row \in LeadRows /\ ~row.named /\ row.state = t.state /\ row.reset = t.reset
            /\ row.status = t.status
        BY <2>2, <3>2 DEF LeadRows
      <4> QED BY <2>1, <2>2, <4>1 DEF RowKept
    <3> QED BY <2>3, <3>1, <3>2
  <2>5. LeadInv' /\ LeadsStay
    BY <1>0, <1>2, <2>1, <2>4, WriteKeeps
  <2>6. \A k \in LeadIds : k # x => lead'[k] = lead[k]
    BY <2>1 DEF WriteLead, LeadInv, LeadTypes
  <2>7. \A y \in batch' : Protected(y)' => Protected(y)
    BY <1>0, <2>1, <2>6 DEF Protected
  <2>8. SweepInv'
    BY <1>0, <1>1, <2>1, <2>5, <2>7, SweepKept DEF SweepInv
  <2> QED BY <2>5, <2>8
<1>3. CASE x \notin LeadIds
  <2> DEFINE row == Acted(person[x], ActionFor(x))
             t   == Touch(person[x])
  <2>1. /\ x \in People /\ person' = [person EXCEPT ![x] = row] /\ UNCHANGED <<lead, promo>>
        /\ person[x].state # "absent" /\ person[x] \in PersonRows
    BY <1>0, <1>3 DEF Apply, Records, SweepInv, LeadInv, LeadTypes
  <2>2. /\ t \in PersonRows /\ t.state = person[x].state /\ t.from = person[x].from
        /\ t.stale = person[x].stale
    BY <2>1, TouchedPerson
  <2>3. row = [t EXCEPT !.state = "archived"] \/ row = [t EXCEPT !.named = FALSE]
    BY DEF Acted
  <2> HIDE DEF row, t
  <2>4. /\ row \in PersonRows /\ row.state # "absent" /\ row.from = person[x].from
        /\ row.stale = person[x].stale
    <3>1. CASE row = [t EXCEPT !.state = "archived"]
      BY <2>2, <3>1 DEF PersonRows, RowStates
    <3>2. CASE row = [t EXCEPT !.named = FALSE]
      BY <2>1, <2>2, <3>2 DEF PersonRows
    <3> QED BY <2>3, <3>1, <3>2
  <2>5. /\ person' \in [People -> PersonRows] /\ person'[x] = row
        /\ \A q \in People : q # x => person'[q] = person[q]
    BY <2>1, <2>4 DEF LeadInv, LeadTypes
  <2>6. LeadInv' /\ LeadsStay
    BY <1>0, <2>1, <2>4, <2>5, PeopleKeep
  <2>7. \A y \in batch' : Protected(y)' => Protected(y)
    BY <1>0, <2>1, <2>5 DEF SweepInv, Protected, Records
  <2>8. SweepInv'
    BY <1>0, <1>1, <2>1, <2>4, <2>5, <2>6, <2>7, SweepKept DEF SweepInv
  <2> QED BY <2>6, <2>8
<1> QED BY <1>2, <1>3

LEMMA EndHolds ==
  ASSUME RetInv, SweepFails \/ \E l \in LeadIds : Unsupported(l)
  PROVE  RetInv'
<1>1. /\ batch' = {} /\ changed' = {} /\ erasure' = NoErasure /\ UNCHANGED <<leadVars, erased>>
      /\ UNCHANGED <<emails, granted, linked, suppressed, gone, slipped>>
  BY DEF SweepFails, Unsupported, EndSweep
<1>2. LeadInv'
  BY <1>1, NothingWritten DEF RetInv, leadVars
<1> QED BY <1>1, <1>2 DEF RetInv, SweepInv, Spared, Captured, NoErasure

LEMMA StepHolds == RetInv /\ [Next]_vars => RetInv'
<1> SUFFICES ASSUME RetInv, [Next]_vars PROVE RetInv'
  OBVIOUS
<1>1. CASE UNCHANGED vars
  <2>1. LeadInv'
    BY <1>1, NothingWritten DEF vars, leadVars, RetInv
  <2>2. SweepInv'
    BY <1>1 DEF vars, leadVars, RetInv, SweepInv, Spared, Protected, Captured, AddressesOf
  <2> QED BY <2>1, <2>2 DEF RetInv
<1>2. CASE SweepStep
  BY <1>2, ApplyHolds, CaptureHolds, CommitErasureHolds, EndHolds DEF SweepStep
<1> QED
  BY <1>1, <1>2, LeadStepHolds, PersonStepHolds, SetHoldHolds, AgesHolds, CollectHolds, EndHolds DEF Next

LEMMA Invariance == Spec => []RetInv
  BY InitHolds, StepHolds, PTL DEF Spec

\* One lead makes one person, unless a promotion acted on what it had read before, or a patch
\* undid the lead's status.
THEOREM TwinsComeOfStaleReads == Spec => []TwinsNeedStaleRead
  BY Invariance, PTL DEF RetInv, LeadInv

\* An erasure suppresses what it deletes and takes the source lead with it, but for the
\* addresses a merge moves meanwhile.
THEOREM ErasuresAreWhole == Spec => []ErasureIsWhole
<1>1. RetInv => ErasureIsWhole
  BY DEF RetInv, LeadInv, SweepInv, ErasedWithLead, ErasureIsWhole
<1> QED BY <1>1, Invariance, PTL

\* The sweep touches no record that a hold, a promotion, a consent or a deal protects, unless
\* the record changed after it was collected.
THEOREM SweepsSpareTheProtected == Spec => SweepSparesProtected
<1>1. RetInv /\ [Next]_vars => [SweptIsUnprotected]_vars
  BY DEF RetInv, SweepInv, Spared, SweptIsUnprotected
<1> QED BY <1>1, Invariance, PTL DEF Spec, SweepSparesProtected
=============================================================================
