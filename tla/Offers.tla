------------------------------- MODULE Offers -------------------------------
(***************************************************************************)
(* The offers of one deal (modules/offers): drafts with line items, send,     *)
(* regeneration into the next revision, rendering to a PDF, and acceptance,    *)
(* which writes the offer's gross to the deal from inside the offer's own       *)
(* transaction but in a transaction of the deals module.  Quantities,           *)
(* discounts, taxes, currencies and FX are abstracted: a line is its net price.  *)
(***************************************************************************)
EXTENDS Naturals, FiniteSets, FiniteSetsExt

CONSTANTS
  Ids,        \* offer ids
  Numbers,    \* offer_number
  Positions,  \* positions of lines
  Prices,     \* prices a person, a signal or a product can give
  Accepts,    \* POST /accept requests
  Renders,    \* POST /render requests
  Signals,    \* a retriever is wired, so a regeneration may bring lines of its own
  MaxVersion, \* bound on the deal's version
  Nothing     \* no number, no lock holder, no offer

ASSUME OffersAssumption ==
  /\ Prices \subseteq Nat \ {0} /\ Signals \in BOOLEAN
  /\ Nothing \notin Ids \cup Numbers \cup Accepts

VARIABLES
  offer,   \* the offer table with its line items
  blob,    \* the PDF stored under an offer's key: the total it shows; 0 when none
  deal,    \* the deal row: amount, version, archived
  lock,    \* the accept that holds an offer's row lock
  acc,     \* the accepts
  ren,     \* the renders
  syncs    \* history: what accepts wrote to the deal

vars == <<offer, blob, deal, lock, acc, ren, syncs>>

Lines    == [pos : Positions, price : Prices \cup {0}, grounded : BOOLEAN]
Statuses == {"none", "draft", "sent", "accepted", "superseded"}

TypeOK ==
  /\ offer \in [Ids -> [status : Statuses, num : Numbers \cup {Nothing}, rev : Nat,
                        lines : SUBSET Lines, gross : Nat, pdf : BOOLEAN]]
  /\ blob \in [Ids -> Nat]
  /\ deal \in [amount : Nat, version : Nat, archived : BOOLEAN]
  /\ lock \in [Ids -> Accepts \cup {Nothing}]
  /\ acc \in [Accepts -> [pc : {"new", "locked", "read", "synced", "done"},
                          o : Ids \cup {Nothing}, version : Nat]]
  /\ ren \in [Renders -> [pc : {"new", "read", "put", "done"}, o : Ids \cup {Nothing}, gross : Nat,
                          draft : BOOLEAN]]
  /\ syncs \subseteq [o : Ids, amount : Nat]

Init ==
  /\ offer = [o \in Ids |-> [status |-> "none", num |-> Nothing, rev |-> 0,
                             lines |-> {}, gross |-> 0, pdf |-> FALSE]]
  /\ blob = [o \in Ids |-> 0]
  /\ deal = [amount |-> 0, version |-> 1, archived |-> FALSE]
  /\ lock = [o \in Ids |-> Nothing]
  /\ acc = [r \in Accepts |-> [pc |-> "new", o |-> Nothing, version |-> 0]]
  /\ ren = [r \in Renders |-> [pc |-> "new", o |-> Nothing, gross |-> 0, draft |-> FALSE]]
  /\ syncs = {}

Sum(lines) == MapThenSumSet(LAMBDA l : l.price, lines)

\* The offer after its lines have changed: recomputeOfferTotals.
WithLines(row, lines) == [row EXCEPT !.lines = lines, !.gross = Sum(lines)]

\* Mutant: a sent offer can be written too.
IsDraft_OrSent(o) == lock[o] = Nothing /\ offer[o].status \in {"draft", "sent"}

\* lockOfferForMutation and requireDraft: the row lock is free and the status is draft.
IsDraft(o) == lock[o] = Nothing /\ offer[o].status = "draft"
IsSent(o)  == lock[o] = Nothing /\ offer[o].status = "sent"

OffersOnly == UNCHANGED <<blob, deal, lock, acc, ren, syncs>>

-----------------------------------------------------------------------------
\* OfferStore.Create: revision 1 of a number the workspace does not have yet.
Create(o, n) ==
  /\ offer[o].status = "none" /\ \A q \in Ids : offer[q].num # n
  /\ offer' = [offer EXCEPT ![o] = [@ EXCEPT !.status = "draft", !.num = n, !.rev = 1]]
  /\ OffersOnly

\* Line items: Create (the price is the caller's, or the product's as read before the
\* transaction), Update of the price, Delete.
AddLine(o, pos, price) ==
  /\ IsDraft(o) /\ \A l \in offer[o].lines : l.pos # pos
  /\ offer' = [offer EXCEPT ![o] = WithLines(@, @.lines \cup
                 {[pos |-> pos, price |-> price, grounded |-> TRUE]})]
  /\ OffersOnly

EditLine(o, l, price) ==
  /\ IsDraft(o) /\ l \in offer[o].lines
  /\ offer' = [offer EXCEPT ![o] =
                 WithLines(@, (@.lines \ {l}) \cup {[l EXCEPT !.price = price]})]
  /\ OffersOnly

DeleteLine(o, l) ==
  /\ IsDraft(o) /\ l \in offer[o].lines
  /\ offer' = [offer EXCEPT ![o] = WithLines(@, @.lines \ {l})]
  /\ OffersOnly

\* OfferStore.Send.
Send(o) ==
  /\ IsDraft(o)
  /\ offer' = [offer EXCEPT ![o].status = "sent"]
  /\ OffersOnly

\* cloneOfferForRegenerate: the INSERT of the lines names neither price_grounded, whose
\* default is true, nor the evidence.
Cloned(l) == [l EXCEPT !.grounded = TRUE]

\* The lines the grounded signals bring, with a price or with none.
Proposals == {{[pos |-> p, price |-> x, grounded |-> x # 0]} :
                p \in Positions, x \in Prices \cup {0}}

\* Mutant: the clone keeps the asset of the offer it was made of.
NextRevisions_Pdf(o) ==
  {[offer[o] EXCEPT !.status = "draft", !.rev = @ + 1, !.lines = {Cloned(l) : l \in @}]}

\* The draft that follows offer o: its lines and totals, or the lines of the signals.
NextRevisions(o) ==
  LET next == [offer[o] EXCEPT !.status = "draft", !.rev = @ + 1, !.pdf = FALSE,
                               !.lines = {Cloned(l) : l \in @}]
  IN  {next} \cup IF Signals THEN {WithLines(next, ls) : ls \in Proposals} ELSE {}

\* Mutant: the UPDATE to superseded is forgotten.
Superseded_Not(row) == row

\* supersedeAndAuditRegenerate.
Superseded(row) == [row EXCEPT !.status = "superseded"]

\* OfferStore.Regenerate; offer_number_rev_unique refuses a second row of a revision.
Regenerate(o, new) ==
  /\ IsSent(o) /\ offer[new].status = "none"
  /\ \A q \in Ids : offer[q].num = offer[o].num => offer[q].rev # offer[o].rev + 1
  /\ \E row \in NextRevisions(o) :
       offer' = [offer EXCEPT ![new] = row, ![o] = Superseded(@)]
  /\ OffersOnly

-----------------------------------------------------------------------------
\* The handler's render: PrepareRender reads under the row lock; the PDF goes to the blob
\* store under the offer's and revision's key; SetPdfAssetRef looks at no status.
PrepareRender(r, o) ==
  /\ ren[r].pc = "new" /\ offer[o].status # "none" /\ lock[o] = Nothing
  /\ ren' = [ren EXCEPT ![r] = [pc |-> "read", o |-> o, gross |-> offer[o].gross,
                                draft |-> offer[o].status = "draft"]]
  /\ UNCHANGED <<offer, blob, deal, lock, acc, syncs>>

PutPdf(r) ==
  /\ ren[r].pc = "read"
  /\ blob' = [blob EXCEPT ![ren[r].o] = ren[r].gross]
  /\ ren' = [ren EXCEPT ![r].pc = "put"]
  /\ UNCHANGED <<offer, deal, lock, acc, syncs>>

SetPdfAssetRef(r) ==
  /\ ren[r].pc = "put" /\ lock[ren[r].o] = Nothing
  /\ offer' = [offer EXCEPT ![ren[r].o].pdf = TRUE]
  /\ ren' = [ren EXCEPT ![r].pc = "done"]
  /\ UNCHANGED <<blob, deal, lock, acc, syncs>>

-----------------------------------------------------------------------------
\* OfferStore.Accept: the lock, the status test and the (uncommitted) UPDATE.
AcceptLock(r, o) ==
  /\ acc[r].pc = "new" /\ IsSent(o)
  /\ lock' = [lock EXCEPT ![o] = r]
  /\ acc' = [acc EXCEPT ![r].pc = "locked", ![r].o = o]
  /\ UNCHANGED <<offer, blob, deal, ren, syncs>>

\* dealStore.Get, in its own transaction: a live deal.
AcceptReadDeal(r) ==
  /\ acc[r].pc = "locked" /\ ~deal.archived
  /\ acc' = [acc EXCEPT ![r].pc = "read", ![r].version = deal.version]
  /\ UNCHANGED <<offer, blob, deal, lock, ren, syncs>>

\* The deal with the gross of offer o as its amount.
Synced(o) == [deal EXCEPT !.version = @ + 1, !.amount = offer[o].gross]

\* dealStore.Update commits by itself; it matches the version read before.
AcceptSync(r) ==
  LET o == acc[r].o IN
  /\ acc[r].pc = "read" /\ ~deal.archived /\ deal.version = acc[r].version
  /\ deal.version < MaxVersion
  /\ deal' = Synced(o)
  /\ syncs' = syncs \cup {[o |-> o, amount |-> deal'.amount]}
  /\ acc' = [acc EXCEPT ![r].pc = "synced"]
  /\ UNCHANGED <<offer, blob, lock, ren>>

\* The events, the audit rows and the commit.
AcceptCommit(r) ==
  /\ acc[r].pc = "synced"
  /\ offer' = [offer EXCEPT ![acc[r].o].status = "accepted"]
  /\ lock' = [lock EXCEPT ![acc[r].o] = Nothing]
  /\ acc' = [acc EXCEPT ![r].pc = "done"]
  /\ UNCHANGED <<blob, deal, ren, syncs>>

\* An archived deal, a version skew, an error or a lost connection at any point.
AcceptFail(r) ==
  /\ acc[r].pc \in {"locked", "read", "synced"}
  /\ lock' = [lock EXCEPT ![acc[r].o] = Nothing]
  /\ acc' = [acc EXCEPT ![r].pc = "done"]
  /\ UNCHANGED <<offer, blob, deal, ren, syncs>>

\* The deals module: a PATCH that does not touch the amount, an archive.
WriteDeal ==
  /\ ~deal.archived /\ deal.version < MaxVersion
  /\ \E gone \in BOOLEAN :
       deal' = [deal EXCEPT !.version = @ + 1, !.archived = gone]
  /\ UNCHANGED <<offer, blob, lock, acc, ren, syncs>>

Next ==
  \/ \E o \in Ids :
       \/ \E n \in Numbers : Create(o, n)
       \/ \E pos \in Positions, price \in Prices : AddLine(o, pos, price)
       \/ \E l \in offer[o].lines : DeleteLine(o, l) \/ \E price \in Prices : EditLine(o, l, price)
       \/ Send(o) \/ \E new \in Ids : Regenerate(o, new)
  \/ \E r \in Renders : \/ \E o \in Ids : PrepareRender(r, o)
                        \/ PutPdf(r) \/ SetPdfAssetRef(r)
  \/ \E r \in Accepts : \/ \E o \in Ids : AcceptLock(r, o)
                        \/ AcceptReadDeal(r) \/ AcceptSync(r) \/ AcceptCommit(r) \/ AcceptFail(r)
  \/ WriteDeal

Spec == Init /\ [][Next]_vars

-----------------------------------------------------------------------------
\* The stored totals of every offer are those of its lines (OFFER-AC-3), through every line
\* write and both ways of regenerating; recomputeOfferTotals is called by hand in each.
TotalsReconcile == \A o \in Ids : offer[o].gross = Sum(offer[o].lines)

\* A step leaves the lines and totals of an offer that was sent, and makes it no draft.
SentStays ==
  \A o \in Ids : offer[o].status \notin {"none", "draft"} =>
    /\ offer'[o].lines = offer[o].lines /\ offer'[o].gross = offer[o].gross
    /\ offer'[o].status # "draft"

\* A sent offer is an immutable record (OFFER-AC-1): its lines and totals stay, whatever
\* drafts, regenerations and accepts do meanwhile, and it never becomes a draft again.
SentIsFrozen == [][SentStays]_vars

\* Of the revisions of one number at most one is open or accepted; the others are superseded,
\* so a buyer cannot accept a revision that was replaced.
OneRevisionStands ==
  \A o, q \in Ids :
    /\ o # q /\ offer[o].num = offer[q].num
    /\ {offer[o].status, offer[q].status} \subseteq {"draft", "sent", "accepted"}
    => offer[o].num = Nothing

\* An accepted offer has given its gross to the deal (OFFER-AC-2): no accept commits over a
\* deal write that was skipped, lost a version race, or carried another amount.
AcceptedWasSynced ==
  \A o \in Ids : offer[o].status = "accepted" => [o |-> o, amount |-> offer[o].gross] \in syncs

\* "Accept flips a sent offer to accepted, syncs the parent deal ...": the two go together, so
\* with no accept of an offer under way, the deal took its amount only if it is accepted.
SyncsAreAccepted ==
  \A s \in syncs : lock[s.o] = Nothing => offer[s.o].status = "accepted"

\* OFFER-AC-12a: the rendered totals of an offer that was sent equal its computed totals.
PdfShowsTotals ==
  \A o \in Ids : offer[o].pdf /\ offer[o].status \in {"sent", "accepted"}
                 => blob[o] = offer[o].gross

\* What the exception to it is: a PDF that shows other totals than its sent, accepted or
\* superseded offer has shows those that a render of this very offer read when it was a draft,
\* whether that render ended before the offer was sent or not (PrepareRender, SetPdfAssetRef).
StalePdfIsADrafts ==
  \A o \in Ids :
    offer[o].pdf /\ offer[o].status \notin {"none", "draft"} /\ blob[o] # offer[o].gross =>
      \E r \in Renders : /\ ren[r].pc \in {"put", "done"} /\ ren[r].o = o
                         /\ ren[r].draft /\ ren[r].gross = blob[o]

\* Migration 000078: price_grounded is false on a line whose 0 stands for a price nobody gave.
NoPriceIsUngrounded == \A o \in Ids : \A l \in offer[o].lines : l.price = 0 => ~l.grounded
=============================================================================
