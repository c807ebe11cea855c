---------------------------- MODULE DealCreation ----------------------------
(***************************************************************************)
(* POST /deals with an Idempotency-Key (modules/deals): the handler looks     *)
(* for an audit row of an earlier create with the key, and creates the deal    *)
(* in a later transaction when there is none.  A client whose answer is lost   *)
(* sends the request again with the same key.                                 *)
(***************************************************************************)
EXTENDS Naturals, FiniteSets

CONSTANTS
  NewDeals,   \* deal ids, each made by one create
  Posts,      \* POSTs, retries among them
  Keys,       \* values of the header
  NoKey       \* no header, no deal

ASSUME CreationAssumption == NoKey \notin Keys \cup NewDeals

VARIABLES
  rows,           \* deals inserted
  archivedDeals,  \* of those, the ones with archived_at set
  createAudit,    \* create rows of audit_log, with evidence.idempotency_key
  post            \* the requests

creationVars == <<rows, archivedDeals, createAudit, post>>

\* began   creates that had committed when the request arrived
PostRows == [pc : {"new", "missed", "created", "replayed", "failed"},
             key : Keys \cup {NoKey}, deal : NewDeals \cup {NoKey}, began : SUBSET NewDeals]

CreationTypeOK ==
  /\ rows \subseteq NewDeals /\ archivedDeals \subseteq rows
  /\ createAudit \subseteq [deal : rows, key : Keys \cup {NoKey}]
  /\ post \in [Posts -> PostRows]

CreationInit ==
  /\ rows = {} /\ archivedDeals = {} /\ createAudit = {}
  /\ post = [p \in Posts |-> [pc |-> "new", key |-> NoKey, deal |-> NoKey, began |-> {}]]

WithKey(k) == {d \in rows : [deal |-> d, key |-> k] \in createAudit}

\* create up to its transaction: FindByIdempotencyKey, when the header is there.
\* Of several rows it takes the one whose transaction began last, which may be any;
\* a deal that is found and archived since is a not_found error.
Find(p, k) ==
  LET found == IF k = NoKey THEN {} ELSE WithKey(k)
      r     == [post[p] EXCEPT !.key = k, !.began = rows]
  IN  /\ post[p].pc = "new"
      /\ \/ found = {} /\ post' = [post EXCEPT ![p] = [r EXCEPT !.pc = "missed"]]
         \/ \E d \in found :
              post' = [post EXCEPT ![p] =
                IF d \in archivedDeals THEN [r EXCEPT !.pc = "failed"]
                ELSE [r EXCEPT !.pc = "replayed", !.deal = d]]
      /\ UNCHANGED <<rows, archivedDeals, createAudit>>

\* Mutant: the key does not reach the audit row.
Evidence_None(p) == NoKey

\* e.Evidence.
Evidence(p) == post[p].key

\* DealStore.Create: the deal, its history, event and audit row in one transaction.
CreateDeal(p, d) ==
  /\ post[p].pc = "missed"
  /\ d \notin rows
  /\ rows' = rows \cup {d}
  /\ createAudit' = createAudit \cup {[deal |-> d, key |-> Evidence(p)]}
  /\ post' = [post EXCEPT ![p].pc = "created", ![p].deal = d]
  /\ UNCHANGED archivedDeals

\* The transaction is rolled back; the client may ask again.
FailCreate(p) ==
  /\ post[p].pc = "missed"
  /\ post' = [post EXCEPT ![p].pc = "failed"]
  /\ UNCHANGED <<rows, archivedDeals, createAudit>>

ArchiveDeal(d) ==
  /\ d \in rows \ archivedDeals
  /\ archivedDeals' = archivedDeals \cup {d}
  /\ UNCHANGED <<rows, createAudit, post>>

CreationNext ==
  \/ \E p \in Posts :
       \/ \E k \in Keys \cup {NoKey} : Find(p, k)
       \/ \E d \in NewDeals : CreateDeal(p, d)
       \/ FailCreate(p)
  \/ \E d \in NewDeals : ArchiveDeal(d)

CreationSpec == CreationInit /\ [][CreationNext]_creationVars

-----------------------------------------------------------------------------
Creators(k) == {p \in Posts : post[p].key = k /\ post[p].pc = "created"}

\* Two deals for one key come only from requests that overlapped: a retry sent
\* after the first answer, or after its loss, creates nothing (DEAL-WIRE-2).
DuplicatesNeedOverlap ==
  \A k \in Keys : \A p, q \in Creators(k) : post[p].deal \notin post[q].began

\* A replay answers with a deal that was created for its own key before the
\* request arrived.
ReplayIsOwn ==
  \A p \in Posts : post[p].pc = "replayed" =>
    /\ [deal |-> post[p].deal, key |-> post[p].key] \in createAudit
    /\ post[p].deal \in post[p].began

\* docs/architecture/api-conventions.md:186 (API-CC-6): "the same key replays the
\* original status + body instead of duplicating".
OneDealPerKey == \A k \in Keys : Cardinality(WithKey(k)) <= 1
=============================================================================
