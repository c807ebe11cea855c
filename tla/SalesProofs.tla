------------------------------ MODULE SalesProofs ------------------------------
(***************************************************************************)
(* Proofs about the components that MCSales checks side by side, and about    *)
(* activities.  They share no variable, and neither do the proofs.            *)
(***************************************************************************)
EXTENDS DealCreation, Pipelines, CustomFields, Offers, Attachments, Activities,
        FiniteSetTheorems, WellFoundedInduction, TLAPS

-----------------------------------------------------------------------------
(* The creation of deals, for any number of requests, keys and deals.  The       *)
(* argument is a snapshot argument: a request that found nothing found nothing    *)
(* among the deals that had committed when it came, and later audit rows are       *)
(* about later deals.                                                               *)

\* What a request saw had committed.
BeganCommitted == \A p \in Posts : post[p].began \subseteq rows

\* A create left its audit row, with the key, in its transaction.
CreatedIsAudited ==
  \A p \in Posts :
    post[p].pc = "created" => [deal |-> post[p].deal, key |-> post[p].key] \in createAudit

\* A request that found nothing leaves nothing of its key among what it saw.
MissedNothing ==
  \A p \in Posts : post[p].pc \in {"missed", "created"} /\ post[p].key # NoKey =>
    \A d \in post[p].began : [deal |-> d, key |-> post[p].key] \notin createAudit

IInv == CreationTypeOK /\ BeganCommitted /\ CreatedIsAudited /\ MissedNothing /\ ReplayIsOwn

\* No request has come and nothing is stored.
LEMMA InitHolds == CreationInit => IInv
  BY CreationAssumption
  DEF CreationInit, IInv, CreationTypeOK, PostRows, BeganCommitted, CreatedIsAudited, MissedNothing, ReplayIsOwn

\* Find takes its snapshot: began is rows, and a miss says that none of rows has the key.
LEMMA FindHolds ==
  ASSUME IInv, NEW p \in Posts, NEW k \in Keys \cup {NoKey}, Find(p, k)
  PROVE  IInv'
<1> DEFINE found == IF k = NoKey THEN {} ELSE WithKey(k)
<1> DEFINE r == [post[p] EXCEPT !.key = k, !.began = rows]
<1>1. post \in [Posts -> PostRows] /\ rows \subseteq NewDeals
  BY DEF IInv, CreationTypeOK
<1>2. r \in PostRows /\ r.key = k /\ r.began = rows
  BY <1>1 DEF PostRows
<1>3. UNCHANGED <<rows, archivedDeals, createAudit>>
  BY DEF Find
<1>4. CASE found = {} /\ post' = [post EXCEPT ![p] = [r EXCEPT !.pc = "missed"]]
  <2>1. post'[p] = [r EXCEPT !.pc = "missed"] /\ post'[p] \in PostRows
    BY <1>1, <1>2, <1>4 DEF PostRows
  <2>2. \A q \in Posts \ {p} : post'[q] = post[q]
    BY <1>1, <1>4
  <2>3. post'[p].pc = "missed" /\ post'[p].key = k /\ post'[p].began = rows
    BY <1>2, <2>1 DEF PostRows
  <2>4. k # NoKey => \A d \in rows : [deal |-> d, key |-> k] \notin createAudit
    BY <1>4 DEF WithKey
  <2>5. CreationTypeOK'
    BY <1>1, <1>3, <1>4, <2>1, <2>2 DEF IInv, CreationTypeOK
  <2>6. BeganCommitted' /\ CreatedIsAudited' /\ MissedNothing' /\ ReplayIsOwn'
    BY <1>3, <2>2, <2>3, <2>4
    DEF IInv, BeganCommitted, CreatedIsAudited, MissedNothing, ReplayIsOwn
  <2> QED
    BY <2>5, <2>6 DEF IInv
<1>5. CASE \E d \in found : post' = [post EXCEPT ![p] =
             IF d \in archivedDeals THEN [r EXCEPT !.pc = "failed"]
             ELSE [r EXCEPT !.pc = "replayed", !.deal = d]]
  <2>1. PICK d \in found : post' = [post EXCEPT ![p] =
             IF d \in archivedDeals THEN [r EXCEPT !.pc = "failed"]
             ELSE [r EXCEPT !.pc = "replayed", !.deal = d]]
    BY <1>5
  <2>2. d \in rows /\ d \in NewDeals /\ [deal |-> d, key |-> k] \in createAudit
    BY <1>1 DEF WithKey
  <2>3. post'[p] = IF d \in archivedDeals THEN [r EXCEPT !.pc = "failed"]
                  ELSE [r EXCEPT !.pc = "replayed", !.deal = d]
    BY <1>1, <2>1
  <2>4. post'[p] \in PostRows
    BY <1>2, <2>2, <2>3 DEF PostRows
  <2>5. \A q \in Posts \ {p} : post'[q] = post[q]
    BY <1>1, <2>1
  <2>6. /\ post'[p].pc \in {"failed", "replayed"} /\ post'[p].key = k /\ post'[p].began = rows
        /\ post'[p].pc = "replayed" => post'[p].deal = d
    BY <1>2, <2>3 DEF PostRows
  <2>7. CreationTypeOK'
    BY <1>1, <1>3, <2>1, <2>4, <2>5 DEF IInv, CreationTypeOK
  <2>8. BeganCommitted' /\ CreatedIsAudited' /\ MissedNothing' /\ ReplayIsOwn'
    BY <1>3, <2>2, <2>5, <2>6
    DEF IInv, BeganCommitted, CreatedIsAudited, MissedNothing, ReplayIsOwn
  <2> QED
    BY <2>7, <2>8 DEF IInv
<1> QED
  BY <1>4, <1>5 DEF Find

\* CreateDeal adds a row of a deal that no request had seen.
LEMMA CreateHolds ==
  ASSUME IInv, NEW p \in Posts, NEW d \in NewDeals, CreateDeal(p, d)
  PROVE  IInv'
<1> DEFINE row == [deal |-> d, key |-> post[p].key]
<1>1. /\ post[p].pc = "missed" /\ d \notin rows
      /\ rows' = rows \cup {d} /\ createAudit' = createAudit \cup {row} /\ archivedDeals' = archivedDeals
      /\ post' = [post EXCEPT ![p].pc = "created", ![p].deal = d]
  BY DEF CreateDeal, Evidence
<1>2. /\ post \in [Posts -> PostRows] /\ rows \subseteq NewDeals /\ archivedDeals \subseteq rows
      /\ createAudit \subseteq [deal : rows, key : Keys \cup {NoKey}]
  BY DEF IInv, CreationTypeOK
<1>3. /\ post'[p] = [post[p] EXCEPT !.pc = "created", !.deal = d] /\ post'[p] \in PostRows
      /\ \A q \in Posts \ {p} : post'[q] = post[q]
  BY <1>1, <1>2 DEF PostRows
<1>4. /\ post'[p].pc = "created" /\ post'[p].deal = d
      /\ post'[p].key = post[p].key /\ post'[p].began = post[p].began
  BY <1>2, <1>3 DEF PostRows
<1>5. CreationTypeOK'
  <2>1. row \in [deal : rows', key : Keys \cup {NoKey}]
    BY <1>1, <1>2 DEF PostRows
  <2>2. [deal : rows, key : Keys \cup {NoKey}] \subseteq [deal : rows', key : Keys \cup {NoKey}]
    BY <1>1
  <2> QED
    BY <1>1, <1>2, <1>3, <2>1, <2>2 DEF CreationTypeOK
<1>6. rows \subseteq rows' /\ createAudit \subseteq createAudit' /\ row \in createAudit'
  BY <1>1
<1>7. BeganCommitted'
  BY <1>3, <1>4, <1>6 DEF IInv, BeganCommitted
<1>8. CreatedIsAudited'
  <2> SUFFICES ASSUME NEW q \in Posts, post'[q].pc = "created"
               PROVE  [deal |-> post'[q].deal, key |-> post'[q].key] \in createAudit'
    BY DEF CreatedIsAudited
  <2>1. CASE q = p
    BY <1>4, <1>6, <2>1
  <2>2. CASE q # p
    <3>1. post'[q] = post[q]
      BY <1>3, <2>2
    <3>2. [deal |-> post[q].deal, key |-> post[q].key] \in createAudit
      BY <3>1 DEF IInv, CreatedIsAudited
    <3> QED
      BY <1>6, <3>1, <3>2
  <2> QED
    BY <2>1, <2>2
<1>9. MissedNothing'
  <2> SUFFICES ASSUME NEW q \in Posts,
                      post'[q].pc \in {"missed", "created"}, post'[q].key # NoKey,
                      NEW e \in post'[q].began
               PROVE  [deal |-> e, key |-> post'[q].key] \notin createAudit'
    BY DEF MissedNothing
  <2>1. post'[q].key = post[q].key /\ post'[q].began = post[q].began
    BY <1>3, <1>4
  <2>2. post[q].pc \in {"missed", "created"}
    BY <1>1, <1>3
  <2>3. [deal |-> e, key |-> post[q].key] \notin createAudit
    BY <2>1, <2>2 DEF IInv, MissedNothing
  <2>4. e # d
    BY <1>1, <2>1 DEF IInv, BeganCommitted
  <2> QED
    BY <1>1, <2>1, <2>3, <2>4
<1>10. ReplayIsOwn'
  <2> SUFFICES ASSUME NEW q \in Posts, post'[q].pc = "replayed"
               PROVE  /\ [deal |-> post'[q].deal, key |-> post'[q].key] \in createAudit'
                      /\ post'[q].deal \in post'[q].began
    BY DEF ReplayIsOwn
  <2>1. post'[q] = post[q]
    BY <1>3, <1>4
  <2>2. [deal |-> post[q].deal, key |-> post[q].key] \in createAudit /\ post[q].deal \in post[q].began
    BY <2>1 DEF IInv, ReplayIsOwn
  <2> QED
    BY <1>6, <2>1, <2>2
<1> QED
  BY <1>5, <1>7, <1>8, <1>9, <1>10 DEF IInv

\* A request that fails drops out of every part of the invariant.
LEMMA FailHolds ==
  ASSUME IInv, NEW p \in Posts, FailCreate(p)
  PROVE  IInv'
<1>1. post \in [Posts -> PostRows] /\ UNCHANGED <<rows, archivedDeals, createAudit>>
  BY DEF IInv, CreationTypeOK, FailCreate
<1>2. post' = [post EXCEPT ![p].pc = "failed"]
  BY DEF FailCreate
<1>3. /\ post'[p] = [post[p] EXCEPT !.pc = "failed"] /\ post'[p] \in PostRows
      /\ \A q \in Posts \ {p} : post'[q] = post[q]
  BY <1>1, <1>2 DEF PostRows
<1>4. post'[p].pc = "failed" /\ post'[p].began = post[p].began
  BY <1>1, <1>3 DEF PostRows
<1>5. CreationTypeOK'
  BY <1>1, <1>2, <1>3 DEF IInv, CreationTypeOK
<1>6. BeganCommitted' /\ CreatedIsAudited' /\ MissedNothing' /\ ReplayIsOwn'
  BY <1>1, <1>3, <1>4 DEF IInv, BeganCommitted, CreatedIsAudited, MissedNothing, ReplayIsOwn
<1> QED
  BY <1>5, <1>6 DEF IInv

\* Every step keeps the invariant.
LEMMA StepHolds == IInv /\ [CreationNext]_creationVars => IInv'
<1> SUFFICES ASSUME IInv, [CreationNext]_creationVars PROVE IInv'
  OBVIOUS
<1>1. CASE UNCHANGED creationVars
  BY <1>1 DEF creationVars, IInv, CreationTypeOK, BeganCommitted, CreatedIsAudited, MissedNothing, ReplayIsOwn
<1>2. ASSUME NEW p \in Posts, NEW k \in Keys \cup {NoKey}, Find(p, k) PROVE IInv'
  BY <1>2, FindHolds
<1>3. ASSUME NEW p \in Posts, NEW d \in NewDeals, CreateDeal(p, d) PROVE IInv'
  BY <1>3, CreateHolds
<1>4. ASSUME NEW p \in Posts, FailCreate(p) PROVE IInv'
  BY <1>4, FailHolds
<1>5. ASSUME NEW d \in NewDeals, ArchiveDeal(d) PROVE IInv'
  BY <1>5
  DEF ArchiveDeal, IInv, CreationTypeOK, BeganCommitted, CreatedIsAudited, MissedNothing, ReplayIsOwn
<1> QED
  BY <1>1, <1>2, <1>3, <1>4, <1>5 DEF CreationNext

\* The invariant holds in every reachable state.
THEOREM Invariant == CreationSpec => []IInv
  BY InitHolds, StepHolds, PTL DEF CreationSpec

\* Two deals for one key come only from requests that overlapped (create's read of
\* the audit log before its transaction).
THEOREM OverlapIsTheOnlyCause == CreationSpec => []DuplicatesNeedOverlap
<1>1. IInv => DuplicatesNeedOverlap
  <2> SUFFICES ASSUME IInv, NEW k \in Keys, NEW p \in Creators(k), NEW q \in Creators(k)
               PROVE  post[p].deal \notin post[q].began
    BY DEF DuplicatesNeedOverlap
  <2>1. [deal |-> post[p].deal, key |-> k] \in createAudit
    BY DEF IInv, CreatedIsAudited, Creators
  <2>2. \A d \in post[q].began : [deal |-> d, key |-> k] \notin createAudit
    BY CreationAssumption DEF IInv, MissedNothing, Creators
  <2> QED
    BY <2>1, <2>2
<1> QED
  BY <1>1, Invariant, PTL

\* A replay answers with a deal that was created for its own key before it arrived
\* (FindByIdempotencyKey).
THEOREM ReplaysAreOwn == CreationSpec => []ReplayIsOwn
<1>1. IInv => ReplayIsOwn
  BY DEF IInv
<1> QED
  BY <1>1, Invariant, PTL

-----------------------------------------------------------------------------
(* Custom fields, for any number of workspaces, slugs, texts and writers. *)

(* The invariant. *)

\* What an open call took for active was a field then and is one still, or has been retired
\* since: no row of the catalog is deleted.
ReadersKnow ==
  \A w \in Writers : writer[w].pc = "read" =>
    /\ writer[w].tenant \in Tenants
    /\ \A s \in writer[w].active :
         \/ catalog[writer[w].tenant][s].status = "active"
         \/ /\ catalog[writer[w].tenant][s].status = "retired"
            /\ s \in writer[w].outdated

FieldsInv == FieldsTypeOK /\ ColumnsMatchCatalog /\ ReadersKnow

LEMMA FieldsInitHolds == FieldsInit => FieldsInv
<1> SUFFICES ASSUME FieldsInit PROVE FieldsInv
  OBVIOUS
<1>1. FieldsTypeOK
  <2>1. [status |-> "none", picklist |-> FALSE, allowed |-> {}] \in Fields
    BY DEF Fields
  <2>2. [exists |-> FALSE, allowed |-> {}] \in Columns
    BY DEF Columns
  <2>3. [pc |-> "new", tenant |-> Null, active |-> {}, outdated |-> {}] \in WriterRows
    BY DEF WriterRows
  <2> QED
    BY <2>1, <2>2, <2>3 DEF FieldsInit, FieldsTypeOK
<1>2. \A t \in Tenants, s \in Slugs : catalog[t][s].status = "none" /\ value[t][s] = Null
  BY DEF FieldsInit
<1>3. \A s \in Slugs : ~column[s].exists /\ Owners(s) = {}
  BY <1>2 DEF FieldsInit, Owners
<1>4. ColumnsMatchCatalog
  BY <1>2, <1>3 DEF ColumnsMatchCatalog
<1>5. ReadersKnow
  BY DEF FieldsInit, ReadersKnow
<1> QED
  BY <1>1, <1>4, <1>5 DEF FieldsInv

-----------------------------------------------------------------------------
(* Updates of one entry. *)

LEMMA ColumnTyped ==
  ASSUME FieldsTypeOK, NEW s \in Slugs, NEW row \in Columns,
         column' = [column EXCEPT ![s] = row]
  PROVE  /\ column' \in [Slugs -> Columns]
         /\ column'[s] = row
         /\ \A z \in Slugs \ {s} : column'[z] = column[z]
  BY DEF FieldsTypeOK

\* Only the workspace whose entry changes can begin or cease to own the slug.
LEMMA OwnersElsewhere ==
  ASSUME NEW t \in Tenants, NEW s \in Slugs,
         \A u \in Tenants, z \in Slugs : u # t \/ z # s => catalog'[u][z] = catalog[u][z]
  PROVE  /\ \A z \in Slugs \ {s} : Owners(z)' = Owners(z)
         /\ \A u \in Tenants \ {t} : u \in Owners(s)' <=> u \in Owners(s)
  BY DEF Owners

\* What a slug's entry says carries over when nothing of it changes.
MatchesAt(s) ==
  /\ column[s].exists <=> Owners(s) # {}
  /\ \A t \in Owners(s) :
       /\ Owners(s) = {t}
       /\ column[s].allowed = catalog[t][s].allowed
       /\ value[t][s] \in catalog[t][s].allowed \cup {Null}
  /\ \A t \in Tenants \ Owners(s) : value[t][s] = Null

LEMMA MatchesElsewhere ==
  ASSUME NEW z \in Slugs, MatchesAt(z), Owners(z)' = Owners(z), column'[z] = column[z],
         \A t \in Tenants : catalog'[t][z] = catalog[t][z] /\ value'[t][z] = value[t][z]
  PROVE  MatchesAt(z)'
<1>1. \A t \in Owners(z) : t \in Tenants
  BY DEF Owners
<1> QED
  BY <1>1 DEF MatchesAt

LEMMA SlugBySlug == ColumnsMatchCatalog <=> \A s \in Slugs : MatchesAt(s)
  BY DEF ColumnsMatchCatalog, MatchesAt

-----------------------------------------------------------------------------
(* The steps. *)

LEMMA CreateFieldHolds ==
  ASSUME FieldsInv, NEW t \in Tenants, NEW s \in Slugs, NEW picklist \in BOOLEAN,
         NEW options \in SUBSET Texts, CreateField(t, s, picklist, options)
  PROVE  FieldsInv'
<1> DEFINE allowed == IF picklist THEN options ELSE Texts
           row == [status |-> "active", picklist |-> picklist, allowed |-> allowed]
           col == [exists |-> TRUE, allowed |-> allowed]
<1>1. allowed \in SUBSET Texts
  OBVIOUS
<1>2. row \in Fields /\ row.status = "active" /\ row.allowed = allowed
  BY <1>1, Zenon DEF Fields
<1>3. col \in Columns /\ col.exists = TRUE /\ col.allowed = allowed
  BY <1>1, Zenon DEF Columns
<1>4. /\ ~column[s].exists /\ catalog[t][s].status = "none"
      /\ column' = [column EXCEPT ![s] = col]
      /\ catalog' = [catalog EXCEPT ![t][s] = row]
      /\ value' = value /\ writer' = writer
  BY Zenon DEF CreateField, AddColumn
<1> HIDE DEF row, col, allowed
<1>5. FieldsTypeOK /\ (\A z \in Slugs : MatchesAt(z)) /\ ReadersKnow
  BY SlugBySlug DEF FieldsInv
<1>6. /\ catalog' \in [Tenants -> [Slugs -> Fields]] /\ catalog'[t][s] = row
      /\ \A u \in Tenants, z \in Slugs : u # t \/ z # s => catalog'[u][z] = catalog[u][z]
  BY <1>2, <1>4, <1>5 DEF FieldsTypeOK
<1>7. /\ column' \in [Slugs -> Columns] /\ column'[s] = col
      /\ \A z \in Slugs \ {s} : column'[z] = column[z]
  BY <1>3, <1>4, <1>5, ColumnTyped
<1>8. FieldsTypeOK'
  BY <1>4, <1>5, <1>6, <1>7, Zenon DEF FieldsTypeOK
<1>9. ASSUME NEW z \in Slugs PROVE MatchesAt(z)'
  <2>1. CASE z = s
    <3>1. Owners(s) = {}
      BY <1>4, <1>5, Zenon DEF MatchesAt
    <3>2. \A u \in Tenants : value'[u][s] = Null
      BY <1>4, <1>5, <3>1 DEF MatchesAt
    <3>3. Owners(s)' = {t}
      BY <1>2, <1>6, <3>1, OwnersElsewhere DEF Owners
    <3>4. column'[s].exists = TRUE /\ column'[s].allowed = catalog'[t][s].allowed
      BY <1>2, <1>3, <1>6, <1>7, Zenon
    <3> QED
      BY <2>1, <3>2, <3>3, <3>4, Zenon DEF MatchesAt
  <2>2. CASE z # s
    <3>1. Owners(z)' = Owners(z) /\ column'[z] = column[z]
      BY <1>6, <1>7, <2>2, OwnersElsewhere
    <3> QED
      BY <1>4, <1>5, <1>6, <2>2, <3>1, MatchesElsewhere
  <2> QED
    BY <2>1, <2>2
<1>10. ReadersKnow'
  <2> SUFFICES ASSUME NEW w \in Writers, writer[w].pc = "read"
               PROVE  /\ writer[w].tenant \in Tenants
                      /\ \A z \in writer[w].active :
                           \/ catalog'[writer[w].tenant][z].status = "active"
                           \/ /\ catalog'[writer[w].tenant][z].status = "retired"
                              /\ z \in writer[w].outdated
    BY <1>4 DEF ReadersKnow
  <2>1. writer[w].tenant \in Tenants /\ writer[w].active \subseteq Slugs
    BY <1>5 DEF ReadersKnow, FieldsTypeOK, WriterRows
  <2> SUFFICES ASSUME NEW z \in writer[w].active
               PROVE  \/ catalog'[writer[w].tenant][z].status = "active"
                      \/ /\ catalog'[writer[w].tenant][z].status = "retired"
                         /\ z \in writer[w].outdated
    BY <2>1
  <2>2. CASE writer[w].tenant = t /\ z = s
    BY <1>2, <1>6, <2>2
  <2>3. CASE ~(writer[w].tenant = t /\ z = s)
    <3>1. catalog'[writer[w].tenant][z] = catalog[writer[w].tenant][z]
      BY <1>6, <2>1, <2>3
    <3> QED
      BY <1>5, <2>1, <3>1 DEF ReadersKnow
  <2> QED
    BY <2>2, <2>3
<1> QED
  BY <1>8, <1>9, <1>10 DEF FieldsInv, ColumnsMatchCatalog, MatchesAt

LEMMA RetireHolds ==
  ASSUME FieldsInv, NEW t \in Tenants, NEW s \in Slugs, RetireField(t, s)
  PROVE  FieldsInv'
<1> DEFINE row == [catalog[t][s] EXCEPT !.status = "retired"]
           late(w) == writer[w].tenant = t /\ writer[w].pc = "read" /\ s \in writer[w].active
<1>1. FieldsTypeOK /\ (\A z \in Slugs : MatchesAt(z)) /\ ReadersKnow
  BY SlugBySlug DEF FieldsInv
<1>2. row \in Fields /\ row.status = "retired" /\ row.allowed = catalog[t][s].allowed
  <2>1. catalog[t][s] \in Fields
    BY <1>1 DEF FieldsTypeOK
  <2> QED
    BY <2>1, Zenon DEF Fields
<1>3. /\ catalog[t][s].status # "none"
      /\ catalog' = [catalog EXCEPT ![t][s] = row]
      /\ writer' = [w \in Writers |-> IF late(w) THEN [writer[w] EXCEPT !.outdated = @ \cup {s}]
                                                 ELSE writer[w]]
      /\ column' = column /\ value' = value
  BY DEF RetireField
<1> HIDE DEF row
<1>4. /\ catalog' \in [Tenants -> [Slugs -> Fields]] /\ catalog'[t][s] = row
      /\ \A u \in Tenants, z \in Slugs : u # t \/ z # s => catalog'[u][z] = catalog[u][z]
  BY <1>1, <1>2, <1>3 DEF FieldsTypeOK
<1>5. /\ writer' \in [Writers -> WriterRows]
      /\ \A w \in Writers :
           /\ writer'[w].pc = writer[w].pc /\ writer'[w].tenant = writer[w].tenant
           /\ writer'[w].active = writer[w].active /\ writer[w].outdated \subseteq writer'[w].outdated
           /\ late(w) => s \in writer'[w].outdated
  <2>1. ASSUME NEW w \in Writers
        PROVE  /\ writer'[w] \in WriterRows
               /\ writer'[w].pc = writer[w].pc /\ writer'[w].tenant = writer[w].tenant
               /\ writer'[w].active = writer[w].active /\ writer[w].outdated \subseteq writer'[w].outdated
               /\ late(w) => s \in writer'[w].outdated
    <3>1. writer[w] \in WriterRows
      BY <1>1 DEF FieldsTypeOK
    <3> QED
      BY <1>3, <3>1 DEF WriterRows
  <2> QED
    BY <1>3, <2>1
<1>6. FieldsTypeOK'
  BY <1>1, <1>3, <1>4, <1>5, Zenon DEF FieldsTypeOK
<1>7. ASSUME NEW z \in Slugs PROVE MatchesAt(z)'
  <2>1. Owners(z)' = Owners(z)
    BY <1>2, <1>3, <1>4 DEF Owners
  <2>2. \A u \in Tenants : catalog'[u][z].allowed = catalog[u][z].allowed
    BY <1>2, <1>4
  <2>3. \A u \in Owners(z) : u \in Tenants
    BY DEF Owners
  <2> QED
    BY <1>1, <1>3, <2>1, <2>2, <2>3 DEF MatchesAt
<1>8. ReadersKnow'
  <2> SUFFICES ASSUME NEW w \in Writers, writer'[w].pc = "read"
               PROVE  /\ writer'[w].tenant \in Tenants
                      /\ \A z \in writer'[w].active :
                           \/ catalog'[writer'[w].tenant][z].status = "active"
                           \/ /\ catalog'[writer'[w].tenant][z].status = "retired"
                              /\ z \in writer'[w].outdated
    BY DEF ReadersKnow
  <2>1. /\ writer[w].pc = "read" /\ writer[w].tenant \in Tenants
        /\ writer'[w].tenant = writer[w].tenant /\ writer'[w].active = writer[w].active
        /\ writer[w].active \subseteq Slugs
    BY <1>1, <1>5 DEF ReadersKnow, FieldsTypeOK, WriterRows
  <2> SUFFICES ASSUME NEW z \in writer[w].active
               PROVE  \/ catalog'[writer[w].tenant][z].status = "active"
                      \/ /\ catalog'[writer[w].tenant][z].status = "retired"
                         /\ z \in writer'[w].outdated
    BY <2>1
  <2>2. CASE writer[w].tenant = t /\ z = s
    BY <1>2, <1>4, <1>5, <2>1, <2>2
  <2>3. CASE ~(writer[w].tenant = t /\ z = s)
    <3>1. catalog'[writer[w].tenant][z] = catalog[writer[w].tenant][z]
      BY <1>4, <2>1, <2>3
    <3> QED
      BY <1>1, <1>5, <2>1, <3>1 DEF ReadersKnow
  <2> QED
    BY <2>2, <2>3
<1> QED
  BY <1>6, <1>7, <1>8 DEF FieldsInv, ColumnsMatchCatalog, MatchesAt

\* The new CHECK holds of every row of every workspace, or the statement fails.
LEMMA SetOptionsHolds ==
  ASSUME FieldsInv, NEW t \in Tenants, NEW s \in Slugs, NEW options \in SUBSET Texts,
         SetOptions(t, s, options)
  PROVE  FieldsInv'
<1> DEFINE row == [catalog[t][s] EXCEPT !.allowed = options]
           col == [column[s] EXCEPT !.allowed = options]
<1>1. FieldsTypeOK /\ (\A z \in Slugs : MatchesAt(z)) /\ ReadersKnow
  BY SlugBySlug DEF FieldsInv
<1>2. row \in Fields /\ row.status = catalog[t][s].status /\ row.allowed = options
  <2>1. catalog[t][s] \in Fields
    BY <1>1 DEF FieldsTypeOK
  <2> QED
    BY <2>1, Zenon DEF Fields
<1>3. col \in Columns /\ (col.exists <=> column[s].exists) /\ col.allowed = options
  <2>1. column[s] \in Columns
    BY <1>1 DEF FieldsTypeOK
  <2> QED
    BY <2>1, Zenon DEF Columns
<1>4. /\ catalog[t][s].status # "none" /\ Validates(s, options)
      /\ column' = [column EXCEPT ![s] = col]
      /\ catalog' = [catalog EXCEPT ![t][s] = row]
      /\ value' = value /\ writer' = writer
  BY DEF SetOptions
<1> HIDE DEF row, col
<1>5. /\ catalog' \in [Tenants -> [Slugs -> Fields]] /\ catalog'[t][s] = row
      /\ \A u \in Tenants, z \in Slugs : u # t \/ z # s => catalog'[u][z] = catalog[u][z]
  BY <1>1, <1>2, <1>4 DEF FieldsTypeOK
<1>6. /\ column' \in [Slugs -> Columns] /\ column'[s] = col
      /\ \A z \in Slugs \ {s} : column'[z] = column[z]
  BY <1>1, <1>3, <1>4, ColumnTyped
<1>7. FieldsTypeOK'
  BY <1>1, <1>4, <1>5, <1>6, Zenon DEF FieldsTypeOK
<1>8. \A u \in Tenants, z \in Slugs : catalog'[u][z].status = catalog[u][z].status
  BY <1>2, <1>5
<1>9. ASSUME NEW z \in Slugs PROVE MatchesAt(z)'
  <2>0. Owners(z)' = Owners(z) /\ \A u \in Owners(z) : u \in Tenants
    BY <1>8 DEF Owners
  <2>1. CASE z = s
    <3>1. Owners(s) = {t}
      <4>1. t \in Owners(s)
        BY <1>4 DEF Owners
      <4> QED
        BY <1>1, <4>1 DEF MatchesAt
    <3>2. column'[s].exists <=> Owners(s) # {}
      BY <1>1, <1>3, <1>6, Zenon DEF MatchesAt
    <3>3. column'[s].allowed = options /\ catalog'[t][s].allowed = options
      BY <1>2, <1>3, <1>5, <1>6, Zenon
    <3>4. value'[t][s] \in options \cup {Null}
      BY <1>4 DEF Validates
    <3>5. \A u \in Tenants \ Owners(s) : value'[u][s] = Null
      BY <1>1, <1>4 DEF MatchesAt
    <3> QED
      BY <2>0, <2>1, <3>1, <3>2, <3>3, <3>4, <3>5, Zenon DEF MatchesAt
  <2>2. CASE z # s
    BY <1>1, <1>4, <1>5, <1>6, <2>0, <2>2, MatchesElsewhere
  <2> QED
    BY <2>1, <2>2
<1>10. ReadersKnow'
  BY <1>1, <1>4, <1>8 DEF ReadersKnow, FieldsTypeOK, WriterRows
<1> QED
  BY <1>7, <1>9, <1>10 DEF FieldsInv, ColumnsMatchCatalog, MatchesAt

LEMMA ReadHolds ==
  ASSUME FieldsInv, NEW w \in Writers, NEW t \in Tenants, ReadColumns(w, t)
  PROVE  FieldsInv'
<1> USE DEF FieldsInv, FieldsTypeOK
<1> DEFINE read == [writer[w] EXCEPT !.pc = "read", !.tenant = t, !.active = ActiveColumns(t)]
<1>1. /\ read \in WriterRows /\ read.pc = "read" /\ read.tenant = t
      /\ read.active = ActiveColumns(t)
  BY DEF WriterRows, ActiveColumns
<1>2. writer' = [writer EXCEPT ![w] = read] /\ UNCHANGED <<catalog, column, value>>
  BY DEF ReadColumns
<1> HIDE DEF read
<1>3. /\ writer' \in [Writers -> WriterRows] /\ writer'[w] = read
      /\ \A x \in Writers \ {w} : writer'[x] = writer[x]
  BY <1>1, <1>2
<1>4. ColumnsMatchCatalog'
  BY <1>2 DEF ColumnsMatchCatalog, Owners
<1>5. ReadersKnow'
  BY <1>1, <1>2, <1>3 DEF ReadersKnow, ActiveColumns
<1> QED
  BY <1>2, <1>3, <1>4, <1>5

\* A call that writes or fails is done, and the other calls know what they knew.
LEMMA DoneKnows ==
  ASSUME FieldsTypeOK, ReadersKnow, NEW w \in Writers, catalog' = catalog,
         writer' = [writer EXCEPT ![w].pc = "done"]
  PROVE  writer' \in [Writers -> WriterRows] /\ ReadersKnow'
<1>1. [writer[w] EXCEPT !.pc = "done"] \in WriterRows
  BY DEF FieldsTypeOK, WriterRows
<1>2. writer' \in [Writers -> WriterRows]
  BY <1>1 DEF FieldsTypeOK
<1>3. writer'[w].pc = "done" /\ \A x \in Writers \ {w} : writer'[x] = writer[x]
  BY DEF FieldsTypeOK, WriterRows
<1> QED
  BY <1>2, <1>3 DEF ReadersKnow

\* What a call writes is in a column it took for active, which its workspace still owns, and
\* is what the CHECK allows now.
LEMMA WriteHolds ==
  ASSUME FieldsInv, NEW w \in Writers, NEW s \in Slugs, NEW x \in Texts, WriteRecord(w, s, x)
  PROVE  FieldsInv'
<1> DEFINE t == writer[w].tenant
<1>1. FieldsTypeOK /\ (\A z \in Slugs : MatchesAt(z)) /\ ReadersKnow
  BY SlugBySlug DEF FieldsInv
<1>2. /\ writer[w].pc = "read" /\ t \in Tenants
      /\ writer' = [writer EXCEPT ![w].pc = "done"] /\ catalog' = catalog /\ column' = column
  BY <1>1 DEF WriteRecord, ReadersKnow
<1>3. writer' \in [Writers -> WriterRows] /\ ReadersKnow'
  BY <1>1, <1>2, DoneKnows
<1>4. CASE s \notin writer[w].active
  <2>1. value' = value
    BY <1>4 DEF WriteRecord
  <2> QED
    BY <1>1, <1>2, <1>3, <2>1 DEF FieldsInv, FieldsTypeOK, ColumnsMatchCatalog, MatchesAt, Owners
<1>5. CASE s \in writer[w].active
  <2>1. x \in column[s].allowed /\ value' = [value EXCEPT ![t][s] = x]
    BY <1>5 DEF WriteRecord
  <2> HIDE DEF t
  <2>2. /\ value' \in [Tenants -> [Slugs -> Texts \cup {Null}]] /\ value'[t][s] = x
        /\ \A u \in Tenants, z \in Slugs : u # t \/ z # s => value'[u][z] = value[u][z]
    BY <1>1, <1>2, <2>1 DEF FieldsTypeOK
  <2>3. t \in Owners(s)
    BY <1>1, <1>2, <1>5 DEF ReadersKnow, Owners, t
  <2>4. ASSUME NEW z \in Slugs PROVE MatchesAt(z)'
    <3>1. Owners(z)' = Owners(z) /\ \A u \in Owners(z) : u \in Tenants
      BY <1>2 DEF Owners
    <3>2. MatchesAt(z)
      BY <1>1
    <3>3. CASE z = s
      <4>1. Owners(s) = {t} /\ column[s].allowed = catalog[t][s].allowed
        BY <1>1, <2>3 DEF MatchesAt
      <4> QED
        BY <1>2, <2>1, <2>2, <3>1, <3>2, <3>3, <4>1 DEF MatchesAt
    <3>4. CASE z # s
      BY <1>2, <2>2, <3>1, <3>2, <3>4, MatchesElsewhere
    <3> QED
      BY <3>3, <3>4
  <2>5. FieldsTypeOK'
    BY <1>1, <1>2, <1>3, <2>2 DEF FieldsTypeOK
  <2> QED
    BY <1>3, <2>4, <2>5 DEF FieldsInv, ColumnsMatchCatalog, MatchesAt
<1> QED
  BY <1>4, <1>5

LEMMA FailCallHolds ==
  ASSUME FieldsInv, NEW w \in Writers, FailWrite(w)
  PROVE  FieldsInv'
<1>1. /\ writer' = [writer EXCEPT ![w].pc = "done"]
      /\ catalog' = catalog /\ column' = column /\ value' = value
  BY DEF FailWrite
<1>2. writer' \in [Writers -> WriterRows] /\ ReadersKnow'
  BY <1>1, DoneKnows DEF FieldsInv
<1> QED
  BY <1>1, <1>2 DEF FieldsInv, FieldsTypeOK, ColumnsMatchCatalog, Owners

LEMMA FieldsStepHolds == FieldsInv /\ [FieldsNext]_fieldVars => FieldsInv'
<1> SUFFICES ASSUME FieldsInv, [FieldsNext]_fieldVars PROVE FieldsInv'
  OBVIOUS
<1>1. CASE UNCHANGED fieldVars
  BY <1>1 DEF fieldVars, FieldsInv, FieldsTypeOK, ColumnsMatchCatalog, Owners, ReadersKnow
<1> QED
  BY <1>1, CreateFieldHolds, RetireHolds, SetOptionsHolds, ReadHolds, WriteHolds, FailCallHolds
  DEF FieldsNext

-----------------------------------------------------------------------------
(* The results. *)

\* The inductive invariant holds in every reachable state.
THEOREM FieldsInvariant == FieldsSpec => []FieldsInv
  BY FieldsInitHolds, FieldsStepHolds, PTL DEF FieldsSpec

\* The shared table and the catalogs of all workspaces agree: a column belongs to one field,
\* and its CHECK and the records keep to that field's options (create.go, options.go).
THEOREM TableMatchesCatalogs == FieldsSpec => []ColumnsMatchCatalog
<1>1. FieldsInv => ColumnsMatchCatalog
  BY DEF FieldsInv
<1> QED
  BY <1>1, FieldsInvariant, PTL

\* A retired field changes only by a write whose transaction read the active columns before
\* the retirement (columns.go, ActiveColumns).
THEOREM RetiredIsFrozen == FieldsSpec => RetiredWrittenOnlyByOverlap
<1> DEFINE Written(t, s) ==
             catalog[t][s].status = "retired" /\ value'[t][s] # value[t][s] =>
               \E w \in Writers : /\ writer[w].pc = "read" /\ writer'[w].pc = "done"
                                  /\ writer[w].tenant = t /\ s \in writer[w].outdated
<1>1. ASSUME FieldsInv, FieldsNext, NEW t \in Tenants, NEW s \in Slugs PROVE Written(t, s)
  <2> SUFFICES ASSUME catalog[t][s].status = "retired", value'[t][s] # value[t][s]
               PROVE  \E w \in Writers : /\ writer[w].pc = "read" /\ writer'[w].pc = "done"
                                         /\ writer[w].tenant = t /\ s \in writer[w].outdated
    OBVIOUS
  <2>1. PICK w \in Writers, z \in Slugs, x \in Texts : WriteRecord(w, z, x)
    BY <1>1 DEF FieldsNext, RetireField, SetOptions, CreateField, FailWrite, ReadColumns
  <2>2. /\ writer[w].pc = "read" /\ writer[w].tenant \in Tenants
        /\ writer' = [writer EXCEPT ![w].pc = "done"]
    BY <1>1, <2>1 DEF WriteRecord, FieldsInv, ReadersKnow
  <2>3. z \in writer[w].active /\ value' = [value EXCEPT ![writer[w].tenant][z] = x]
    BY <2>1 DEF WriteRecord
  <2>4. writer[w].tenant = t /\ z = s
    BY <1>1, <2>2, <2>3 DEF FieldsInv, FieldsTypeOK
  <2>5. writer'[w].pc = "done"
    BY <1>1, <2>2 DEF FieldsInv, FieldsTypeOK, WriterRows
  <2>6. s \in writer[w].outdated
    BY <1>1, <2>2, <2>3, <2>4 DEF FieldsInv, ReadersKnow
  <2> QED
    BY <2>2, <2>4, <2>5, <2>6
<1>2. FieldsInv /\ [FieldsNext]_fieldVars =>
        [\A t \in Tenants, s \in Slugs : Written(t, s)]_fieldVars
  BY <1>1
<1> QED
  BY <1>2, FieldsInvariant, PTL DEF FieldsSpec, RetiredWrittenOnlyByOverlap

-----------------------------------------------------------------------------
(* The offers of a deal, for any number of offers, accepts and renders.  Sums of   *)
(* lines are values of a set that nothing is said about, so that what is proved     *)
(* rests on who may write a row, and not on arithmetic.                              *)

Totals    == {0} \cup {Sum(ls) : ls \in SUBSET Lines}
OfferRows == [status : Statuses, num : Numbers \cup {Nothing}, rev : Nat, lines : SUBSET Lines,
              gross : Totals, pdf : BOOLEAN]
DealRows   == [amount : Totals, version : Nat, archived : BOOLEAN]
AcceptRows == [pc : {"new", "locked", "read", "synced", "done"}, o : Ids \cup {Nothing},
               version : Nat]
RenderRows == [pc : {"new", "read", "put", "done"}, o : Ids \cup {Nothing}, gross : Totals,
               draft : BOOLEAN]
Standing  == {"draft", "sent", "accepted"}
Holding   == {"locked", "read", "synced"}

OfferShape ==
  /\ offer \in [Ids -> OfferRows]
  /\ blob \in [Ids -> Totals]
  /\ deal \in DealRows
  /\ lock \in [Ids -> Accepts \cup {Nothing}]
  /\ acc \in [Accepts -> AcceptRows]
  /\ ren \in [Renders -> RenderRows]

Numbered == \A o \in Ids : offer[o].status = "none" <=> offer[o].num = Nothing

\* An accept under way holds the lock of a sent offer, and says what it wrote to the deal.
Held ==
  \A r \in Accepts : acc[r].pc \in Holding =>
    /\ acc[r].o \in Ids /\ lock[acc[r].o] = r /\ offer[acc[r].o].status = "sent"
    /\ acc[r].pc = "synced" => [o |-> acc[r].o, amount |-> offer[acc[r].o].gross] \in syncs

\* A render is of an offer that is there; one that found it sent has its totals for good.
Drawn ==
  \A r \in Renders :
    /\ ren[r].pc = "new" => ren[r].o = Nothing
    /\ ren[r].pc # "new" =>
         /\ ren[r].o \in Ids /\ offer[ren[r].o].status # "none"
         /\ ~ren[r].draft => /\ offer[ren[r].o].status # "draft"
                             /\ ren[r].gross = offer[ren[r].o].gross

\* The file under an offer's key is the one some render of it put there.
Put(o) ==
  \E r \in Renders : ren[r].pc \in {"put", "done"} /\ ren[r].o = o /\ ren[r].gross = blob[o]

PdfMade ==
  \A o \in Ids : offer[o].pdf => \E r \in Renders : ren[r].o = o /\ ren[r].pc = "done"

BlobShows == \A r \in Renders : ren[r].pc \in {"put", "done"} => Put(ren[r].o)

OfferInv ==
  /\ OfferShape /\ Numbered /\ Held /\ Drawn /\ PdfMade /\ BlobShows
  /\ OneRevisionStands /\ AcceptedWasSynced

LEMMA InitOffers == Init => OfferInv
<1> SUFFICES ASSUME Init PROVE OfferInv
  OBVIOUS
<1>1. 0 \in Totals /\ {} \in SUBSET Lines
  BY DEF Totals
<1> HIDE DEF Totals
<1>2. OfferShape
  BY <1>1 DEF Init, OfferShape, OfferRows, Statuses, DealRows, AcceptRows, RenderRows
<1>3. /\ Numbered /\ Held /\ Drawn /\ PdfMade /\ BlobShows
      /\ OneRevisionStands /\ AcceptedWasSynced
  BY DEF Init, Numbered, Held, Drawn, PdfMade, BlobShows, OneRevisionStands, AcceptedWasSynced,
         Standing, Holding
<1> QED BY <1>2, <1>3 DEF OfferInv

\* One row is written that was no offer, or was a draft, and becomes the only one of its
\* number that stands.
LEMMA DraftWrite ==
  ASSUME OfferInv, NEW o \in Ids, NEW row \in OfferRows, offer' = [offer EXCEPT ![o] = row],
         OffersOnly, offer[o].status \in {"none", "draft"}, row.status \in {"draft", "sent"},
         row.num # Nothing, row.pdf => offer[o].pdf,
         \A q \in Ids \ {o} : offer[q].num = row.num => offer[q].status \notin Standing
  PROVE  OfferInv'
<1> USE DEF OfferInv, OfferShape, OffersOnly
<1>1. offer'[o] = row /\ \A q \in Ids \ {o} : offer'[q] = offer[q]
  OBVIOUS
<1>2. OfferShape'
  OBVIOUS
<1>3. Numbered'
  BY <1>1 DEF Numbered
<1>4. Held'
  BY <1>1 DEF Held
<1>5. \A r \in Renders : ren[r].o = o => ren[r].draft
  BY OffersAssumption DEF Drawn
<1>6. Drawn'
  BY <1>1, <1>5 DEF Drawn
<1>7. PdfMade'
  BY <1>1 DEF PdfMade
<1>8. BlobShows'
  BY DEF BlobShows, Put
<1>9. OneRevisionStands'
  BY <1>1 DEF OneRevisionStands, Standing
<1>10. AcceptedWasSynced'
  BY <1>1 DEF AcceptedWasSynced
<1> QED BY <1>2, <1>3, <1>4, <1>6, <1>7, <1>8, <1>9, <1>10

\* The lines of a draft change, and its totals with them.
LEMMA LinesWrite ==
  ASSUME OfferInv, NEW o \in Ids, NEW ls \in SUBSET Lines, IsDraft(o),
         offer' = [offer EXCEPT ![o] = WithLines(@, ls)], OffersOnly
  PROVE  OfferInv'
<1> DEFINE row == WithLines(offer[o], ls)
<1>1. offer[o] \in OfferRows /\ offer[o].status = "draft" /\ offer[o].num # Nothing
  BY DEF OfferInv, OfferShape, IsDraft, Numbered
<1>2. Sum(ls) \in Totals
  BY DEF Totals
<1>3. row \in OfferRows /\ row.status = "draft" /\ row.num = offer[o].num /\ row.pdf = offer[o].pdf
  <2> DEFINE s == Sum(ls)
  <2> HIDE DEF s
  <2>1. row = [offer[o] EXCEPT !.lines = ls, !.gross = s]
    BY DEF WithLines, s
  <2>2. s \in Totals
    BY <1>2 DEF s
  <2> HIDE DEF row
  <2> QED BY <1>1, <2>1, <2>2 DEF OfferRows
<1>4. offer' = [offer EXCEPT ![o] = row]
  OBVIOUS
<1>5. \A q \in Ids \ {o} : offer[q].num = row.num => offer[q].status \notin Standing
  BY <1>1, <1>3 DEF OfferInv, OneRevisionStands, Standing
<1>6. row.num # Nothing /\ (row.pdf => offer[o].pdf)
  BY <1>1, <1>3
<1> HIDE DEF row
<1> QED BY ONLY OfferInv, OffersOnly, o \in Ids, <1>1, <1>3, <1>4, <1>5, <1>6, DraftWrite

LEMMA CreateOffer ==
  ASSUME OfferInv, NEW o \in Ids, NEW n \in Numbers, Create(o, n)
  PROVE  OfferInv'
<1> DEFINE row == [offer[o] EXCEPT !.status = "draft", !.num = n, !.rev = 1]
<1>1. offer[o] \in OfferRows
  BY DEF OfferInv, OfferShape
<1>2. row \in OfferRows /\ row.status = "draft" /\ row.num = n /\ row.pdf = offer[o].pdf
  BY <1>1 DEF OfferRows, Statuses
<1>3. /\ offer' = [offer EXCEPT ![o] = row] /\ OffersOnly /\ offer[o].status = "none"
      /\ \A q \in Ids : offer[q].num # n
  BY DEF Create
<1>4. n # Nothing
  BY OffersAssumption
<1> HIDE DEF row
<1> QED BY <1>2, <1>3, <1>4, DraftWrite

LEMMA SendOffer ==
  ASSUME OfferInv, NEW o \in Ids, Send(o)
  PROVE  OfferInv'
<1> DEFINE row == [offer[o] EXCEPT !.status = "sent"]
<1>1. offer[o] \in OfferRows /\ offer[o].status = "draft" /\ offer[o].num # Nothing
  BY DEF OfferInv, OfferShape, Send, IsDraft, Numbered
<1>2. row \in OfferRows /\ row.status = "sent" /\ row.num = offer[o].num /\ row.pdf = offer[o].pdf
  BY <1>1 DEF OfferRows, Statuses
<1>3. offer' = [offer EXCEPT ![o] = row] /\ OffersOnly
  BY DEF Send
<1>4. \A q \in Ids \ {o} : offer[q].num = row.num => offer[q].status \notin Standing
  BY <1>1, <1>2 DEF OfferInv, OneRevisionStands, Standing
<1> HIDE DEF row
<1> QED BY <1>1, <1>2, <1>3, <1>4, DraftWrite

\* The next revision takes the place of the one it was made of.
LEMMA RegenerateOffer ==
  ASSUME OfferInv, NEW o \in Ids, NEW new \in Ids, Regenerate(o, new)
  PROVE  OfferInv'
<1> USE DEF OfferInv, OfferShape
<1>1. /\ offer[o].status = "sent" /\ lock[o] = Nothing /\ offer[new].status = "none" /\ new # o
      /\ offer[o].num # Nothing /\ offer[o] \in OfferRows
  BY DEF Regenerate, IsSent, Numbered
<1>2. PICK row \in NextRevisions(o) : offer' = [offer EXCEPT ![new] = row, ![o] = Superseded(@)]
  BY DEF Regenerate
<1>3. /\ row \in OfferRows /\ row.status = "draft" /\ row.num = offer[o].num /\ ~row.pdf
  <2> DEFINE ls == {Cloned(l) : l \in offer[o].lines}
             next == [offer[o] EXCEPT !.status = "draft", !.rev = @ + 1, !.pdf = FALSE,
                                      !.lines = ls]
  <2>1. ls \in SUBSET Lines
    <3>1. \A l \in Lines : Cloned(l) \in Lines
      BY DEF Lines, Cloned
    <3>2. offer[o].lines \subseteq Lines
      BY <1>1 DEF OfferRows
    <3> QED BY <3>1, <3>2
  <2>2. next \in OfferRows /\ next.status = "draft" /\ next.num = offer[o].num /\ ~next.pdf
    <3> DEFINE n == offer[o].rev + 1
    <3>1. n \in Nat
      BY <1>1 DEF OfferRows
    <3> HIDE DEF ls, n
    <3>2. next = [offer[o] EXCEPT !.status = "draft", !.rev = n, !.pdf = FALSE, !.lines = ls]
      BY DEF n
    <3> HIDE DEF next
    <3> QED BY <1>1, <2>1, <3>1, <3>2 DEF OfferRows, Statuses
  <2>3. row = next \/ \E ps \in Proposals : row = WithLines(next, ps)
    BY <1>2 DEF NextRevisions
  <2> HIDE DEF next
  <2>4. CASE row = next
    BY <2>2, <2>4
  <2>5. ASSUME NEW ps \in Proposals, row = WithLines(next, ps)
        PROVE  row \in OfferRows /\ row.status = "draft" /\ row.num = offer[o].num /\ ~row.pdf
    <3>1. ps \in SUBSET Lines
      <4>1. PICK p \in Positions, y \in Prices \cup {0} :
              ps = {[pos |-> p, price |-> y, grounded |-> y # 0]}
        BY DEF Proposals
      <4> DEFINE b == y # 0
                 l == [pos |-> p, price |-> y, grounded |-> b]
      <4>2. b \in BOOLEAN
        OBVIOUS
      <4>3. l \in Lines
        <5> HIDE DEF b
        <5> QED BY <4>2 DEF Lines
      <4> QED BY <4>1, <4>3
    <3> DEFINE s == Sum(ps)
    <3>2. s \in Totals
      BY <3>1 DEF Totals
    <3>3. row = [next EXCEPT !.lines = ps, !.gross = s]
      BY <2>5 DEF WithLines
    <3> HIDE DEF s
    <3> QED BY <2>2, <3>1, <3>2, <3>3 DEF OfferRows
  <2> QED BY <2>3, <2>4, <2>5
<1>4. /\ offer'[new] = row /\ offer'[o] = Superseded(offer[o])
      /\ \A q \in Ids \ {o, new} : offer'[q] = offer[q]
  BY <1>1, <1>2
<1>5. /\ offer'[o] \in OfferRows /\ offer'[o].status = "superseded" /\ offer'[o].num = offer[o].num
      /\ offer'[o].gross = offer[o].gross /\ offer'[o].pdf = offer[o].pdf
  BY <1>1, <1>4 DEF Superseded, OfferRows, Statuses
<1>6. UNCHANGED <<blob, deal, lock, acc, ren, syncs>>
  BY DEF Regenerate, OffersOnly
<1>7. offer' \in [Ids -> OfferRows]
  <2>1. offer' = [q \in Ids |-> offer'[q]]
    BY <1>2
  <2>2. \A q \in Ids : offer'[q] \in OfferRows
    BY <1>3, <1>4, <1>5
  <2> QED BY <2>1, <2>2
<1>8. OfferShape'
  BY <1>6, <1>7
<1>9. Numbered'
  BY <1>1, <1>3, <1>4, <1>5 DEF Numbered
<1>10. Held'
  <2>1. \A r \in Accepts : acc[r].pc \in Holding => acc[r].o # o /\ acc[r].o # new
    <3> SUFFICES ASSUME NEW r \in Accepts, acc[r].pc \in Holding
                 PROVE  acc[r].o # o /\ acc[r].o # new
      OBVIOUS
    <3>1. lock[acc[r].o] = r /\ offer[acc[r].o].status = "sent"
      BY DEF Held
    <3>2. r # Nothing
      BY OffersAssumption
    <3> QED BY <1>1, <3>1, <3>2
  <2> QED BY <1>4, <1>6, <2>1 DEF Held
<1>11. \A r \in Renders : ren[r].o # new
  BY <1>1, OffersAssumption DEF Drawn
<1>12. Drawn'
  BY <1>1, <1>4, <1>5, <1>6, <1>11 DEF Drawn
<1>13. PdfMade'
  BY <1>3, <1>4, <1>5, <1>6 DEF PdfMade
<1>14. BlobShows'
  BY <1>6 DEF BlobShows, Put
<1>15. OneRevisionStands'
  <2> SUFFICES ASSUME NEW p \in Ids, NEW q \in Ids, p # q, offer'[p].num = offer'[q].num,
                      {offer'[p].status, offer'[q].status} \subseteq {"draft", "sent", "accepted"}
               PROVE  offer'[p].num = Nothing
    BY DEF OneRevisionStands
  <2>1. p # o /\ q # o
    BY <1>5
  <2>2. CASE p = new
    BY <1>1, <1>3, <1>4, <2>1, <2>2 DEF OneRevisionStands
  <2>3. CASE q = new
    BY <1>1, <1>3, <1>4, <2>1, <2>3 DEF OneRevisionStands
  <2>4. CASE p # new /\ q # new
    BY <1>4, <2>1, <2>4 DEF OneRevisionStands
  <2> QED BY <2>2, <2>3, <2>4
<1>16. AcceptedWasSynced'
  BY <1>3, <1>4, <1>5, <1>6 DEF AcceptedWasSynced
<1> QED BY <1>8, <1>9, <1>10, <1>12, <1>13, <1>14, <1>15, <1>16

\* One render goes on; offers keep all but the reference to the PDF.
LEMMA RenderStep ==
  ASSUME OfferInv, NEW r \in Renders, PutPdf(r) \/ SetPdfAssetRef(r) \/ \E o \in Ids : PrepareRender(r, o)
  PROVE  OfferInv'
<1> USE DEF OfferInv, OfferShape
<1>1. ASSUME NEW o \in Ids, PrepareRender(r, o) PROVE OfferInv'
  <2> DEFINE row == [pc |-> "read", o |-> o, gross |-> offer[o].gross,
                     draft |-> offer[o].status = "draft"]
  <2>1. /\ ren[r].pc = "new" /\ offer[o].status # "none" /\ ren' = [ren EXCEPT ![r] = row]
        /\ UNCHANGED <<offer, blob, deal, lock, acc, syncs>>
    BY <1>1 DEF PrepareRender
  <2> DEFINE d == offer[o].status = "draft"
  <2>2. d \in BOOLEAN
    OBVIOUS
  <2>3. row.pc = "read" /\ row.o = o /\ row.gross = offer[o].gross /\ row.draft = d
    OBVIOUS
  <2>4. row \in RenderRows
    <3>1. offer[o].gross \in Totals
      BY DEF OfferRows
    <3> QED BY <3>1 DEF RenderRows
  <2>5. row.draft <=> offer[o].status = "draft"
    OBVIOUS
  <2> HIDE DEF row, d
  <2>6. ren'[r] = row /\ \A q \in Renders \ {r} : ren'[q] = ren[q]
    BY <2>1
  <2>7. OfferShape'
    BY <2>1, <2>4
  <2>8. Drawn'
    BY <2>1, <2>3, <2>5, <2>6 DEF Drawn
  <2>9. PdfMade'
    BY <2>1, <2>6 DEF PdfMade
  <2>10. BlobShows'
    <3> SUFFICES ASSUME NEW q \in Renders, ren'[q].pc \in {"put", "done"}
                 PROVE  Put(ren[q].o)'
      BY <2>3, <2>6 DEF BlobShows, Put
    <3>1. q # r /\ ren'[q] = ren[q]
      BY <2>3, <2>6
    <3>2. PICK z \in Renders : /\ ren[z].pc \in {"put", "done"} /\ ren[z].o = ren[q].o
                               /\ ren[z].gross = blob[ren[q].o]
      BY <3>1 DEF BlobShows, Put
    <3>3. z # r /\ ren'[z] = ren[z]
      BY <2>1, <2>6, <3>2
    <3> QED BY <2>1, <3>1, <3>2, <3>3 DEF Put
  <2>11. Numbered' /\ Held' /\ OneRevisionStands' /\ AcceptedWasSynced'
    BY <2>1 DEF Numbered, Held, OneRevisionStands, AcceptedWasSynced
  <2> QED BY <2>7, <2>8, <2>9, <2>10, <2>11
<1>2. CASE PutPdf(r)
  <2> DEFINE x == ren[r].o
  <2>1. /\ ren[r].pc = "read" /\ blob' = [blob EXCEPT ![x] = ren[r].gross]
        /\ ren' = [ren EXCEPT ![r].pc = "put"] /\ UNCHANGED <<offer, deal, lock, acc, syncs>>
    BY <1>2 DEF PutPdf
  <2>2. /\ ren'[r].pc = "put" /\ ren'[r].o = x /\ ren'[r].draft = ren[r].draft
        /\ ren'[r].gross = ren[r].gross
        /\ \A q \in Renders \ {r} : ren'[q] = ren[q]
        /\ ren' \in [Renders -> RenderRows]
    BY <2>1 DEF RenderRows
  <2>3. x \in Ids /\ ren[r].gross \in Totals
    BY <2>1 DEF Drawn, RenderRows
  <2>4. OfferShape'
    BY <2>1, <2>2, <2>3
  <2>5. Drawn'
    BY <2>1, <2>2 DEF Drawn
  <2>6. PdfMade'
    BY <2>1, <2>2 DEF PdfMade
  <2>7. blob'[x] = ren[r].gross /\ \A q \in Ids \ {x} : blob'[q] = blob[q]
    BY <2>1, <2>3
  <2>8. BlobShows'
    <3>1. Put(x)'
      BY <2>2, <2>7 DEF Put
    <3>2. ASSUME NEW q \in Renders, ren[q].pc \in {"put", "done"}, ren[q].o # x
          PROVE  Put(ren[q].o)'
      <4>1. PICK z \in Renders : /\ ren[z].pc \in {"put", "done"} /\ ren[z].o = ren[q].o
                                 /\ ren[z].gross = blob[ren[q].o]
        BY <3>2 DEF BlobShows, Put
      <4>2. z # r /\ q # r /\ ren'[z] = ren[z] /\ ren'[q] = ren[q] /\ ren[q].o \in Ids
        BY <2>1, <2>2, <3>2, <4>1 DEF Drawn
      <4> QED BY <2>7, <3>2, <4>1, <4>2 DEF Put
    <3> QED BY <2>2, <3>1, <3>2 DEF BlobShows
  <2>9. Numbered' /\ Held' /\ OneRevisionStands' /\ AcceptedWasSynced'
    BY <2>1 DEF Numbered, Held, OneRevisionStands, AcceptedWasSynced
  <2> QED BY <2>4, <2>5, <2>6, <2>8, <2>9
<1>3. CASE SetPdfAssetRef(r)
  <2> DEFINE x == ren[r].o
  <2>1. /\ ren[r].pc = "put" /\ offer' = [offer EXCEPT ![x].pdf = TRUE]
        /\ ren' = [ren EXCEPT ![r].pc = "done"] /\ UNCHANGED <<blob, deal, lock, acc, syncs>>
    BY <1>3 DEF SetPdfAssetRef
  <2>2. /\ ren'[r].pc = "done" /\ ren'[r].o = x /\ ren'[r].draft = ren[r].draft
        /\ ren'[r].gross = ren[r].gross
        /\ \A q \in Renders \ {r} : ren'[q] = ren[q]
        /\ ren' \in [Renders -> RenderRows]
    BY <2>1 DEF RenderRows
  <2>3. x \in Ids
    BY <2>1 DEF Drawn
  <2>4. OfferShape'
    <3>1. offer' \in [Ids -> OfferRows]
      BY <2>1, <2>3 DEF OfferRows
    <3> QED BY <2>1, <2>2, <3>1
  <2>5. \A q \in Ids : /\ offer'[q].status = offer[q].status /\ offer'[q].num = offer[q].num
                       /\ offer'[q].gross = offer[q].gross
                       /\ q # x => offer'[q] = offer[q]
    BY <2>1, <2>3 DEF OfferRows
  <2>6. Drawn'
    BY <2>1, <2>2, <2>3, <2>5 DEF Drawn
  <2>7. PdfMade'
    BY <2>2, <2>5 DEF PdfMade
  <2>8. BlobShows'
    <3>1. \A q \in Renders : /\ ren'[q].o = ren[q].o /\ ren'[q].gross = ren[q].gross
                              /\ ren'[q].pc \in {"put", "done"} <=> ren[q].pc \in {"put", "done"}
      BY <2>1, <2>2
    <3> QED BY <2>1, <3>1 DEF BlobShows, Put
  <2>9. Numbered' /\ Held' /\ OneRevisionStands' /\ AcceptedWasSynced'
    BY <2>1, <2>5 DEF Numbered, Held, OneRevisionStands, AcceptedWasSynced
  <2> QED BY <2>4, <2>6, <2>7, <2>8, <2>9
<1> QED BY <1>1, <1>2, <1>3

\* What an accept does before and after the deal's write, and the writes of the deal.
LEMMA AcceptStep ==
  ASSUME OfferInv, NEW r \in Accepts,
         \/ \E o \in Ids : AcceptLock(r, o)
         \/ AcceptReadDeal(r) \/ AcceptSync(r) \/ AcceptCommit(r) \/ AcceptFail(r)
  PROVE  OfferInv'
<1> USE DEF OfferInv, OfferShape
<1>1. ASSUME NEW o \in Ids, AcceptLock(r, o) PROVE OfferInv'
  <2>1. /\ acc[r].pc = "new" /\ offer[o].status = "sent" /\ lock[o] = Nothing
        /\ lock' = [lock EXCEPT ![o] = r] /\ UNCHANGED <<offer, blob, deal, ren, syncs>>
        /\ acc' = [acc EXCEPT ![r].pc = "locked", ![r].o = o]
    BY <1>1 DEF AcceptLock, IsSent
  <2>2. /\ acc'[r].pc = "locked" /\ acc'[r].o = o /\ acc' \in [Accepts -> AcceptRows]
        /\ \A q \in Accepts \ {r} : acc'[q] = acc[q]
    BY <2>1 DEF AcceptRows
  <2>3. OfferShape'
    BY <2>1, <2>2
  <2>4. Held'
    BY <2>1, <2>2, OffersAssumption DEF Held, Holding
  <2>5. /\ Numbered' /\ Drawn' /\ PdfMade' /\ BlobShows' /\ OneRevisionStands'
        /\ AcceptedWasSynced'
    BY <2>1 DEF Numbered, Drawn, PdfMade, BlobShows, Put, OneRevisionStands,
                AcceptedWasSynced
  <2> QED BY <2>3, <2>4, <2>5
<1>2. CASE AcceptReadDeal(r)
  <2>1. /\ acc[r].pc = "locked" /\ acc' = [acc EXCEPT ![r].pc = "read", ![r].version = deal.version]
        /\ UNCHANGED <<offer, blob, deal, lock, ren, syncs>>
    BY <1>2 DEF AcceptReadDeal
  <2>2. /\ acc'[r].pc = "read" /\ acc'[r].o = acc[r].o /\ acc' \in [Accepts -> AcceptRows]
        /\ \A q \in Accepts \ {r} : acc'[q] = acc[q]
    <3>1. deal.version \in Nat
      BY DEF DealRows
    <3> QED BY <2>1, <3>1 DEF AcceptRows
  <2>3. OfferShape'
    BY <2>1, <2>2
  <2>4. Held'
    <3>1. ASSUME NEW q \in Accepts, acc'[q].pc \in Holding
          PROVE  /\ acc[q].pc \in Holding /\ acc'[q].o = acc[q].o
                 /\ acc'[q].pc = "synced" => acc[q].pc = "synced"
      BY <2>1, <2>2, <3>1 DEF Holding
    <3> QED BY <2>1, <3>1 DEF Held
  <2>5. /\ Numbered' /\ Drawn' /\ PdfMade' /\ BlobShows' /\ OneRevisionStands'
        /\ AcceptedWasSynced'
    BY <2>1 DEF Numbered, Drawn, PdfMade, BlobShows, Put, OneRevisionStands,
                AcceptedWasSynced
  <2> QED BY <2>3, <2>4, <2>5
<1>3. CASE AcceptSync(r)
  <2> DEFINE x == acc[r].o
  <2>1. /\ acc[r].pc = "read" /\ deal' = Synced(x) /\ acc' = [acc EXCEPT ![r].pc = "synced"]
        /\ syncs' = syncs \cup {[o |-> x, amount |-> deal'.amount]}
        /\ UNCHANGED <<offer, blob, lock, ren>>
    BY <1>3 DEF AcceptSync
  <2>2. x \in Ids /\ offer[x].gross \in Totals
    BY <2>1 DEF Held, Holding, OfferRows
  <2>3. deal' \in DealRows /\ deal'.amount = offer[x].gross
    <3> DEFINE n == deal.version + 1
               a == offer[x].gross
    <3>1. n \in Nat
      BY DEF DealRows
    <3>2. deal' = [deal EXCEPT !.version = n, !.amount = a] /\ a \in Totals
      BY <2>1, <2>2 DEF Synced
    <3> HIDE DEF n, a
    <3>3. deal' \in DealRows /\ deal'.amount = a
      BY <3>1, <3>2 DEF DealRows
    <3> QED BY <3>3 DEF a
  <2>4. /\ acc'[r].pc = "synced" /\ acc'[r].o = x /\ acc' \in [Accepts -> AcceptRows]
        /\ \A q \in Accepts \ {r} : acc'[q] = acc[q]
    BY <2>1 DEF AcceptRows
  <2>5. OfferShape'
    BY <2>1, <2>3, <2>4
  <2>6. Held'
    BY <2>1, <2>3, <2>4 DEF Held, Holding
  <2>7. /\ Numbered' /\ Drawn' /\ PdfMade' /\ BlobShows' /\ OneRevisionStands'
        /\ AcceptedWasSynced'
    BY <2>1 DEF Numbered, Drawn, PdfMade, BlobShows, Put, OneRevisionStands,
                AcceptedWasSynced
  <2> QED BY <2>5, <2>6, <2>7
<1>4. CASE AcceptCommit(r)
  <2> DEFINE x == acc[r].o
  <2>1. /\ acc[r].pc = "synced" /\ offer' = [offer EXCEPT ![x].status = "accepted"]
        /\ lock' = [lock EXCEPT ![x] = Nothing] /\ acc' = [acc EXCEPT ![r].pc = "done"]
        /\ UNCHANGED <<blob, deal, ren, syncs>>
    BY <1>4 DEF AcceptCommit
  <2>2. /\ x \in Ids /\ lock[x] = r /\ offer[x].status = "sent"
        /\ [o |-> x, amount |-> offer[x].gross] \in syncs
    BY <2>1 DEF Held, Holding
  <2>3. /\ acc'[r].pc = "done" /\ acc' \in [Accepts -> AcceptRows]
        /\ \A q \in Accepts \ {r} : acc'[q] = acc[q]
    BY <2>1 DEF AcceptRows
  <2>4. OfferShape'
    <3> DEFINE row == [offer[x] EXCEPT !.status = "accepted"]
    <3>1. row \in OfferRows
      BY <2>2 DEF OfferRows, Statuses
    <3>2. offer' = [offer EXCEPT ![x] = row]
      BY <2>1
    <3> HIDE DEF row
    <3>3. offer' \in [Ids -> OfferRows]
      BY <2>2, <3>1, <3>2
    <3> QED BY <2>1, <2>2, <2>3, <3>3
  <2>5. /\ offer'[x].status = "accepted" /\ offer'[x].num = offer[x].num
        /\ offer'[x].gross = offer[x].gross /\ offer'[x].pdf = offer[x].pdf
        /\ \A q \in Ids \ {x} : offer'[q] = offer[q]
    BY <2>1, <2>2 DEF OfferRows
  <2>6. Numbered'
    BY <2>2, <2>5 DEF Numbered
  <2>7. Held'
    BY <2>1, <2>2, <2>3, <2>5 DEF Held, Holding
  <2>8. Drawn'
    BY <2>1, <2>2, <2>5 DEF Drawn
  <2>9. PdfMade'
    BY <2>1, <2>2, <2>5 DEF PdfMade
  <2>10. BlobShows'
    BY <2>1 DEF BlobShows, Put
  <2>11. OneRevisionStands'
    <3> SUFFICES ASSUME NEW p \in Ids, NEW q \in Ids, p # q, offer'[p].num = offer'[q].num,
                        {offer'[p].status, offer'[q].status} \subseteq {"draft", "sent", "accepted"}
                 PROVE  offer[p].num = Nothing
      BY <2>2, <2>5 DEF OneRevisionStands
    <3>1. /\ offer[p].num = offer[q].num
          /\ {offer[p].status, offer[q].status} \subseteq {"draft", "sent", "accepted"}
      BY <2>2, <2>5
    <3> QED BY <3>1 DEF OneRevisionStands
  <2>12. AcceptedWasSynced'
    BY <2>1, <2>2, <2>5 DEF AcceptedWasSynced
  <2> QED BY <2>4, <2>6, <2>7, <2>8, <2>9, <2>10, <2>11, <2>12
<1>5. CASE AcceptFail(r)
  <2> DEFINE x == acc[r].o
  <2>1. /\ acc[r].pc \in Holding /\ lock' = [lock EXCEPT ![x] = Nothing]
        /\ acc' = [acc EXCEPT ![r].pc = "done"] /\ UNCHANGED <<offer, blob, deal, ren, syncs>>
    BY <1>5 DEF AcceptFail, Holding
  <2>2. x \in Ids /\ lock[x] = r
    BY <2>1 DEF Held
  <2>3. /\ acc'[r].pc = "done" /\ acc' \in [Accepts -> AcceptRows]
        /\ \A q \in Accepts \ {r} : acc'[q] = acc[q]
    BY <2>1 DEF AcceptRows
  <2>4. OfferShape'
    BY <2>1, <2>2, <2>3
  <2>5. Held'
    BY <2>1, <2>2, <2>3 DEF Held, Holding
  <2>6. /\ Numbered' /\ Drawn' /\ PdfMade' /\ BlobShows' /\ OneRevisionStands'
        /\ AcceptedWasSynced'
    BY <2>1 DEF Numbered, Drawn, PdfMade, BlobShows, Put, OneRevisionStands,
                AcceptedWasSynced
  <2> QED BY <2>4, <2>5, <2>6
<1> QED BY <1>1, <1>2, <1>3, <1>4, <1>5

\* What a draft's line may become.
LEMMA EditedLines ==
  ASSUME NEW ls \in SUBSET Lines, NEW l \in ls, NEW price \in Prices
  PROVE  (ls \ {l}) \cup {[l EXCEPT !.price = price]} \in SUBSET Lines
  BY DEF Lines

LEMMA NextOffers == OfferInv /\ [Next]_vars => OfferInv'
<1> SUFFICES ASSUME OfferInv, [Next]_vars PROVE OfferInv'
  OBVIOUS
<1>0. \A o \in Ids : offer[o].lines \in SUBSET Lines
  BY DEF OfferInv, OfferShape, OfferRows
<1>1. ASSUME NEW o \in Ids, NEW n \in Numbers, Create(o, n) PROVE OfferInv'
  BY <1>1, CreateOffer
<1>2. ASSUME NEW o \in Ids, NEW pos \in Positions, NEW price \in Prices, AddLine(o, pos, price)
      PROVE  OfferInv'
  <2> DEFINE l  == [pos |-> pos, price |-> price, grounded |-> TRUE]
             ls == offer[o].lines \cup {l}
  <2>1. l \in Lines
    BY DEF Lines
  <2> HIDE DEF l
  <2>2. ls \in SUBSET Lines
    BY <1>0, <2>1
  <2>3. IsDraft(o) /\ offer' = [offer EXCEPT ![o] = WithLines(@, ls)] /\ OffersOnly
    BY <1>2 DEF AddLine, l
  <2> HIDE DEF ls
  <2> QED BY <2>2, <2>3, LinesWrite
<1>3. ASSUME NEW o \in Ids, NEW l \in offer[o].lines, DeleteLine(o, l) PROVE OfferInv'
  <2> DEFINE ls == offer[o].lines \ {l}
  <2>1. ls \in SUBSET Lines
    BY <1>0
  <2>2. IsDraft(o) /\ offer' = [offer EXCEPT ![o] = WithLines(@, ls)] /\ OffersOnly
    BY <1>3 DEF DeleteLine
  <2> HIDE DEF ls
  <2> QED BY <2>1, <2>2, LinesWrite
<1>4. ASSUME NEW o \in Ids, NEW l \in offer[o].lines, NEW price \in Prices, EditLine(o, l, price)
      PROVE  OfferInv'
  <2> DEFINE ls == (offer[o].lines \ {l}) \cup {[l EXCEPT !.price = price]}
  <2>1. ls \in SUBSET Lines
    BY <1>0, EditedLines
  <2>2. IsDraft(o) /\ offer' = [offer EXCEPT ![o] = WithLines(@, ls)] /\ OffersOnly
    BY <1>4 DEF EditLine
  <2> HIDE DEF ls
  <2> QED BY <2>1, <2>2, LinesWrite
<1>5. ASSUME NEW o \in Ids, Send(o) PROVE OfferInv'
  BY <1>5, SendOffer
<1>6. ASSUME NEW o \in Ids, NEW new \in Ids, Regenerate(o, new) PROVE OfferInv'
  BY <1>6, RegenerateOffer
<1>7. CASE WriteDeal
  <2>1. PICK gone \in BOOLEAN : deal' = [deal EXCEPT !.version = @ + 1, !.archived = gone]
    BY <1>7 DEF WriteDeal
  <2>2. UNCHANGED <<offer, blob, lock, acc, ren, syncs>>
    BY <1>7 DEF WriteDeal
  <2>3. deal' \in DealRows
    <3> DEFINE n == deal.version + 1
    <3>1. n \in Nat /\ deal \in DealRows
      BY DEF OfferInv, OfferShape, DealRows
    <3> HIDE DEF n
    <3>2. deal' = [deal EXCEPT !.version = n, !.archived = gone]
      BY <2>1 DEF n
    <3> QED BY <3>1, <3>2 DEF DealRows
  <2>4. OfferShape'
    BY <2>2, <2>3 DEF OfferInv, OfferShape
  <2> QED BY <2>2, <2>4 DEF OfferInv, Numbered, Held, Drawn, PdfMade, BlobShows, Put,
                            OneRevisionStands, AcceptedWasSynced
<1>8. CASE UNCHANGED vars
  BY <1>8 DEF vars, OfferInv, OfferShape, Numbered, Held, Drawn, PdfMade, BlobShows, Put,
              OneRevisionStands, AcceptedWasSynced
<1> QED
  BY <1>1, <1>2, <1>3, <1>4, <1>5, <1>6, <1>7, <1>8, RenderStep, AcceptStep DEF Next

LEMMA OfferInvariant == Spec => []OfferInv
  BY InitOffers, NextOffers, PTL DEF Spec

\* At most one revision of an offer number is open or accepted, however regenerations, sends
\* and accepts overlap.
THEOREM RevisionsReplaceEachOther == Spec => []OneRevisionStands
  BY OfferInvariant, PTL DEF OfferInv

\* No offer is accepted whose gross the deal was not given.
THEOREM AcceptsSyncTheDeal == Spec => []AcceptedWasSynced
  BY OfferInvariant, PTL DEF OfferInv

\* The PDF of an offer that left the draft state shows its totals, or those one of its renders
\* read of the draft, for any number of renders.
THEOREM PdfsAreStaleByDrafts == Spec => []StalePdfIsADrafts
<1>1. OfferInv => StalePdfIsADrafts
  <2> SUFFICES ASSUME OfferInv, NEW o \in Ids, offer[o].pdf, blob[o] # offer[o].gross
               PROVE  \E r \in Renders : /\ ren[r].pc \in {"put", "done"} /\ ren[r].o = o
                                         /\ ren[r].draft /\ ren[r].gross = blob[o]
    BY DEF StalePdfIsADrafts
  <2>1. PICK r \in Renders : /\ ren[r].pc \in {"put", "done"} /\ ren[r].o = o
                             /\ ren[r].gross = blob[o]
    BY DEF OfferInv, PdfMade, BlobShows, Put
  <2>2. ren[r].draft
    BY <2>1 DEF OfferInv, Drawn
  <2> QED BY <2>1, <2>2
<1> QED BY <1>1, OfferInvariant, PTL

\* The lines and totals of an offer that left the draft state never change.
THEOREM SentOffersAreFrozen == Spec => SentIsFrozen
<1>1. OfferInv /\ [Next]_vars => [SentStays]_vars
  <2> SUFFICES ASSUME OfferInv, Next, NEW q \in Ids, offer[q].status \notin {"none", "draft"}
               PROVE  /\ offer'[q].lines = offer[q].lines /\ offer'[q].gross = offer[q].gross
                      /\ offer'[q].status # "draft"
    BY DEF SentStays
  <2>0. \A o \in Ids : offer[o] \in OfferRows /\ offer = [p \in Ids |-> offer[p]]
    BY DEF OfferInv, OfferShape
  <2>1. ASSUME NEW o \in Ids, NEW row, offer' = [offer EXCEPT ![o] = row],
               offer[o].status \in {"none", "draft"}
        PROVE  offer'[q] = offer[q]
    BY <2>0, <2>1
  <2>2. ASSUME NEW o \in Ids, NEW n \in Numbers, Create(o, n) PROVE offer'[q] = offer[q]
    BY <2>1, <2>2 DEF Create
  <2>3. ASSUME NEW o \in Ids, NEW pos \in Positions, NEW price \in Prices, AddLine(o, pos, price)
        PROVE  offer'[q] = offer[q]
    BY <2>1, <2>3 DEF AddLine, IsDraft
  <2>4. ASSUME NEW o \in Ids, NEW l \in offer[o].lines, DeleteLine(o, l) PROVE offer'[q] = offer[q]
    BY <2>1, <2>4 DEF DeleteLine, IsDraft
  <2>5. ASSUME NEW o \in Ids, NEW l \in offer[o].lines, NEW price \in Prices, EditLine(o, l, price)
        PROVE  offer'[q] = offer[q]
    BY <2>1, <2>5 DEF EditLine, IsDraft
  <2>6. ASSUME NEW o \in Ids, Send(o) PROVE offer'[q] = offer[q]
    BY <2>0, <2>6 DEF Send, IsDraft
  <2>7. ASSUME NEW o \in Ids, NEW new \in Ids, Regenerate(o, new)
        PROVE  offer'[q] = offer[q] \/ offer'[q] = Superseded(offer[q])
    <3>1. PICK row : offer' = [offer EXCEPT ![new] = row, ![o] = Superseded(@)]
      BY <2>7 DEF Regenerate
    <3>2. offer[new].status = "none" /\ offer[o].status = "sent"
      BY <2>7 DEF Regenerate, IsSent
    <3> QED BY <2>0, <3>1, <3>2
  <2>8. Superseded(offer[q]).lines = offer[q].lines /\ Superseded(offer[q]).gross = offer[q].gross
        /\ Superseded(offer[q]).status # "draft"
    BY <2>0 DEF Superseded, OfferRows
  <2>9. ASSUME NEW r \in Renders, SetPdfAssetRef(r)
        PROVE  /\ offer'[q].lines = offer[q].lines /\ offer'[q].gross = offer[q].gross
               /\ offer'[q].status = offer[q].status
    BY <2>0, <2>9 DEF SetPdfAssetRef, OfferRows
  <2>10. ASSUME NEW r \in Accepts, AcceptCommit(r)
         PROVE  /\ offer'[q].lines = offer[q].lines /\ offer'[q].gross = offer[q].gross
                /\ offer'[q].status \in {offer[q].status, "accepted"}
    BY <2>0, <2>10 DEF AcceptCommit, OfferRows
  <2>11. ASSUME UNCHANGED offer PROVE offer'[q] = offer[q]
    BY <2>11
  <2> QED
    BY <2>2, <2>3, <2>4, <2>5, <2>6, <2>7, <2>8, <2>9, <2>10, <2>11
    DEF Next, PrepareRender, PutPdf, AcceptLock, AcceptReadDeal, AcceptSync, AcceptFail, WriteDeal
<1> QED BY <1>1, OfferInvariant, PTL DEF Spec, SentIsFrozen

-----------------------------------------------------------------------------
(* Attachments, for any number of files, requests and extracted fields. *)

FileShape ==
  /\ parent \in [live : BOOLEAN, visible : BOOLEAN]
  /\ file \in [Files -> FileRows]
  /\ ask \in [Asks -> AskRows]
  /\ dealField \in [Asks -> SUBSET Extracted]

\* What a GET knows is true as long as nothing changed since.
Informed ==
  \A q \in Asks : ask[q].pc \in {"read", "signed"} =>
    /\ ask[q].file \in Files /\ file[ask[q].file].state # "absent"
    /\ ~ask[q].moved => IF ask[q].pc = "read" THEN ask[q].seen = file[ask[q].file]
                        ELSE Downloadable(file[ask[q].file]) /\ parent.visible

\* How far an accept has come, and what it has written by then.
Progress(q) ==
  /\ ask[q].pc \in {"new", "read", "signed", "asking"} => ask[q].fields = {} /\ dealField[q] = {}
  /\ ask[q].pc = "planned" => dealField[q] = {}
  /\ ask[q].pc = "noting" => dealField[q] \subseteq ask[q].fields
  /\ ask[q].pc = "ok" => Unnoted(q) = {}
  /\ ask[q].url => [ask |-> q, what |-> "download"] \in note

FilesInv == FileShape /\ Informed /\ \A q \in Asks : Progress(q)

LEMMA InitFiles == FilesInit => FilesInv
<1> SUFFICES ASSUME FilesInit PROVE FilesInv
  OBVIOUS
<1>1. FileShape
  BY DEF FilesInit, FileShape, FileRows, AskRows, Absent
<1>2. Informed /\ \A q \in Asks : Progress(q)
  BY DEF FilesInit, Informed, Progress, Absent
<1> QED BY <1>1, <1>2 DEF FilesInv

\* A write to files or to the deal tells the open requests nothing.
LEMMA Overtaken ==
  ASSUME FilesInv, NEW fs, Overtake(fs)
  PROVE  /\ ask' \in [Asks -> AskRows]
         /\ \A q \in Asks : /\ ask'[q].pc = ask[q].pc /\ ask'[q].file = ask[q].file
                            /\ ask'[q].seen = ask[q].seen /\ ask'[q].fields = ask[q].fields
                            /\ ask'[q].url = ask[q].url
                            /\ ~ask'[q].moved => ~ask[q].moved /\ ask[q].file \notin fs
<1>1. ASSUME NEW q \in Asks
      PROVE  /\ ask'[q] \in AskRows
             /\ ask'[q].pc = ask[q].pc /\ ask'[q].file = ask[q].file
             /\ ask'[q].seen = ask[q].seen /\ ask'[q].fields = ask[q].fields
             /\ ask'[q].url = ask[q].url
             /\ ~ask'[q].moved => ~ask[q].moved /\ ask[q].file \notin fs
  <2> DEFINE v == ask[q].moved \/ ask[q].file \in fs
  <2>1. ask'[q] = [ask[q] EXCEPT !.moved = v]
    BY DEF Overtake
  <2>2. v \in BOOLEAN /\ (~v => ~ask[q].moved /\ ask[q].file \notin fs)
    OBVIOUS
  <2>3. ask[q] \in AskRows
    BY DEF FilesInv, FileShape
  <2> HIDE DEF v
  <2>4. /\ ask'[q] \in AskRows
        /\ ask'[q].pc = ask[q].pc /\ ask'[q].file = ask[q].file
        /\ ask'[q].seen = ask[q].seen /\ ask'[q].fields = ask[q].fields
        /\ ask'[q].url = ask[q].url
    BY <2>1, <2>2, <2>3 DEF AskRows
  <2>5. ask'[q].moved = v
    BY <2>1, <2>3 DEF AskRows
  <2> QED BY <2>2, <2>4, <2>5
<1>2. ask' = [q \in Asks |-> ask'[q]]
  BY DEF Overtake
<1> QED BY <1>1, <1>2

\* Files change and everybody who may have read one of them is told so.
LEMMA FileWrite ==
  ASSUME FilesInv, NEW fs, Overtake(fs), UNCHANGED <<dealField, note>>,
         parent' \in [live : BOOLEAN, visible : BOOLEAN], file' \in [Files -> FileRows],
         \A f \in Files : file[f].state # "absent" => file'[f].state # "absent",
         \A f \in Files : f \notin fs => file'[f] = file[f],
         parent'.visible = parent.visible \/ Files \subseteq fs
  PROVE  FilesInv'
<1> USE DEF FilesInv
<1>1. FileShape'
  BY Overtaken DEF FileShape
<1>2. Informed'
  BY Overtaken DEF Informed
<1>3. ASSUME NEW q \in Asks PROVE Progress(q)'
  BY Overtaken DEF Progress, Unnoted
<1> QED BY <1>1, <1>2, <1>3

\* One request goes on, and the rows stay.
LEMMA AskStep ==
  ASSUME FilesInv, NEW q \in Asks, UNCHANGED <<parent, file>>,
         ask' \in [Asks -> AskRows], dealField' \in [Asks -> SUBSET Extracted],
         \A r \in Asks \ {q} : ask'[r] = ask[r] /\ dealField'[r] = dealField[r],
         \A r \in Asks \ {q}, w \in Extracted \cup {"download", "access"} :
           [ask |-> r, what |-> w] \in note' <=> [ask |-> r, what |-> w] \in note,
         ask'[q].pc \in {"read", "signed"} =>
           /\ ask'[q].file \in Files /\ file[ask'[q].file].state # "absent"
           /\ ~ask'[q].moved => IF ask'[q].pc = "read" THEN ask'[q].seen = file[ask'[q].file]
                                ELSE Downloadable(file[ask'[q].file]) /\ parent.visible,
         Progress(q)'
  PROVE  FilesInv'
<1> USE DEF FilesInv
<1>1. FileShape'
  BY DEF FileShape
<1>2. Informed'
  BY DEF Informed
<1>3. ASSUME NEW r \in Asks PROVE Progress(r)'
  <2>1. CASE r = q
    BY <2>1
  <2>2. CASE r # q
    <3>1. ask[r].fields \subseteq Extracted
      BY DEF FileShape, AskRows
    <3> QED BY <2>2, <3>1 DEF Progress, Unnoted
  <2> QED BY <2>1, <2>2
<1> QED BY <1>1, <1>2, <1>3

LEMMA NextFiles == FilesInv /\ [FilesNext]_fileVars => FilesInv'
<1> SUFFICES ASSUME FilesInv, [FilesNext]_fileVars PROVE FilesInv'
  OBVIOUS
<1> USE DEF FilesInv, FileShape
<1>1. ASSUME NEW f \in Files, CreateFile(f) PROVE FilesInv'
  <2>1. file' \in [Files -> FileRows]
    BY <1>1 DEF CreateFile, FileRows
  <2>2. /\ \A g \in Files : file[g].state # "absent" => file'[g] = file[g]
        /\ UNCHANGED <<parent, ask, dealField, note>>
    BY <1>1 DEF CreateFile, FileRows
  <2>3. Informed'
    BY <2>2 DEF Informed
  <2>4. \A q \in Asks : Progress(q)'
    BY <2>2 DEF Progress, Unnoted
  <2> QED BY <2>1, <2>2, <2>3, <2>4
<1>2. ASSUME NEW f \in Files, ArchiveFile(f) PROVE FilesInv'
  <2>1. /\ file' \in [Files -> FileRows]
        /\ \A g \in Files : file[g].state # "absent" => file'[g].state # "absent"
        /\ \A g \in Files : g \notin {f} => file'[g] = file[g]
    BY <1>2 DEF ArchiveFile, FileRows
  <2> QED BY <1>2, <2>1, FileWrite DEF ArchiveFile
<1>3. ASSUME NEW f \in Files, NEW verdict \in {"clean", "blocked"}, MarkScanResult(f, verdict)
      PROVE  FilesInv'
  <2>1. /\ file' \in [Files -> FileRows]
        /\ \A g \in Files : file[g].state # "absent" => file'[g].state # "absent"
        /\ \A g \in Files : g \notin {f} => file'[g] = file[g]
    BY <1>3 DEF MarkScanResult, FileRows
  <2> QED BY <1>3, <2>1, FileWrite DEF MarkScanResult
<1>4. CASE ArchiveParent
  <2>1. /\ file' \in [Files -> FileRows]
        /\ \A g \in Files : file[g].state # "absent" => file'[g].state # "absent"
    BY <1>4 DEF ArchiveParent, FileRows
  <2>2. parent' \in [live : BOOLEAN, visible : BOOLEAN]
    BY <1>4 DEF ArchiveParent
  <2> QED BY <1>4, <2>1, <2>2, FileWrite DEF ArchiveParent
<1>5. CASE RestoreParent
  <2>1. parent' \in [live : BOOLEAN, visible : BOOLEAN] /\ parent'.visible = parent.visible
    BY <1>5 DEF RestoreParent
  <2>2. UNCHANGED <<file, ask, dealField, note>>
    BY <1>5 DEF RestoreParent
  <2>3. Informed'
    BY <2>1, <2>2 DEF Informed
  <2>4. \A q \in Asks : Progress(q)'
    BY <2>2 DEF Progress, Unnoted
  <2> QED BY <2>1, <2>2, <2>3, <2>4
<1>6. CASE ChangeVisibility
  <2> DEFINE v == ~parent.visible
  <2>1. parent' = [parent EXCEPT !.visible = v] /\ v \in BOOLEAN
    BY <1>6 DEF ChangeVisibility
  <2>2. parent' \in [live : BOOLEAN, visible : BOOLEAN]
    <3> HIDE DEF v
    <3> QED BY <2>1
  <2>3. Overtake(Files) /\ UNCHANGED <<file, dealField, note>>
    BY <1>6 DEF ChangeVisibility
  <2> QED BY <2>2, <2>3, FileWrite
<1>7. ASSUME NEW q \in Asks, NEW f \in Files, ReadFile(q, f) PROVE FilesInv'
  <2>1. /\ ask' \in [Asks -> AskRows] /\ UNCHANGED <<parent, file, dealField, note>>
        /\ \A r \in Asks \ {q} : ask'[r] = ask[r]
        /\ ask'[q].pc = "read" /\ ask'[q].file = f /\ ask'[q].seen = file[f]
        /\ ask'[q].fields = ask[q].fields /\ ask'[q].url = ask[q].url /\ ask[q].pc = "new"
        /\ file[f].state # "absent"
    BY <1>7 DEF ReadFile, AskRows
  <2>2. Progress(q)'
    BY <2>1 DEF Progress, Unnoted
  <2> QED BY <2>1, <2>2, AskStep
<1>8. ASSUME NEW q \in Asks, SignUrl(q) PROVE FilesInv'
  <2>1. PICK pc \in {"signed", "ok", "error"} :
          /\ ask' = [ask EXCEPT ![q].pc = pc]
          /\ pc = "signed" => parent.visible /\ Downloadable(ask[q].seen)
    BY <1>8 DEF SignUrl, Goes
  <2>2. /\ ask' \in [Asks -> AskRows] /\ UNCHANGED <<parent, file, dealField, note>>
        /\ \A r \in Asks \ {q} : ask'[r] = ask[r]
        /\ ask'[q].pc = pc /\ ask'[q].file = ask[q].file /\ ask[q].pc = "read"
        /\ ask'[q].fields = ask[q].fields /\ ask'[q].url = ask[q].url
        /\ ask'[q].moved = ask[q].moved
    BY <1>8, <2>1 DEF SignUrl, AskRows
  <2>3. Progress(q)'
    BY <2>2 DEF Progress, Unnoted
  <2> QED BY <2>1, <2>2, <2>3, AskStep DEF Informed
<1>9. ASSUME NEW q \in Asks, NoteDownload(q) PROVE FilesInv'
  <2>1. /\ ask' \in [Asks -> AskRows] /\ UNCHANGED <<parent, file, dealField>>
        /\ \A r \in Asks \ {q} : ask'[r] = ask[r]
        /\ ask'[q].pc = "ok" /\ ask'[q].fields = ask[q].fields /\ ask[q].pc = "signed"
    BY <1>9 DEF NoteDownload, AskRows
  <2>2. note' = note \cup {[ask |-> q, what |-> "download"]}
    BY <1>9 DEF NoteDownload
  <2>3. Progress(q)'
    <3>1. \A k \in Extracted : k # "download"
      BY AttachmentAssumption
    <3> QED BY <2>1, <2>2, <3>1 DEF Progress, Unnoted
  <2> QED BY <2>1, <2>2, <2>3, AskStep
<1>10. ASSUME NEW q \in Asks, NEW f \in Files, ReadForAccess(q, f) PROVE FilesInv'
  <2>1. /\ ask' \in [Asks -> AskRows] /\ UNCHANGED <<parent, file, dealField, note>>
        /\ \A r \in Asks \ {q} : ask'[r] = ask[r]
        /\ ask'[q].pc = "asking"
        /\ ask'[q].fields = ask[q].fields /\ ask'[q].url = ask[q].url /\ ask[q].pc = "new"
    <3> DEFINE row == [ask[q] EXCEPT !.pc = "asking", !.file = f]
    <3>1. ask' = [ask EXCEPT ![q] = row] /\ UNCHANGED <<parent, file, dealField, note>>
          /\ ask[q].pc = "new"
      BY <1>10 DEF ReadForAccess
    <3>2. /\ row \in AskRows /\ row.pc = "asking"
          /\ row.fields = ask[q].fields /\ row.url = ask[q].url
      <4>1. ask[q] \in AskRows
        OBVIOUS
      <4> QED BY <4>1 DEF AskRows
    <3> HIDE DEF row
    <3> QED BY <3>1, <3>2
  <2>2. Progress(q)'
    BY <2>1 DEF Progress, Unnoted
  <2> QED BY <2>1, <2>2, AskStep
<1>11. ASSUME NEW q \in Asks, NoteAccess(q) PROVE FilesInv'
  <2>1. /\ ask' \in [Asks -> AskRows] /\ UNCHANGED <<parent, file, dealField>>
        /\ \A r \in Asks \ {q} : ask'[r] = ask[r]
        /\ ask'[q].pc = "ok" /\ ask'[q].fields = ask[q].fields /\ ask[q].pc = "asking"
        /\ ask'[q].url = ask[q].url
        /\ note' = note \cup {[ask |-> q, what |-> "access"]}
    BY <1>11 DEF NoteAccess, Goes, AskRows
  <2>2. Progress(q)'
    <3>1. \A k \in Extracted : k # "access"
      BY AttachmentAssumption
    <3> QED BY <2>1, <3>1 DEF Progress, Unnoted
  <2> QED BY <2>1, <2>2, AskStep
<1>12. ASSUME NEW q \in Asks, NEW f \in Files, NEW fields \in SUBSET Extracted, PlanAccept(q, f, fields)
       PROVE  FilesInv'
  <2> DEFINE row == [ask[q] EXCEPT !.pc = "planned", !.file = f, !.fields = fields]
  <2>1. row \in AskRows /\ row.pc = "planned" /\ row.url = ask[q].url
    <3>1. ask[q] \in AskRows
      OBVIOUS
    <3> QED BY <3>1 DEF AskRows
  <2>2. /\ ask' = [ask EXCEPT ![q] = row] /\ UNCHANGED <<parent, file, dealField, note>>
        /\ ask[q].pc = "new"
    BY <1>12 DEF PlanAccept
  <2> HIDE DEF row
  <2>3. /\ ask' \in [Asks -> AskRows] /\ \A r \in Asks \ {q} : ask'[r] = ask[r]
        /\ ask'[q].pc = "planned" /\ ask'[q].url = ask[q].url
    BY <2>1, <2>2
  <2>4. Progress(q)'
    BY <2>2, <2>3 DEF Progress, Unnoted
  <2> QED BY <2>2, <2>3, <2>4, AskStep
<1>13. ASSUME NEW q \in Asks, NEW kept \in SUBSET Extracted, UpdateFields(q, kept) PROVE FilesInv'
  <2>1. /\ ask' \in [Asks -> AskRows] /\ UNCHANGED <<parent, file, note>>
        /\ \A r \in Asks \ {q} : ask'[r] = ask[r] /\ dealField'[r] = dealField[r]
        /\ dealField' \in [Asks -> SUBSET Extracted]
        /\ ask'[q].pc = "noting" /\ ask'[q].url = ask[q].url /\ ask[q].pc = "planned"
        /\ ask'[q].fields = ask[q].fields /\ dealField'[q] \subseteq ask[q].fields
    BY <1>13 DEF UpdateFields, Goes, AskRows
  <2>2. Progress(q)'
    BY <2>1 DEF Progress, Unnoted
  <2> QED BY <2>1, <2>2, AskStep
<1>14. ASSUME NEW q \in Asks, NEW k \in Extracted, NoteField(q, k) PROVE FilesInv'
  <2>1. /\ UNCHANGED <<parent, file, ask, dealField>> /\ ask[q].pc = "noting"
        /\ k \in ask[q].fields
        /\ note' = note \cup {[ask |-> q, what |-> k]}
    BY <1>14 DEF NoteField, Unnoted
  <2>2. Progress(q)'
    BY <2>1 DEF Progress
  <2> QED BY <2>1, <2>2, AskStep
<1>15. ASSUME NEW q \in Asks, AnswerAccept(q) PROVE FilesInv'
  <2>1. /\ ask' \in [Asks -> AskRows] /\ UNCHANGED <<parent, file, dealField, note>>
        /\ \A r \in Asks \ {q} : ask'[r] = ask[r]
        /\ ask'[q].pc = "ok" /\ ask'[q].url = ask[q].url /\ ask'[q].fields = ask[q].fields
        /\ Unnoted(q) = {}
    BY <1>15 DEF AnswerAccept, NotesWritten, Goes, AskRows
  <2>2. Progress(q)'
    BY <2>1 DEF Progress, Unnoted
  <2> QED BY <2>1, <2>2, AskStep
<1>16. ASSUME NEW q \in Asks, FailAsk(q) PROVE FilesInv'
  <2>1. /\ ask' \in [Asks -> AskRows] /\ UNCHANGED <<parent, file, dealField, note>>
        /\ \A r \in Asks \ {q} : ask'[r] = ask[r]
        /\ ask'[q].pc = "error" /\ ask'[q].url = ask[q].url /\ ask'[q].fields = ask[q].fields
    BY <1>16 DEF FailAsk, Goes, AskRows
  <2>2. Progress(q)'
    BY <2>1 DEF Progress, Unnoted
  <2> QED BY <2>1, <2>2, AskStep
<1>17. CASE UNCHANGED fileVars
  BY <1>17 DEF fileVars, Informed, Progress, Unnoted
<1> QED
  BY <1>1, <1>2, <1>3, <1>4, <1>5, <1>6, <1>7, <1>8, <1>9, <1>10, <1>11, <1>12, <1>13, <1>14,
     <1>15, <1>16, <1>17
  DEF FilesNext

LEMMA FilesInvariant == FilesSpec => []FilesInv
  BY InitFiles, NextFiles, PTL DEF FilesSpec

\* A request that succeeds has noted its download or all it accepted, and only one that is at
\* it or failed leaves a value of the deal unnoted, for any number of requests that overlap.
THEOREM AcceptsAreNoted == FilesSpec => []SuccessIsNoted
<1>1. FilesInv => SuccessIsNoted
  <2> SUFFICES ASSUME FilesInv, NEW q \in Asks
               PROVE  /\ ask[q].pc = "ok" => /\ ask[q].url => [ask |-> q, what |-> "download"] \in note
                                             /\ Unnoted(q) = {}
                      /\ dealField[q] \cap Unnoted(q) # {} => ask[q].pc \in {"noting", "error"}
    BY DEF SuccessIsNoted
  <2>1. ask[q].pc \in {"new", "read", "signed", "planned", "noting", "asking", "ok", "error"}
    BY DEF FilesInv, FileShape, AskRows
  <2>2. Progress(q)
    BY DEF FilesInv
  <2> QED BY <2>1, <2>2 DEF Progress
<1> QED BY <1>1, FilesInvariant, PTL

\* A link is of a live, clean file of a deal its caller sees, unless one of the three
\* changed while the request ran.
THEOREM LinksAreOfCleanFiles == FilesSpec => UrlNeedsFile
<1>1. FilesInv /\ [FilesNext]_fileVars => [LinkIsOfFile]_fileVars
  <2> SUFFICES ASSUME FilesInv, FilesNext, NEW q \in Asks, ask'[q].url, ~ask[q].url
               PROVE  ask[q].moved \/ (Downloadable(file[ask[q].file]) /\ parent.visible)
    BY DEF LinkIsOfFile
  <2> USE DEF FilesInv, FileShape
  <2>1. CASE NoteDownload(q)
    BY <2>1 DEF NoteDownload, Informed
  <2>2. ASSUME NEW fs, Overtake(fs) PROVE FALSE
    BY <2>2, Overtaken
  <2>3. ASSUME NEW r \in Asks, NEW pc, ask' = [ask EXCEPT ![r].pc = pc] PROVE FALSE
    BY <2>3 DEF AskRows
  <2>4. ASSUME NEW r \in Asks, NoteDownload(r), r # q PROVE FALSE
    BY <2>4 DEF NoteDownload
  <2>5. ASSUME NEW r \in Asks, NEW f \in Files, ReadFile(r, f) \/ ReadForAccess(r, f) PROVE FALSE
    <3>1. CASE ReadFile(r, f)
      <4>1. ask' = [ask EXCEPT ![r].pc = "read", ![r].file = f, ![r].seen = file[f]]
        BY <3>1 DEF ReadFile
      <4> QED BY <4>1 DEF AskRows
    <3>2. CASE ReadForAccess(r, f)
      <4>1. ask' = [ask EXCEPT ![r].pc = "asking", ![r].file = f]
        BY <3>2 DEF ReadForAccess
      <4> QED BY <4>1 DEF AskRows
    <3> QED BY <2>5, <3>1, <3>2
  <2>6. ASSUME NEW r \in Asks, NEW f \in Files, NEW fields \in SUBSET Extracted, PlanAccept(r, f, fields)
        PROVE  FALSE
    BY <2>6 DEF PlanAccept, AskRows
  <2>7. ASSUME NEW r \in Asks,
               \/ SignUrl(r) \/ NoteAccess(r) \/ AnswerAccept(r) \/ FailAsk(r)
               \/ \E kept \in SUBSET Extracted : UpdateFields(r, kept)
        PROVE  FALSE
    <3>1. \E pc : ask' = [ask EXCEPT ![r].pc = pc]
      BY <2>7 DEF SignUrl, NoteAccess, UpdateFields, AnswerAccept, FailAsk, Goes
    <3> QED BY <2>3, <3>1
  <2>8. ask' # ask
    OBVIOUS
  <2> QED
    BY <2>1, <2>2, <2>4, <2>5, <2>6, <2>7, <2>8
    DEF FilesNext, CreateFile, ArchiveFile, MarkScanResult, ArchiveParent, RestoreParent,
        ChangeVisibility, NoteField
<1> QED BY <1>1, FilesInvariant, PTL DEF FilesSpec, UrlNeedsFile

-----------------------------------------------------------------------------
(* Pipelines: the order of the stages, and pages of it. *)

StageRows == [state : {"none", "live", "archived"}, of : PipelineIds \cup {Everywhere},
              position : Places \cup {0}]
WalkRows  == [pc : {"new", "open", "done"}, of : PipelineIds \cup {Everywhere},
              cursor : StageIds \cup {0}, seen : SUBSET StageIds,
              twice : BOOLEAN, changed : BOOLEAN]

LEMMA LeastOf ==
  ASSUME NEW S \in SUBSET Nat, S # {}
  PROVE  \E n \in S : \A k \in S : n <= k
<1> DEFINE R == {ss \in Nat \X Nat : ss[1] < ss[2]}
<1>1. IsWellFoundedOn(R, Nat)
  BY NatLessThanWellFounded DEF OpToRel
<1>2. \A k, n \in Nat : k < n => <<k, n>> \in R
  OBVIOUS
<1> HIDE DEF R
<1>3. PICK n \in S : \A k \in S : ~(<<k, n>> \in R)
  BY <1>1, WFMin
<1>4. ASSUME NEW k \in S PROVE n <= k
  <2>1. k \in Nat /\ n \in Nat /\ ~(k < n)
    BY <1>2, <1>3
  <2> QED
    BY <2>1
<1> QED
  BY <1>4

\* What holds of 0, and of n + 1 when it holds of n, holds up to k.
LEMMA UpTo ==
  ASSUME NEW k \in Nat, NEW S, 0 \in S, \A n \in 0..k : n \in S /\ n < k => n + 1 \in S
  PROVE  \A n \in 0..k : n \in S
<1> DEFINE T == {n \in 0..k : n \notin S}
<1>1. SUFFICES ASSUME T # {} PROVE FALSE
  OBVIOUS
<1>2. PICK n \in T : \A j \in T : n <= j
  <2>1. T \in SUBSET Nat
    OBVIOUS
  <2> HIDE DEF T
  <2> QED
    BY <1>1, <2>1, LeastOf
<1>3. n # 0 /\ n \in 0..k
  BY <1>2
<1>4. n - 1 \in 0..k /\ n - 1 \in S /\ n - 1 < k
  BY <1>2, <1>3
<1>5. (n - 1) + 1 \in S
  BY <1>4
<1> QED
  BY <1>2, <1>3, <1>5

\* ORDER BY position, id is a strict total order of the stages.
LEMMA StagesAreOrdered ==
  ASSUME PipelinesTypeOK
  PROVE  /\ \A s \in StageIds : ~Precedes(s, s)
         /\ \A s, t \in StageIds : s # t => Precedes(s, t) \/ Precedes(t, s)
         /\ \A s, t \in StageIds : ~(Precedes(s, t) /\ Precedes(t, s))
         /\ \A s, t, u \in StageIds : Precedes(s, t) /\ Precedes(t, u) => Precedes(s, u)
<1>1. \A s \in StageIds : s \in Nat /\ stage[s].position \in Nat
  <2>1. ASSUME NEW s \in StageIds PROVE stage[s] \in StageRows
    BY DEF PipelinesTypeOK, StageRows
  <2>2. ASSUME NEW row \in StageRows PROVE row.position \in Nat
    <3>1. row.position \in Places \cup {0}
      BY Zenon DEF StageRows
    <3>2. Places \subseteq Nat
      BY PipelinesAssumption
    <3>3. \A n \in Places \cup {0} : n \in Nat
      BY <3>2
    <3> QED
      BY <3>1, <3>3, Zenon
  <2> QED
    BY <2>1, <2>2, PipelinesAssumption
<1> QED
  BY <1>1 DEF Precedes

LEMMA RowsAreFinite ==
  ASSUME NEW S \in SUBSET StageIds
  PROVE  IsFiniteSet(S) /\ Cardinality(S) \in Nat /\ (S # {} => Cardinality(S) > 0)
<1>1. IsFiniteSet(S)
  BY PipelinesAssumption, FS_Subset
<1>2. Cardinality(S) \in Nat /\ (Cardinality(S) = 0 <=> S = {})
  BY <1>1, FS_CardinalityType, FS_EmptySet
<1> QED
  BY <1>1, <1>2

\* Rows, if any, have a last one.
LEMMA LastRow ==
  ASSUME PipelinesTypeOK, NEW listed \in SUBSET StageIds, listed # {}
  PROVE  \E m \in listed : \A s \in listed \ {m} : Precedes(s, m)
<1> DEFINE HasLast(S) == \E m \in S : \A s \in S \ {m} : Precedes(s, m)
           N == {n \in Nat : \A S \in SUBSET StageIds : S # {} /\ Cardinality(S) = n => HasLast(S)}
<1>1. 0 \in N
  BY RowsAreFinite
<1>2. ASSUME NEW n \in Nat, n \in N PROVE n + 1 \in N
  <2> SUFFICES ASSUME NEW S \in SUBSET StageIds, S # {}, Cardinality(S) = n + 1 PROVE HasLast(S)
    OBVIOUS
  <2>1. PICK x : x \in S
    OBVIOUS
  <2>2. S \ {x} \in SUBSET StageIds /\ Cardinality(S \ {x}) = n
    <3>1. Cardinality(S \ {x}) = Cardinality(S) - 1
      BY <2>1, RowsAreFinite, FS_RemoveElement
    <3> QED
      BY <3>1
  <2>3. CASE S \ {x} = {}
    BY <2>1, <2>3
  <2>4. CASE S \ {x} # {}
    <3>1. HasLast(S \ {x})
      BY <1>2, <2>2, <2>4
    <3>2. PICK m \in S \ {x} : \A s \in (S \ {x}) \ {m} : Precedes(s, m)
      BY <3>1
    <3>3. x \in StageIds /\ m \in StageIds /\ S \subseteq StageIds /\ x # m
      BY <2>1
    <3>4. CASE Precedes(x, m)
      BY <3>2, <3>4
    <3>5. CASE Precedes(m, x)
      <4>1. \A s \in S \ {x} : Precedes(s, x)
        BY <3>2, <3>3, <3>5, StagesAreOrdered
      <4> QED
        BY <2>1, <4>1
    <3> QED
      BY <3>3, <3>4, <3>5, StagesAreOrdered
  <2> QED
    BY <2>3, <2>4
<1> DEFINE k == Cardinality(listed)
<1>3. k \in Nat
  BY RowsAreFinite
<1>4. k \in N
  <2> HIDE DEF N, k
  <2>1. \A n \in 0..k : n \in N
    BY <1>1, <1>2, <1>3, UpTo
  <2> QED
    BY <1>3, <2>1
<1> QED
  BY <1>4

\* The rows before one that comes later are more.
LEMMA RankGrows ==
  ASSUME PipelinesTypeOK, NEW listed \in SUBSET StageIds, NEW s \in listed
  PROVE  /\ RankIn(s, listed) \in Nat /\ RankIn(s, listed) < Cardinality(listed)
         /\ \A t \in listed : Precedes(s, t) => RankIn(s, listed) < RankIn(t, listed)
<1> DEFINE before(u) == {t \in listed : Precedes(t, u)}
<1>1. \A u \in listed : /\ before(u) \in SUBSET StageIds /\ IsFiniteSet(before(u))
                      /\ Cardinality(before(u)) \in Nat /\ RankIn(u, listed) = Cardinality(before(u))
  BY RowsAreFinite DEF RankIn
<1>2. s \notin before(s)
  BY StagesAreOrdered
<1>3. Cardinality(before(s) \cup {s}) = Cardinality(before(s)) + 1
  BY <1>1, <1>2, FS_AddElement
<1>4. ASSUME NEW S \in SUBSET StageIds, before(s) \cup {s} \subseteq S
      PROVE  Cardinality(before(s)) < Cardinality(S)
  <2>1. Cardinality(before(s) \cup {s}) <= Cardinality(S)
    BY <1>4, RowsAreFinite, FS_Subset
  <2>2. Cardinality(S) \in Nat /\ Cardinality(before(s)) \in Nat
    BY <1>1, RowsAreFinite
  <2> HIDE DEF before
  <2> QED
    BY <1>3, <2>1, <2>2
<1>5. Cardinality(before(s)) < Cardinality(listed)
  BY <1>4
<1>6. ASSUME NEW t \in listed, Precedes(s, t) PROVE Cardinality(before(s)) < Cardinality(before(t))
  <2>1. before(s) \cup {s} \subseteq before(t)
    BY <1>6, StagesAreOrdered
  <2> QED
    BY <1>1, <1>4, <2>1
<1> QED
  BY <1>1, <1>5, <1>6

\* The row before one that is not the first.
LEMMA RowBefore ==
  ASSUME PipelinesTypeOK, NEW listed \in SUBSET StageIds, NEW s \in listed, RankIn(s, listed) # 0
  PROVE  \E m \in listed : RankIn(m, listed) = RankIn(s, listed) - 1
<1> DEFINE before == {t \in listed : Precedes(t, s)}
<1>1. before \in SUBSET StageIds /\ before # {} /\ RankIn(s, listed) = Cardinality(before)
  BY FS_EmptySet DEF RankIn
<1>2. PICK m \in before : \A t \in before \ {m} : Precedes(t, m)
  BY <1>1, LastRow
<1>3. {t \in listed : Precedes(t, m)} = before \ {m}
  BY <1>2, StagesAreOrdered
<1>4. Cardinality(before \ {m}) = Cardinality(before) - 1
  BY <1>1, <1>2, RowsAreFinite, FS_RemoveElement
<1> QED
  BY <1>1, <1>2, <1>3, <1>4 DEF RankIn

\* Every rank is taken.
LEMMA RanksAreTaken ==
  ASSUME PipelinesTypeOK, NEW listed \in SUBSET StageIds, NEW n \in Nat, n < Cardinality(listed)
  PROVE  \E s \in listed : RankIn(s, listed) = n
<1> DEFINE k == Cardinality(listed) - 1
           N == {j \in Nat : \E s \in listed : RankIn(s, listed) = k - j}
<1>1. listed # {} /\ IsFiniteSet(listed) /\ Cardinality(listed) \in Nat /\ k \in Nat
  BY RowsAreFinite, FS_EmptySet
<1>2. 0 \in N
  <2>1. PICK m \in listed : \A s \in listed \ {m} : Precedes(s, m)
    BY <1>1, LastRow
  <2>2. {t \in listed : Precedes(t, m)} = listed \ {m}
    BY <2>1, StagesAreOrdered
  <2>3. Cardinality(listed \ {m}) = k
    BY <1>1, <2>1, FS_RemoveElement
  <2>4. RankIn(m, listed) = k
    BY <2>2, <2>3 DEF RankIn
  <2> HIDE DEF k
  <2>5. k = k - 0
    BY <1>1
  <2> QED
    BY <2>4, <2>5
<1>3. ASSUME NEW j \in 0..k, j \in N, j < k PROVE j + 1 \in N
  <2>1. PICK s \in listed : RankIn(s, listed) = k - j
    BY <1>3
  <2>2. PICK m \in listed : RankIn(m, listed) = RankIn(s, listed) - 1
    BY <1>1, <1>3, <2>1, RowBefore
  <2> QED
    BY <1>1, <2>1, <2>2
<1>4. k - n \in 0..k /\ k - (k - n) = n
  <2>1. n <= k
    BY <1>1
  <2> HIDE DEF k
  <2> QED
    BY <1>1, <2>1
<1>5. k - n \in N
  <2> HIDE DEF N, k
  <2> QED
    BY <1>1, <1>2, <1>3, <1>4, UpTo
<1> QED
  BY <1>4, <1>5

\* The cursor is none of the rows exactly when the page has them all, and its last row
\* otherwise.
LEMMA PageEndsAtCursor ==
  ASSUME PipelinesTypeOK, NEW listed \in SUBSET StageIds
  PROVE  \/ CursorOf(listed) = 0 /\ PageOf(listed) = listed
         \/ /\ CursorOf(listed) \in listed
            /\ PageOf(listed) = {s \in listed : s = CursorOf(listed) \/ Precedes(s, CursorOf(listed))}
<1> DEFINE c == CursorOf(listed)
<1>1. /\ Cardinality(listed) \in Nat /\ PageLimit \in Nat \ {0}
      /\ \A s \in listed : RankIn(s, listed) \in Nat /\ RankIn(s, listed) < Cardinality(listed)
  BY RowsAreFinite, RankGrows, PipelinesAssumption
<1>2. CASE Cardinality(listed) <= PageLimit
  <2>1. c = 0
    BY <1>2 DEF CursorOf
  <2>2. PageOf(listed) = listed
    BY <1>1, <1>2 DEF PageOf
  <2> QED
    BY <2>1, <2>2
<1>3. CASE ~(Cardinality(listed) <= PageLimit)
  <2>1. \E s \in listed : RankIn(s, listed) = PageLimit - 1
    <3>1. PageLimit - 1 \in Nat /\ PageLimit - 1 < Cardinality(listed)
      BY <1>1, <1>3
    <3> QED
      BY <3>1, RanksAreTaken
  <2>2. c = CHOOSE s \in listed : RankIn(s, listed) = PageLimit - 1
    BY <1>3 DEF CursorOf
  <2> HIDE DEF c
  <2>3. c \in listed /\ RankIn(c, listed) = PageLimit - 1
    BY <2>1, <2>2
  <2>4. ASSUME NEW s \in listed PROVE RankIn(s, listed) < PageLimit <=> s = c \/ Precedes(s, c)
    <3>1. CASE s = c
      BY <1>1, <2>3, <3>1
    <3>2. CASE Precedes(s, c)
      BY <1>1, <2>3, <3>2, RankGrows
    <3>3. CASE Precedes(c, s)
      <4>1. RankIn(c, listed) < RankIn(s, listed)
        BY <2>3, <3>3, RankGrows
      <4>2. ~(s = c \/ Precedes(s, c))
        BY <2>3, <3>3, StagesAreOrdered
      <4> QED
        BY <1>1, <2>3, <4>1, <4>2
    <3> QED
      BY <2>3, <3>1, <3>2, <3>3, StagesAreOrdered
  <2>5. PageOf(listed) = {s \in listed : s = c \/ Precedes(s, c)}
    BY <2>4 DEF PageOf
  <2> QED
    BY <2>3, <2>5 DEF c
<1> QED
  BY <1>2, <1>3

-----------------------------------------------------------------------------
(* Pipelines: a walk over pages of stages in the order of their ids. *)

\* What an open walk has shown is what comes up to its cursor, as long as nothing it lists was
\* written and the order is that of the ids.
WalkShown ==
  /\ walk.pc = "new" => walk.seen = {} /\ walk.cursor = 0 /\ ~walk.twice /\ ~walk.changed
  /\ walk.pc = "open" /\ ~walk.changed /\ InIdOrder(LiveStages(walk.of)) =>
       walk.seen = {s \in LiveStages(walk.of) : s <= walk.cursor} /\ ~walk.twice

WalkInvariant == PipelinesTypeOK /\ WalkShown

LEMMA PipelinesInitHolds == PipelinesInit => WalkInvariant
<1> SUFFICES ASSUME PipelinesInit PROVE WalkInvariant
  OBVIOUS
<1>1. [state |-> "none", of |-> Everywhere, position |-> 0] \in StageRows
  BY Zenon DEF StageRows
<1>2. walk \in WalkRows
  BY Zenon DEF PipelinesInit, WalkRows
<1>3. stage \in [StageIds -> StageRows]
  BY <1>1 DEF PipelinesInit
<1>4. pipeline \in [PipelineIds -> [state : {"none", "live", "archived"}, is_default : BOOLEAN]]
  BY DEF PipelinesInit
<1>5. WalkShown
  BY DEF PipelinesInit, WalkShown
<1> QED
  BY <1>2, <1>3, <1>4, <1>5 DEF WalkInvariant, PipelinesTypeOK, StageRows, WalkRows

\* A page of a walk that nothing has disturbed: none of it was shown before, and with it all is
\* shown that comes up to the new cursor, or to the end.
LEMMA PageGoesOn ==
  ASSUME WalkInvariant, NEW of \in PipelineIds \cup {Everywhere}, ListStages(of),
         ~walk.changed, InIdOrder(LiveStages(of))
  PROVE  /\ ~walk.twice /\ walk.seen \cap PageOf(Beyond(of, walk.cursor)) = {}
         /\ \/ /\ CursorOf(Beyond(of, walk.cursor)) = 0
               /\ walk.seen \cup PageOf(Beyond(of, walk.cursor)) = LiveStages(of)
            \/ /\ CursorOf(Beyond(of, walk.cursor)) \in StageIds
               /\ walk.seen \cup PageOf(Beyond(of, walk.cursor)) =
                    {s \in LiveStages(of) : s <= CursorOf(Beyond(of, walk.cursor))}
<1> DEFINE live == LiveStages(of)
           listed == Beyond(of, walk.cursor)
           c    == CursorOf(listed)
<1>1. /\ PipelinesTypeOK /\ walk.cursor \in Nat
      /\ \A s \in live : s \in StageIds /\ s \in Nat /\ s # 0
  <2>1. PipelinesTypeOK /\ \A s \in StageIds : s \in Nat /\ s # 0
    BY PipelinesAssumption DEF WalkInvariant
  <2>2. walk.cursor \in StageIds \cup {0}
    BY <2>1 DEF PipelinesTypeOK
  <2>3. \A s \in live : s \in StageIds
    BY DEF LiveStages
  <2> QED
    BY <2>1, <2>2, <2>3
<1>2. listed = {s \in live : s > walk.cursor}
  BY DEF Beyond
<1>3. walk.seen = {s \in live : s <= walk.cursor} /\ ~walk.twice
  <2>1. CASE walk.pc = "new"
    <3>1. walk.seen = {} /\ walk.cursor = 0 /\ ~walk.twice
      BY <2>1 DEF WalkInvariant, WalkShown
    <3>2. {s \in live : s <= 0} = {}
      <4> HIDE DEF live
      <4> QED
        BY <1>1
    <3> QED
      BY <3>1, <3>2
  <2>2. CASE walk.pc = "open" /\ walk.of = of
    BY <2>2 DEF WalkInvariant, WalkShown
  <2> QED
    BY <2>1, <2>2 DEF ListStages
<1>4. \A s, t \in live : s # t => (Precedes(s, t) <=> s < t)
  <2>1. \A s, t \in live : Precedes(s, t) => s < t
    BY DEF InIdOrder
  <2>2. \A s, t \in live : s # t => Precedes(s, t) \/ Precedes(t, s)
    BY <1>1, StagesAreOrdered
  <2> HIDE DEF live
  <2> QED
    BY <1>1, <2>1, <2>2
<1>5. listed \in SUBSET StageIds /\ listed \subseteq live
  BY <1>1, <1>2
<1> HIDE DEF live, listed
<1>6. PageOf(listed) \subseteq listed
  BY DEF PageOf
<1>7. walk.seen \cap PageOf(listed) = {}
  <2>1. \A s \in live : ~(s <= walk.cursor /\ s > walk.cursor)
    BY <1>1
  <2> QED
    BY <1>2, <1>3, <1>6, <2>1
<1>8. CASE c = 0 /\ PageOf(listed) = listed
  <2>1. \A s \in live : s <= walk.cursor \/ s > walk.cursor
    BY <1>1
  <2>2. walk.seen \cup listed = live
    BY <1>2, <1>3, <2>1
  <2> QED
    BY <1>3, <1>7, <1>8, <2>2 DEF live, listed
<1>9. CASE c \in listed /\ PageOf(listed) = {s \in listed : s = c \/ Precedes(s, c)}
  <2> HIDE DEF c
  <2>1. \A s \in live : s = c \/ Precedes(s, c) <=> s <= c
    <3>1. c \in live /\ c \in Nat
      BY <1>1, <1>5, <1>9
    <3>2. \A s \in live : s # c => (Precedes(s, c) <=> s < c)
      BY <1>4, <3>1
    <3>3. ~Precedes(c, c) /\ \A s \in live : s \in Nat
      BY <1>1, <3>1, StagesAreOrdered
    <3> QED
      BY <3>1, <3>2, <3>3
  <2>2. \A s \in live : s <= c <=> s <= walk.cursor \/ (s > walk.cursor /\ s <= c)
    <3>1. c \in live /\ c > walk.cursor
      BY <1>2, <1>9
    <3> QED
      BY <1>1, <3>1
  <2>3. walk.seen \cup PageOf(listed) = {s \in live : s <= c}
    BY <1>2, <1>3, <1>5, <1>9, <2>1, <2>2
  <2> QED
    BY <1>3, <1>5, <1>7, <1>9, <2>3 DEF live, listed, c
<1> QED
  BY <1>1, <1>5, <1>8, <1>9, PageEndsAtCursor

LEMMA ListStagesHolds ==
  ASSUME WalkInvariant, NEW of \in PipelineIds \cup {Everywhere}, ListStages(of)
  PROVE  WalkInvariant'
<1> DEFINE listed == Beyond(of, walk.cursor)
           pc   == IF CursorOf(listed) = 0 THEN "done" ELSE "open"
           twice == walk.twice \/ walk.seen \cap PageOf(listed) # {}
           row  == [walk EXCEPT !.pc = pc, !.of = of, !.cursor = CursorOf(listed),
                                !.seen = @ \cup PageOf(listed), !.twice = twice]
<1>1. /\ walk \in WalkRows /\ PipelinesTypeOK /\ UNCHANGED <<pipeline, stage>> /\ walk' = row
  BY DEF WalkInvariant, PipelinesTypeOK, WalkRows, ListStages
<1>2. listed \in SUBSET StageIds /\ PageOf(listed) \in SUBSET StageIds
  BY DEF Beyond, LiveStages, PageOf
<1>3. CursorOf(listed) \in StageIds \cup {0}
  BY <1>1, <1>2, PageEndsAtCursor
<1>4. /\ row \in WalkRows /\ row.pc = pc /\ row.of = of /\ row.cursor = CursorOf(listed)
      /\ row.seen = walk.seen \cup PageOf(listed) /\ row.twice = twice /\ row.changed = walk.changed
  <2> DEFINE c == CursorOf(listed)
             page == PageOf(listed)
  <2>1. pc \in {"new", "open", "done"} /\ twice \in BOOLEAN /\ walk.seen \cup page \in SUBSET StageIds
    <3>1. walk.seen \in SUBSET StageIds
      BY <1>1, Zenon DEF WalkRows
    <3>2. twice \in BOOLEAN
      BY Zenon
    <3> QED
      BY <1>2, <3>1, <3>2
  <2> HIDE DEF c, page, pc, twice
  <2> QED
    BY <1>1, <1>3, <2>1, Zenon DEF WalkRows, c, page
<1>5. PipelinesTypeOK'
  <2>1. walk' \in WalkRows
    BY <1>1, <1>4
  <2> QED
    BY <1>1, <2>1 DEF PipelinesTypeOK, WalkRows
<1>6. LiveStages(of)' = LiveStages(of) /\ InIdOrder(LiveStages(of))' = InIdOrder(LiveStages(of))
  BY <1>1 DEF LiveStages, InIdOrder, Precedes
<1>7. WalkShown'
  <2>1. row.pc # "new"
    BY <1>4
  <2>2. ASSUME row.pc = "open", ~row.changed, InIdOrder(LiveStages(of))
        PROVE  row.seen = {s \in LiveStages(of) : s <= row.cursor} /\ ~row.twice
    <3>1. ~walk.changed /\ CursorOf(listed) # 0
      BY <1>4, <2>2
    <3>2. /\ ~walk.twice /\ walk.seen \cap PageOf(listed) = {}
          /\ walk.seen \cup PageOf(listed) = {s \in LiveStages(of) : s <= CursorOf(listed)}
      BY <2>2, <3>1, PageGoesOn
    <3> QED
      BY <1>4, <3>2
  <2> HIDE DEF row
  <2>3. LiveStages(walk.of)' = LiveStages(of)
    <3>1. walk'.of = of /\ stage' = stage
      BY <1>1, <1>4
    <3> QED
      BY <3>1 DEF LiveStages
  <2>4. InIdOrder(LiveStages(walk.of))' = InIdOrder(LiveStages(of))
    BY <1>1, <2>3 DEF InIdOrder, Precedes
  <2> QED
    BY <1>1, <1>4, <2>1, <2>2, <2>3, <2>4 DEF WalkShown
<1> QED
  BY <1>5, <1>7 DEF WalkInvariant

\* A write of a stage is noticed by the walk that lists it, and no other.
LEMMA StageWriteHolds ==
  ASSUME WalkInvariant, NEW s \in StageIds, NEW row \in StageRows,
         NEW p \in PipelineIds \cup {Everywhere},
         stage' = [stage EXCEPT ![s] = row], walk' = Noticed(p), UNCHANGED pipeline,
         stage[s].state = "live" => stage[s].of = p, row.state = "live" => row.of = p
  PROVE  WalkInvariant'
<1>1. walk \in WalkRows /\ stage \in [StageIds -> StageRows]
  BY DEF WalkInvariant, PipelinesTypeOK, WalkRows, StageRows
<1>2. /\ walk' \in WalkRows /\ walk'.pc = walk.pc /\ walk'.of = walk.of /\ walk'.cursor = walk.cursor
      /\ walk'.seen = walk.seen /\ walk'.twice = walk.twice
      /\ walk'.changed = (walk.changed \/ (walk.pc = "open" /\ walk.of \in {p, Everywhere}))
  BY <1>1, Zenon DEF Noticed, WalkRows
<1>3. stage' \in [StageIds -> StageRows] /\ stage'[s] = row /\ \A t \in StageIds \ {s} : stage'[t] = stage[t]
  BY <1>1
<1>4. PipelinesTypeOK'
  BY <1>2, <1>3 DEF WalkInvariant, PipelinesTypeOK, WalkRows, StageRows
<1>5. ASSUME walk.of \notin {p, Everywhere}
      PROVE  /\ LiveStages(walk.of)' = LiveStages(walk.of)
             /\ InIdOrder(LiveStages(walk.of))' = InIdOrder(LiveStages(walk.of))
  <2>1. s \notin LiveStages(walk.of) /\ s \notin LiveStages(walk.of)'
    BY <1>2, <1>3, <1>5 DEF LiveStages
  <2>2. LiveStages(walk.of)' = LiveStages(walk.of)
    BY <1>2, <1>3, <2>1 DEF LiveStages
  <2> QED
    BY <1>3, <2>1, <2>2 DEF InIdOrder, Precedes
<1>6. WalkShown'
  BY <1>2, <1>5 DEF WalkInvariant, WalkShown
<1> QED
  BY <1>4, <1>6 DEF WalkInvariant

LEMMA PipelinesStepHolds == WalkInvariant /\ [PipelinesNext]_pipelineVars => WalkInvariant'
<1> SUFFICES ASSUME WalkInvariant, [PipelinesNext]_pipelineVars PROVE WalkInvariant'
  OBVIOUS
<1>1. /\ \A s \in StageIds : stage[s] \in StageRows
      /\ pipeline \in [PipelineIds -> [state : {"none", "live", "archived"}, is_default : BOOLEAN]]
  BY DEF WalkInvariant, PipelinesTypeOK, StageRows
<1>2. ASSUME NEW p \in PipelineIds,
             \/ \E default \in BOOLEAN : CreatePipeline(p, default) \/ UpdatePipeline(p, default)
             \/ ArchivePipeline(p)
      PROVE  WalkInvariant'
  <2>1. UNCHANGED <<stage, walk>>
    BY <1>2 DEF CreatePipeline, UpdatePipeline, ArchivePipeline
  <2>2. pipeline' \in [PipelineIds -> [state : {"none", "live", "archived"}, is_default : BOOLEAN]]
    <3>1. ASSUME NEW default \in BOOLEAN
          PROVE  /\ CreatePipeline(p, default) => pipeline' \in
                      [PipelineIds -> [state : {"none", "live", "archived"}, is_default : BOOLEAN]]
                 /\ UpdatePipeline(p, default) => pipeline' \in
                      [PipelineIds -> [state : {"none", "live", "archived"}, is_default : BOOLEAN]]
      BY <1>1, <3>1 DEF CreatePipeline, UpdatePipeline
    <3>2. ArchivePipeline(p) => pipeline' \in
            [PipelineIds -> [state : {"none", "live", "archived"}, is_default : BOOLEAN]]
      BY <1>1 DEF ArchivePipeline
    <3> QED
      BY <1>2, <3>1, <3>2
  <2>3. WalkShown'
    BY <2>1 DEF WalkInvariant, WalkShown, LiveStages, InIdOrder, Precedes
  <2> QED
    BY <2>1, <2>2, <2>3 DEF WalkInvariant, PipelinesTypeOK
<1>3. ASSUME NEW s \in StageIds, NEW p \in PipelineIds, NEW place \in Places, CreateStage(s, p, place)
      PROVE  WalkInvariant'
  <2> DEFINE row == [state |-> "live", of |-> p, position |-> place]
  <2>1. row \in StageRows /\ row.of = p
    BY DEF StageRows
  <2>2. /\ stage' = [stage EXCEPT ![s] = row] /\ walk' = Noticed(p) /\ UNCHANGED pipeline
        /\ stage[s].state # "live"
    BY <1>3 DEF CreateStage
  <2> HIDE DEF row
  <2> QED
    BY <2>1, <2>2, StageWriteHolds
<1>4. ASSUME NEW s \in StageIds, NEW place \in Places, UpdateStage(s, place)
      PROVE  WalkInvariant'
  <2> DEFINE row == [stage[s] EXCEPT !.position = place]
  <2>1. row \in StageRows /\ row.of = stage[s].of /\ stage[s].of \in PipelineIds \cup {Everywhere}
    BY <1>1, Zenon DEF StageRows
  <2>2. stage' = [stage EXCEPT ![s] = row] /\ walk' = Noticed(stage[s].of) /\ UNCHANGED pipeline
    BY <1>4, Zenon DEF UpdateStage
  <2> HIDE DEF row
  <2>3. PICK p \in PipelineIds \cup {Everywhere} : p = stage[s].of
    BY <2>1
  <2> QED
    BY <2>1, <2>2, <2>3, StageWriteHolds
<1>5. ASSUME NEW s \in StageIds, ArchiveStage(s)
      PROVE  WalkInvariant'
  <2> DEFINE row == [state |-> "archived", of |-> Everywhere, position |-> 0]
  <2>1. row \in StageRows /\ row.state # "live" /\ stage[s].of \in PipelineIds \cup {Everywhere}
    BY <1>1, Zenon DEF StageRows
  <2>2. stage' = [stage EXCEPT ![s] = row] /\ walk' = Noticed(stage[s].of) /\ UNCHANGED pipeline
    BY <1>5 DEF ArchiveStage
  <2> HIDE DEF row
  <2>3. PICK p \in PipelineIds \cup {Everywhere} : p = stage[s].of
    BY <2>1
  <2> QED
    BY <2>1, <2>2, <2>3, StageWriteHolds
<1>6. CASE UNCHANGED pipelineVars
  <2>1. WalkShown'
    BY <1>6 DEF pipelineVars, WalkInvariant, WalkShown, LiveStages, InIdOrder, Precedes
  <2> QED
    BY <1>6, <2>1 DEF pipelineVars, WalkInvariant, PipelinesTypeOK
<1> QED
  BY <1>2, <1>3, <1>4, <1>5, <1>6, ListStagesHolds DEF PipelinesNext

\* A walk that a write of a stage did not overtake, over stages in the order of their ids, shows
\* every stage exactly once, whatever the limit of a page.
THEOREM PagesMeetAtCursors == PipelinesSpec => SkipsNeedReorder
<1> DEFINE Whole == walk.pc # "done" /\ walk'.pc = "done" =>
                      \/ walk.changed \/ ~InIdOrder(LiveStages(walk'.of))
                      \/ walk'.seen = LiveStages(walk'.of) /\ ~walk'.twice
<1>1. WalkInvariant /\ [PipelinesNext]_pipelineVars => [Whole]_pipelineVars
  <2> SUFFICES ASSUME WalkInvariant, PipelinesNext, walk.pc # "done", walk'.pc = "done",
                      ~walk.changed, InIdOrder(LiveStages(walk'.of))
               PROVE  walk'.seen = LiveStages(walk'.of) /\ ~walk'.twice
    OBVIOUS
  <2>1. walk \in WalkRows
    BY DEF WalkInvariant, PipelinesTypeOK, WalkRows
  <2>2. \A p : Noticed(p).pc = walk.pc
    BY <2>1 DEF Noticed, WalkRows
  <2>3. PICK of \in PipelineIds \cup {Everywhere} : ListStages(of)
    BY <2>2 DEF PipelinesNext, CreatePipeline, UpdatePipeline, ArchivePipeline, CreateStage,
                UpdateStage, ArchiveStage
  <2> DEFINE listed == Beyond(of, walk.cursor)
             pc == IF CursorOf(listed) = 0 THEN "done" ELSE "open"
             twice == walk.twice \/ walk.seen \cap PageOf(listed) # {}
  <2>4. /\ walk'.pc = pc /\ walk'.of = of /\ walk'.seen = walk.seen \cup PageOf(listed)
        /\ walk'.twice = twice
    <3>1. walk' = [walk EXCEPT !.pc = pc, !.of = of, !.cursor = CursorOf(listed),
                               !.seen = @ \cup PageOf(listed), !.twice = twice]
      BY <2>3, Zenon DEF ListStages
    <3> HIDE DEF pc, twice, listed
    <3> QED
      BY <2>1, <3>1, Zenon DEF WalkRows
  <2>5. CursorOf(listed) = 0
    BY <2>4
  <2>6. /\ ~walk.twice /\ walk.seen \cap PageOf(listed) = {}
        /\ walk.seen \cup PageOf(listed) = LiveStages(of)
    <3>1. 0 \notin StageIds
      BY PipelinesAssumption
    <3> QED
      BY <2>3, <2>4, <2>5, <3>1, PageGoesOn
  <2> QED
    BY <2>4, <2>6
<1> QED
  BY <1>1, PipelinesInitHolds, PipelinesStepHolds, PTL DEF PipelinesSpec, SkipsNeedReorder

-----------------------------------------------------------------------------
(* Captures of activities.  Until somebody archives a row of its key, a capture  *)
(* that collided has the row it collided with, whichever row it then takes.       *)

Activity == [state : {"absent", "live", "archived"}, key : SourceKeys \cup {NoAct},
             task : BOOLEAN, due : BOOLEAN, done : BOOLEAN, version : Nat]

Sought(c) ==
  /\ capture[c].pc = "conflict" => capture[c].key # NoAct
  /\ capture[c].pc \in {"found", "ok", "missing"} => capture[c].id \in OfKey(capture[c].key)
  /\ capture[c].pc \in {"conflict", "found"} /\ ~capture[c].raced =>
       IF capture[c].key = NoAct THEN activity[capture[c].id].state = "live"
       ELSE Taken(capture[c].key)
  /\ capture[c].pc = "missing" /\ ~capture[c].raced =>
       /\ activity[capture[c].id].state = "archived"
       /\ \E a \in OfKey(capture[c].key) : a # capture[c].id

ActInvariant ==
  /\ activity \in [Acts -> Activity] /\ capture \in [Captures -> CaptureRows]
  /\ \A c \in Captures : Sought(c)

LEMMA ActInitHolds == ActInit => ActInvariant
<1> SUFFICES ASSUME ActInit PROVE ActInvariant
  OBVIOUS
<1>1. activity \in [Acts -> Activity]
  BY DEF ActInit, Activity
<1>2. capture \in [Captures -> CaptureRows] /\ \A c \in Captures : capture[c].pc = "new"
  BY DEF ActInit, CaptureRows
<1>3. \A c \in Captures : Sought(c)
  BY <1>2 DEF Sought
<1> QED
  BY <1>1, <1>2, <1>3 DEF ActInvariant

\* What was found stays found by a step that archives nothing.
LEMMA SoughtStays ==
  ASSUME \A a \in Acts : activity[a].state # "absent" =>
           activity'[a].state = activity[a].state /\ activity'[a].key = activity[a].key,
         NEW c \in Captures, capture'[c] = capture[c], capture[c].pc # "new" => Sought(c)
  PROVE  Sought(c)'
<1>1. \A k : \A a \in OfKey(k) : a \in OfKey(k)' /\ activity'[a].state = activity[a].state
  BY DEF OfKey
<1>2. \A k : Taken(k) => Taken(k)'
  BY <1>1 DEF Taken
<1>3. CASE capture[c].pc = "new"
  BY <1>3 DEF Sought
<1>4. CASE capture[c].pc # "new"
  <2>1. Sought(c)
    BY <1>4
  <2>2. capture[c].pc = "found" /\ ~capture[c].raced /\ capture[c].key = NoAct =>
          activity'[capture[c].id].state = "live"
    BY <1>1, <2>1 DEF Sought
  <2>3. capture[c].pc \in {"conflict", "found"} /\ ~capture[c].raced /\ capture[c].key # NoAct =>
          Taken(capture[c].key)'
    BY <1>2, <2>1 DEF Sought
  <2>4. capture[c].pc \in {"found", "ok", "missing"} => capture[c].id \in OfKey(capture[c].key)'
    BY <1>1, <2>1 DEF Sought
  <2>5. capture[c].pc = "missing" /\ ~capture[c].raced =>
          /\ activity'[capture[c].id].state = "archived"
          /\ \E a \in OfKey(capture[c].key)' : a # capture[c].id
    BY <1>1, <2>1 DEF Sought
  <2> QED
    BY <2>1, <2>2, <2>3, <2>4, <2>5 DEF Sought
<1> QED
  BY <1>3, <1>4

LEMMA InsertActivityHolds ==
  ASSUME ActInvariant, NEW c \in Captures, NEW a \in Acts, NEW k \in SourceKeys \cup {NoAct},
         NEW task \in BOOLEAN, NEW due \in BOOLEAN, NEW links,
         InsertActivity(c, a, k, task, due, links)
  PROVE  ActInvariant'
<1> DEFINE row == [state |-> "live", key |-> k, task |-> task, due |-> due, done |-> FALSE,
                   version |-> 1]
           call == [capture[c] EXCEPT !.pc = "found", !.key = k, !.id = a]
<1>1. /\ activity[a].state = "absent" /\ capture[c].pc = "new"
      /\ activity' = [activity EXCEPT ![a] = row] /\ capture' = [capture EXCEPT ![c] = call]
  BY DEF InsertActivity
<1>2. row \in Activity /\ row.state = "live" /\ row.key = k
  BY DEF Activity
<1>3. call \in CaptureRows /\ call.pc = "found" /\ call.key = k /\ call.id = a
  BY DEF ActInvariant, CaptureRows
<1> HIDE DEF row, call
<1>4. /\ activity' \in [Acts -> Activity] /\ activity'[a] = row
      /\ \A b \in Acts \ {a} : activity'[b] = activity[b]
  BY <1>1, <1>2 DEF ActInvariant
<1>5. /\ capture' \in [Captures -> CaptureRows] /\ capture'[c] = call
      /\ \A d \in Captures \ {c} : capture'[d] = capture[d]
  BY <1>1, <1>3 DEF ActInvariant
<1>6. a \in OfKey(k)'
  BY <1>2, <1>4 DEF OfKey
<1>7. Sought(c)'
  <2>1. k # NoAct => Taken(k)'
    BY <1>2, <1>4, <1>6 DEF Taken
  <2> QED
    BY <1>2, <1>3, <1>4, <1>5, <1>6, <2>1 DEF Sought
<1>8. \A d \in Captures \ {c} : Sought(d)'
  BY <1>1, <1>4, <1>5, SoughtStays DEF ActInvariant
<1> QED
  BY <1>4, <1>5, <1>7, <1>8 DEF ActInvariant

\* A capture that collides, takes a row, or answers.
LEMMA ReplayHolds ==
  ASSUME ActInvariant, NEW c \in Captures,
         \/ \E k \in SourceKeys : SkipInsert(c, k)
         \/ \E a \in Acts : FindReplayed(c, a)
         \/ AnswerCapture(c)
  PROVE  ActInvariant'
<1>1. activity' = activity /\ Sought(c)
  BY DEF SkipInsert, FindReplayed, AnswerCapture, ActInvariant
<1>2. \A k : OfKey(k)' = OfKey(k) /\ (Taken(k)' <=> Taken(k))
  BY <1>1 DEF OfKey, Taken
<1>3. capture[c] \in CaptureRows
  BY DEF ActInvariant
<1>4. ASSUME NEW call \in CaptureRows, capture' = [capture EXCEPT ![c] = call],
             capture'[c] = call => Sought(c)'
      PROVE  ActInvariant'
  <2>1. /\ capture' \in [Captures -> CaptureRows] /\ capture'[c] = call
        /\ \A d \in Captures \ {c} : capture'[d] = capture[d]
    BY <1>4 DEF ActInvariant
  <2>2. \A d \in Captures \ {c} : Sought(d)'
    BY <1>1, <2>1, SoughtStays DEF ActInvariant
  <2> QED
    BY <1>1, <1>4, <2>1, <2>2 DEF ActInvariant
<1>5. ASSUME NEW k \in SourceKeys, SkipInsert(c, k) PROVE ActInvariant'
  <2> DEFINE call == [capture[c] EXCEPT !.pc = "conflict", !.key = k]
  <2>1. capture' = [capture EXCEPT ![c] = call] /\ Taken(k)
    BY <1>3, <1>5 DEF SkipInsert
  <2>2. call \in CaptureRows /\ call.pc = "conflict" /\ call.key = k
    BY <1>3 DEF CaptureRows
  <2> HIDE DEF call
  <2>3. k # NoAct /\ Taken(k)'
    BY <1>2, <2>1 DEF Taken
  <2>4. capture'[c] = call => Sought(c)'
    BY <2>2, <2>3 DEF Sought
  <2> QED
    BY <1>4, <2>1, <2>2, <2>4
<1>6. ASSUME NEW a \in Acts, FindReplayed(c, a) PROVE ActInvariant'
  <2> DEFINE call == [capture[c] EXCEPT !.pc = "found", !.id = a]
  <2>1. /\ capture' = [capture EXCEPT ![c] = call]
        /\ capture[c].pc = "conflict" /\ a \in OfKey(capture[c].key)
    BY <1>3, <1>6 DEF FindReplayed
  <2>2. /\ call \in CaptureRows /\ call.pc = "found" /\ call.key = capture[c].key
        /\ call.id = a /\ call.raced = capture[c].raced
    BY <1>3 DEF CaptureRows
  <2> HIDE DEF call
  <2>3. capture[c].key # NoAct /\ (~capture[c].raced => Taken(capture[c].key))
    BY <1>1, <2>1 DEF Sought
  <2>4. capture'[c] = call => Sought(c)'
    BY <1>2, <2>1, <2>2, <2>3 DEF Sought
  <2> QED
    BY <1>4, <2>1, <2>2, <2>4
<1>7. ASSUME AnswerCapture(c) PROVE ActInvariant'
  <2> DEFINE call == [capture[c] EXCEPT !.pc = IF activity[capture[c].id].state = "live"
                                                 THEN "ok" ELSE "missing"]
  <2>1. capture' = [capture EXCEPT ![c] = call] /\ capture[c].pc = "found"
    BY <1>3, <1>7 DEF AnswerCapture
  <2>2. /\ call \in CaptureRows /\ call.key = capture[c].key
        /\ call.id = capture[c].id /\ call.raced = capture[c].raced
        /\ call.pc = IF activity[capture[c].id].state = "live" THEN "ok" ELSE "missing"
    BY <1>3 DEF CaptureRows
  <2> HIDE DEF call
  <2>3. capture[c].id \in OfKey(capture[c].key)
    BY <1>1, <2>1 DEF Sought
  <2>4. activity[capture[c].id].state \in {"live", "archived"}
    BY <2>3 DEF OfKey, ActInvariant, Activity
  <2>5. activity[capture[c].id].state = "archived" /\ ~capture[c].raced =>
          \E a \in OfKey(capture[c].key) : a # capture[c].id
    <3>1. activity[capture[c].id].state = "archived" /\ ~capture[c].raced => Taken(capture[c].key)
      BY <1>1, <2>1 DEF Sought
    <3> QED
      BY <3>1 DEF Taken
  <2>6. capture'[c] = call => Sought(c)'
    BY <1>1, <1>2, <2>2, <2>3, <2>4, <2>5 DEF Sought
  <2> QED
    BY <1>4, <2>1, <2>2, <2>6
<1> QED
  BY <1>5, <1>6, <1>7

\* An edit keeps the row's state and key.
LEMMA UpdateActivityHolds ==
  ASSUME ActInvariant, NEW a \in Acts, NEW edit \in Edits, NEW v, UpdateActivity(a, edit, v)
  PROVE  ActInvariant'
<1> DEFINE new == Edited(activity[a], edit)
           n == activity[a].version + 1
           row == [new EXCEPT !.version = n]
<1>1. capture' = capture /\ activity' = [activity EXCEPT ![a] = row]
  BY DEF UpdateActivity
<1>2. activity[a] \in Activity
  BY DEF ActInvariant
<1>3. new \in Activity /\ new.state = activity[a].state /\ new.key = activity[a].key
  BY <1>2 DEF Edited, Edits, Activity
<1>4. n \in Nat
  BY <1>2 DEF Activity
<1> HIDE DEF new, n
<1>5. row \in Activity /\ row.state = activity[a].state /\ row.key = activity[a].key
  BY <1>3, <1>4 DEF Activity
<1> HIDE DEF row
<1>6. /\ activity' \in [Acts -> Activity]
      /\ \A b \in Acts : activity'[b].state = activity[b].state /\ activity'[b].key = activity[b].key
  BY <1>1, <1>5 DEF ActInvariant
<1>7. \A c \in Captures : Sought(c)'
  BY <1>1, <1>6, SoughtStays DEF ActInvariant
<1> QED
  BY <1>1, <1>6, <1>7 DEF ActInvariant

\* Archiving the row a capture has races it.
LEMMA ArchiveActivityHolds ==
  ASSUME ActInvariant, NEW a \in Acts, ArchiveActivity(a)
  PROVE  ActInvariant'
<1> DEFINE n == activity[a].version + 1
           row == [activity[a] EXCEPT !.state = "archived", !.version = n]
           call(c) == [capture[c] EXCEPT !.raced = @ \/ (capture[c].pc \in {"conflict", "found"} /\
                                                         capture[c].key = activity[a].key)]
<1>1. /\ activity[a].state = "live"
      /\ activity' = [activity EXCEPT ![a] = row] /\ capture' = [c \in Captures |-> call(c)]
  BY DEF ArchiveActivity, ActInvariant
<1>2. row \in Activity /\ row.state = "archived" /\ row.key = activity[a].key
  <2>1. activity[a] \in Activity
    BY DEF ActInvariant
  <2>2. n \in Nat
    BY <2>1 DEF Activity
  <2> HIDE DEF n
  <2> QED
    BY <2>1, <2>2 DEF Activity
<1>3. ASSUME NEW c \in Captures
      PROVE  /\ call(c) \in CaptureRows /\ call(c).pc = capture[c].pc
             /\ call(c).key = capture[c].key /\ call(c).id = capture[c].id
             /\ ~call(c).raced => /\ ~capture[c].raced
                                  /\ capture[c].pc \in {"conflict", "found"} =>
                                       capture[c].key # activity[a].key
  <2>1. capture[c] \in CaptureRows
    BY DEF ActInvariant
  <2> QED
    BY <2>1 DEF CaptureRows
<1> HIDE DEF n, row, call
<1>4. /\ activity' \in [Acts -> Activity] /\ activity'[a] = row
      /\ \A b \in Acts \ {a} : activity'[b] = activity[b]
  BY <1>1, <1>2 DEF ActInvariant
<1>5. capture' \in [Captures -> CaptureRows] /\ \A c \in Captures : capture'[c] = call(c)
  BY <1>1, <1>3
<1>6. \A k : \A b \in OfKey(k) : b \in OfKey(k)'
  BY <1>2, <1>4 DEF OfKey
<1>7. \A k : k # activity[a].key /\ Taken(k) => Taken(k)'
  BY <1>4, <1>6 DEF Taken, OfKey
<1>8. ASSUME NEW c \in Captures PROVE Sought(c)'
  <2>0. PICK k, id : k = capture[c].key /\ id = capture[c].id
    OBVIOUS
  <2>1. /\ Sought(c)
        /\ capture'[c].pc = capture[c].pc /\ capture'[c].key = k /\ capture'[c].id = id
        /\ ~capture'[c].raced => /\ ~capture[c].raced
                                 /\ capture[c].pc \in {"conflict", "found"} => k # activity[a].key
    BY <1>3, <1>5, <2>0 DEF ActInvariant
  <2>2. capture[c].pc \in {"found", "ok", "missing"} => id \in OfKey(k) /\ id \in OfKey(k)'
    BY <1>6, <2>0, <2>1 DEF Sought
  <2>3. ASSUME capture[c].pc \in {"conflict", "found"}, ~capture'[c].raced
        PROVE  IF k = NoAct THEN activity'[id].state = "live" ELSE Taken(k)'
    <3>1. ~capture[c].raced /\ k # activity[a].key
      BY <2>1, <2>3
    <3>2. CASE k = NoAct
      <4>1. capture[c].pc = "found" /\ activity[id].state = "live"
        BY <2>0, <2>1, <2>3, <3>1, <3>2 DEF Sought
      <4>2. id \in Acts /\ activity[id].key = k
        BY <2>2, <4>1 DEF OfKey
      <4>3. id # a
        BY <3>1, <4>2
      <4> QED
        BY <1>4, <3>2, <4>1, <4>2, <4>3
    <3>3. CASE k # NoAct
      <4>1. Taken(k)
        BY <2>0, <2>1, <2>3, <3>1, <3>3 DEF Sought
      <4> QED
        BY <1>7, <3>1, <3>3, <4>1
    <3> QED
      BY <3>2, <3>3
  <2>4. ASSUME capture[c].pc = "missing", ~capture'[c].raced
        PROVE  activity'[id].state = "archived" /\ \E b \in OfKey(k)' : b # id
    <3>1. activity[id].state = "archived" /\ \E b \in OfKey(k) : b # id
      BY <2>0, <2>1, <2>4 DEF Sought
    <3>2. id \in Acts /\ id # a
      BY <1>1, <2>2, <2>4, <3>1 DEF OfKey
    <3> QED
      BY <1>4, <1>6, <3>1, <3>2
  <2> QED
    BY <2>0, <2>1, <2>2, <2>3, <2>4 DEF Sought
<1> QED
  BY <1>4, <1>5, <1>8 DEF ActInvariant

\* For any number of captures, keys and activities, however they and the updates, relinks and
\* archivings overlap: a capture never answers with a row of another key, and it misses only by
\* an archived row of its key that stands beside another.
THEOREM MissesTakeAnArchivedTwin == ActSpec => []MissIsOfAnArchivedTwin
<1>1. ActInvariant /\ [ActNext]_actVars => ActInvariant'
  <2> SUFFICES ASSUME ActInvariant, [ActNext]_actVars PROVE ActInvariant'
    OBVIOUS
  <2>1. ASSUME activity' = activity, capture' = capture PROVE ActInvariant'
    BY <2>1, SoughtStays DEF ActInvariant
  <2>2. ASSUME NEW a \in Acts, AttachFile(a) \/ \E target \in Targets : Relink(a, target)
        PROVE  ActInvariant'
    BY <2>1, <2>2 DEF Relink, AttachFile
  <2>3. CASE UNCHANGED actVars
    BY <2>1, <2>3 DEF actVars
  <2> QED
    BY <2>2, <2>3, InsertActivityHolds, ReplayHolds, UpdateActivityHolds, ArchiveActivityHolds
    DEF ActNext
<1>2. ActInvariant => MissIsOfAnArchivedTwin
  BY DEF ActInvariant, Sought, MissIsOfAnArchivedTwin
<1> QED
  BY <1>1, <1>2, ActInitHolds, PTL DEF ActSpec
=============================================================================
