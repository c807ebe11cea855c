----------------------------- MODULE CustomFields -----------------------------
(***************************************************************************)
(* backend/internal/platform/customfields: fields that are added to one kind  *)
(* of record at run time.  A field is a row of the catalog of its workspace   *)
(* and a column of the record's table, which all workspaces share.  Writers    *)
(* of records read the active fields in a transaction of their own.            *)
(***************************************************************************)
EXTENDS Naturals, FiniteSets

CONSTANTS
  Tenants,    \* workspaces, each with one record of the kind
  Slugs,      \* what DeriveSlug makes of a label: it names the column
  Texts,      \* values of a text or picklist field, and options
  Writers,    \* Create and Update calls of the record's store
  Null

ASSUME FieldAssumption == Null \notin Texts \cup Tenants

VARIABLES
  catalog,  \* custom_field rows by workspace and slug
  column,   \* the columns of the table: the values the CHECK allows
  value,    \* what the workspace's record has in each column
  writer    \* calls of the record's store

fieldVars == <<catalog, column, value, writer>>

\* allowed: options of a picklist; every text for a field without options.
Fields  == [status : {"none", "active", "retired"}, picklist : BOOLEAN, allowed : SUBSET Texts]
Columns == [exists : BOOLEAN, allowed : SUBSET Texts]

\* active: the columns the call read.  outdated is no variable of the code: those of
\* them that were retired since.
WriterRows == [pc : {"new", "read", "done"}, tenant : Tenants \cup {Null}, active : SUBSET Slugs,
               outdated : SUBSET Slugs]

FieldsTypeOK ==
  /\ catalog \in [Tenants -> [Slugs -> Fields]]
  /\ column  \in [Slugs -> Columns]
  /\ value   \in [Tenants -> [Slugs -> Texts \cup {Null}]]
  /\ writer  \in [Writers -> WriterRows]

FieldsInit ==
  /\ catalog = [t \in Tenants |-> [s \in Slugs |->
                  [status |-> "none", picklist |-> FALSE, allowed |-> {}]]]
  /\ column  = [s \in Slugs |-> [exists |-> FALSE, allowed |-> {}]]
  /\ value   = [t \in Tenants |-> [s \in Slugs |-> Null]]
  /\ writer  = [w \in Writers |-> [pc |-> "new", tenant |-> Null, active |-> {}, outdated |-> {}]]

-----------------------------------------------------------------------------
\* Mutant: the statement says ADD COLUMN IF NOT EXISTS.
AddColumn_IfNotExists(s) == TRUE

\* BuildDDL: ALTER TABLE ... ADD COLUMN fails when the table has the column, be it of
\* another workspace or of a field that was renamed or retired.
AddColumn(s) == ~column[s].exists

\* Create: the DDL, the catalog row and the audit row, all or nothing.
CreateField(t, s, picklist, options) ==
  LET allowed == IF picklist THEN options ELSE Texts
  IN /\ options # {}
     /\ AddColumn(s)
     /\ catalog[t][s].status = "none"
     /\ column'  = [column EXCEPT ![s] = [exists |-> TRUE, allowed |-> allowed]]
     /\ catalog' = [catalog EXCEPT ![t][s] =
                      [status |-> "active", picklist |-> picklist, allowed |-> allowed]]
     /\ UNCHANGED <<value, writer>>

\* Retire flips the status of a field, of one that is retired already too.
RetireField(t, s) ==
  /\ catalog[t][s].status # "none"
  /\ catalog' = [catalog EXCEPT ![t][s].status = "retired"]
  /\ writer'  = [w \in Writers |->
                   IF writer[w].tenant = t /\ writer[w].pc = "read" /\ s \in writer[w].active
                   THEN [writer[w] EXCEPT !.outdated = @ \cup {s}] ELSE writer[w]]
  /\ UNCHANGED <<column, value>>

\* ADD CONSTRAINT ... CHECK fails when a row of any workspace has another value.
Validates(s, options) == \A t \in Tenants : value[t][s] \in options \cup {Null}

\* SetOptions, the row locked: the CHECK is regenerated, then options is updated.
SetOptions(t, s, options) ==
  /\ catalog[t][s].status # "none" /\ catalog[t][s].picklist
  /\ options # {}
  /\ Validates(s, options)
  /\ column'  = [column EXCEPT ![s].allowed = options]
  /\ catalog' = [catalog EXCEPT ![t][s].allowed = options]
  /\ UNCHANGED <<value, writer>>

-----------------------------------------------------------------------------
\* Mutant: the status is not asked for.
ActiveColumns_Any(t) == {s \in Slugs : catalog[t][s].status # "none"}

\* ActiveColumns, in a transaction of its own, on a connection of its own.
ActiveColumns(t) == {s \in Slugs : catalog[t][s].status = "active"}

ReadColumns(w, t) ==
  /\ writer[w].pc = "new"
  /\ writer' = [writer EXCEPT ![w].pc = "read", ![w].tenant = t, ![w].active = ActiveColumns(t)]
  /\ UNCHANGED <<catalog, column, value>>

\* InsertColumns, UpdateSetClauses and the statement: a value of a column that was not
\* active is dropped, one that the CHECK forbids fails the statement.
WriteRecord(w, s, x) ==
  LET t == writer[w].tenant
      kept == s \in writer[w].active
  IN /\ writer[w].pc = "read"
     /\ kept => x \in column[s].allowed
     /\ value'  = IF kept THEN [value EXCEPT ![t][s] = x] ELSE value
     /\ writer' = [writer EXCEPT ![w].pc = "done"]
     /\ UNCHANGED <<catalog, column>>

FailWrite(w) ==
  /\ writer[w].pc = "read"
  /\ writer' = [writer EXCEPT ![w].pc = "done"]
  /\ UNCHANGED <<catalog, column, value>>

FieldsNext ==
  \/ \E t \in Tenants, s \in Slugs :
       \/ RetireField(t, s)
       \/ \E options \in SUBSET Texts :
            \/ SetOptions(t, s, options)
            \/ \E picklist \in BOOLEAN : CreateField(t, s, picklist, options)
  \/ \E w \in Writers : \/ FailWrite(w) \/ \E t \in Tenants : ReadColumns(w, t)
                        \/ \E s \in Slugs, x \in Texts : WriteRecord(w, s, x)

FieldsSpec == FieldsInit /\ [][FieldsNext]_fieldVars

-----------------------------------------------------------------------------
Owners(s) == {t \in Tenants : catalog[t][s].status # "none"}

\* The shared table and the catalogs agree (create.go, "all three land together or the
\* whole thing rolls back"): a column belongs to the field of exactly one workspace, its
\* CHECK allows what that field's options say, the records of that workspace keep to it
\* and those of the others have nothing there.
ColumnsMatchCatalog ==
  \A s \in Slugs :
    /\ column[s].exists <=> Owners(s) # {}
    /\ \A t \in Owners(s) :
         /\ Owners(s) = {t}
         /\ column[s].allowed = catalog[t][s].allowed
         /\ value[t][s] \in catalog[t][s].allowed \cup {Null}
    /\ \A t \in Tenants \ Owners(s) : value[t][s] = Null

\* A retired field keeps its values (retire is a status flip): one changes after that
\* only by a write whose transaction read the active columns before.
RetiredWrittenOnlyByOverlap ==
  [][\A t \in Tenants, s \in Slugs :
       catalog[t][s].status = "retired" /\ value'[t][s] # value[t][s] =>
         \E w \in Writers : /\ writer[w].pc = "read" /\ writer'[w].pc = "done"
                            /\ writer[w].tenant = t /\ s \in writer[w].outdated]_fieldVars
=============================================================================
