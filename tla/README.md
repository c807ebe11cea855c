# Verification of the Margince backend

This directory holds TLA+ models of the stateful and concurrent parts of the
Margince backend (`backend/internal`), TLC configurations that check them on
small instances, and TLAPS proofs of the results that matter most for every
value of the constants. Line references are to the repository at the commit the
models were written from; `PROJECT.json` maps every definition to its lines.

## 1. The system

Margince is a CRM whose HTTP API is used by people and by AI agents. One Go
binary (`cmd/api`) serves the API over PostgreSQL, relays domain events from a
transactional outbox to a Redis stream, and runs two River jobs (the approval
expiry every hour, the retention sweep every night). Every mutation runs in a
transaction of one workspace (`database.WithWorkspaceTx`), at READ COMMITTED, and
writes in it an audit row and, for most operations, an outbox row.

Three facts about the code shape all the models:

* **A transaction is the unit of atomicity, and a handler is often several.** A
  check made in one transaction, or before the row is locked, may be out of date
  when a later transaction acts on it. Each such boundary is a step boundary here.
* **READ COMMITTED.** Each statement sees what is committed when it starts, and an
  UPDATE that waited for a row's lock re-evaluates its WHERE on the latest
  version. A condition in the WHERE is a guard of the write; a condition tested
  on an earlier SELECT without `FOR UPDATE` is not.
* **Calls between modules commit on their own.** The approval queue, the overnight
  agent and offer acceptance each call another module's store from inside a
  transaction of their own; the callee begins and commits its own. A rollback of the
  caller leaves the callee's write.

### Components

| component | state | operations | interacts with | what is hard | what makes it correct |
|---|---|---|---|---|---|
| approvals | `approval_item`, decided events, audit rows | stage, approve, reject, modify (and restage), expire | agents stage and consume events; decisions write through the datasource provider | concurrent deciders and sweeps, effects that outlive a rollback, edits that escalate | one decider, one effect, nothing unapproved is written, no overdue item stays open |
| event outbox and relay | `event_outbox`, the Redis stream, `published_at` | commit with event, read batch, XADD, stamp, fail | every store writes events; consumers read the stream | overlapping relays, a failure between XADD and stamp, commit order against `created_at` | at least once, no ghosts, cause before effect |
| deals | `deal`, `deal_stage_history`, `stage`, consumed approval tokens | create, advance, patch, archive, restore; archive a stage | tier gate and approval tokens; offers write amounts; the overnight agent writes close dates | gate judged before the transaction, version races, patch against advance | a governed move is approved, one write per version, history reads as moves |
| overnight agent | a pass, staged items, the executor's handled events | produce, apply green, stage yellow, execute on decided | approvals (abstract queue), deals, the relay's delivery | effects outside the transaction, redelivery, deals edited meanwhile | only what was decided is applied, nothing newer is overwritten |
| people | `person`, `person_email`, merge audit | create, archive, restore, merge | leads promote into it, retention erases from it, relationships point to it | checks before unlocked writes; opposite and chained merges | a merge is final, nothing is left behind, pointers end |
| offers | `offer`, lines, totals, PDF reference | create, add/edit/delete line, send, regenerate, render, accept | writes the deal; blob store | accept spanning two modules, render spanning several transactions, revisions | a sent offer is immutable, one revision stands, a PDF shows the totals |
| leads | `lead` | create, patch, disqualify, archive, promote | creates people; retention acts on it | promote reads without a lock | a lead becomes one person |
| privacy (gdpr) | retention policies, holds, consents, suppression list | sweep, anonymize, archive, erase, record consent | leads, people | sweep collects first and acts later; erasure in several statements | protected records are spared, what is due is acted on, an erasure is whole |
| organizations, partners | `organization`, domains, parents, `partner` | create, patch, archive, restore, merge, upsert | deals and relationships point to them | merges as for people; a trigger against parent cycles reads what is committed | a merged organization owns nothing, one primary domain, parents form no cycle |
| relationships | `relationship` under two partial unique indexes | create, update, archive; relinked by merges of people | people | a merge moves rows that an index may refuse | a merge keeps roles and one primary employment |
| activities | `activity`, links, source keys | capture, update, relink, archive | connectors deliver again | replay by key after an archive | a replay answers the existing activity |
| record grants | owner, `record_grant` | create, revoke | people, deals | own access resolved before the insert | nobody grants more than they hold |
| pipelines and stages | `pipeline`, `stage` | create, reorder, default, archive, list by pages | deals | reorder while a client walks the pages | one default; a walk shows every stage once |
| records: attachments | `attachment`, links and their notes, accepted fields | upload, scan, read, download, request access, accept an extraction, archive | blob store, deals, activities | a row that changes between the read and the link; a note per field, each on its own | only clean files of visible deals are linked; what was written is on the timeline |
| identity | sessions, passports, role assignments, OAuth codes, connector secrets | log in, touch, revoke, grant and revoke roles, mint, redeem, rotate | middleware | a late touch, the last administrator, redemption that rolls back | a revoked session stays so, an administrator stays, a code grants once |
| custom fields | `custom_field`, a column of a table all workspaces share | create, retire, set options, write records | every store reads the catalogue | DDL beside traffic, a stale catalogue | the columns are those the catalogues ask for, a retired field is frozen |
| quotas, roll-ups, field history, forecast, lists, search | none of their own | read | all | | |
| platform | transactions, tier gate, blob store, key vault, audit, logging, HTTP | | all | | |
| frontend, CLI tools, generated contracts, migrations | none at run time | | | | |

`PROJECT.json` lists each with its sources and status, and under "hazards" what in
this code a test would hardly reach, at its line.

## 2. Modules

A module models one component; `MC<Module>` gives it model values, symmetry and the
definitions a `.cfg` cannot write.

| module | models | state | composition |
|---|---|---|---|
| `ApprovalQueue` | what the approval queue promises: items opened and settled once | `state`, `decider` | abstract |
| `Approvals` | `modules/approvals`: staging, decisions, expiry | rows, row locks, requests, effects, outbox, audit | implements `ApprovalQueue` |
| `EventDelivery` | causal at-least-once delivery of committed events | `committed`, `causes`, `delivered`, `done` | abstract |
| `OutboxRelay` | `platform/events`: writing transactions, relays, stamp | transactions, stream, `published` | implements `EventDelivery` |
| `Deals` | advance with its gate, patch, archive, restore, stage archive | the row, stages, requests, history, events, tokens | |
| `DealCreation` | `POST /deals` with an Idempotency-Key | rows, audit, requests | |
| `Pipelines` | pipelines, stages and a walk over `GET /stages` | `pipeline`, `stage`, `walk` | |
| `Offers` | drafts, lines, send, regenerate, render, accept | offers with lines, blob, deal, accepts, renders | |
| `CustomFields` | `platform/customfields` | `catalog`, `column`, `value`, `writer` | |
| `Attachments` | attachments of one deal | rows, requests, deal fields, notes | |
| `Overnight` | passes, the executor | abstract queue, deals' versions, passes, handling | uses the abstract queue that `Approvals` implements and the delivery that `OutboxRelay` implements |
| `PersonMerge` | create, archive, restore, merge of people | people, e-mails, requests, audit | |
| `Organizations` | organizations, domains, parents, partners | rows, links, requests | |
| `Relationships` | employments and roles on deals, relinked by merges | `edge`, `merge` | |
| `Activities` | capture, replay, update, relink, archive | rows, links, attached files, events, captures | |
| `RecordGrants` | sharing one record | owner, grants, requests | |
| `Identity` | sessions, members, passports, OAuth codes, connector secrets | the rows, a clock, open calls | |
| `Leads` | lead rows and promotion | leads, attached files, people, open promotions | EXTENDed by `Retention` |
| `Retention` | sweep, erasure, consent over leads and people | e-mails, consents, policies, batch, erasure, suppression | EXTENDS `Leads` |
| `MCSales` | offers, deal creation, pipelines, custom fields, attachments | `part` and theirs | sum of five |
| `MCDirectory` | people, organizations, relationships, grants, identity | `part` and theirs | sum of five, identity in four |
| `ApprovalsProofs`, `OutboxRelayProofs`, `DealsProofs`, `OvernightProofs`, `RetentionProofs` | theorems about the module they are named for | | EXTENDS it |
| `DirectoryProofs` | theorems about `PersonMerge`, `Organizations`, `Relationships` | | EXTENDS them |
| `SalesProofs` | theorems about `DealCreation`, `CustomFields`, `Offers`, `Attachments`, `Pipelines`, `Activities` | | EXTENDS them |
| `AccessProofs` | theorems about `Identity`, `RecordGrants` | | EXTENDS them |

**Sums.** The components of `MCSales` share no rows, and neither do those of `MCDirectory`; a
product of them would only multiply their states. In the sums the variable `part` says
which one a behaviour exercises, and the others keep their initial values, so one run
explores each component in full and evaluates every property in it. The components take the
same model values (`{a, b, c}` are people, organizations and so on), because that makes one
group of permutations a symmetry of them all. Where rows do meet, in the code, each module
models the other's statements itself: a merge of people in `Relationships`, the deal in
`Offers` and `Attachments`.

## 3. How the models correspond to the code

Common conventions: a row is a record; an UPDATE with a WHERE is an action whose guard is
the WHERE, evaluated on the latest committed row; a SELECT whose result is used
later is an action of its own that stores what it read; `UNCHANGED` lists what the
statement leaves alone. An error return is a step to a final state. Audit rows and
events are modelled where a property is about them. Ids, payloads, addresses and
currencies are model values; texts, amounts (except an offer's totals) and times
are left out, and a time that matters is the fact a condition on it tests ("is
overdue", "is older than the policy retains").

**Approvals.** The request's `pc` follows `decision.go`: `Get` (the unlocked read and the
status test), `Claim` (`Repo.Transition`, which waits for the row lock and then
finds the row pending or not), `Exec` (`execAction`, committed by the provider), `Commit`
(status, audit rows, event and the restaged item become visible together) and
`Rollback` from any of them, which frees the lock but keeps what `Exec` wrote. A sweep
is `SweepRead` (the SELECT) and one `ExpireOne` per row; `SweepFail` drops the rest. `lock`
is the row lock of the open transaction. `Stage` is one transaction.
`DeciderEmits` and `SweepEmits` say whether the Decider and the worker were given an Emitter;
`cmd/api` gives the worker none. With `DeciderEmits = FALSE` no decision has an event, which
the theorems cover.

**OutboxRelay.** A transaction begins (`created_at DEFAULT now()` is fixed here), writes
(taking the entity's row lock), and commits or aborts. A relay polls the oldest `BatchSize`
unpublished committed rows, adds them to the stream one by one and stamps each. `Fail`
is an error or crash anywhere in the batch, also between XADD and the stamp.
The relay's SELECT takes no lock, so two relays may hold the same rows. `EventDelivery` asks
of the stream that nothing is in it before everything that had committed when its transaction
began (`causes`), and of a stamp that the event is in the stream.

**Deals.** `ReadStages`, `Gate` and `Advance` are the three transactions of an advance;
`PrepareUpdate` and `Update` are what `applyUpdate` reads before its UPDATE and the
UPDATE; `Archive` is one guarded UPDATE; `PrepareRestore` and `Restore` are the unlocked
read and the unguarded UPDATE. `Valid` is the conjunction of the CHECK constraints:
a write that breaks them fails. `match` is If-Match, 0 when the client sends none; the header
may name any number, `MaxMatch` bounds it, and `ahead` is history: the deal had not reached
that version when the handler read it.

**DealCreation.** `Find` is the handler's look-up by Idempotency-Key, `Create` the
transaction of `DealStore.Create`; `began` records what had committed when the
request came, to tell a retry after the answer from one that overlaps.

**Overnight.** A pass reads the open deals (`Produce`), writes each green effect in a
transaction of the deals module (`ApplyGreen`), stages the confirm-first half in
its own, and commits or fails. The queue is `ApprovalQueue`'s actions; events come
to the executor at least once. The consumer that would call `HandleDecided` is not in the
repository; it is assumed to handle one delivery of an event at a time. No fairness is
assumed of it: nothing calls `HandleDecided`, so nothing says that an approved item is
carried out in the end, and the module claims no such thing.

**PersonMerge.** A request is one transaction, in the steps between which another may
commit: a merge reads (`Validate`), relinks (`Relink`, which takes the rows' locks) and
writes the loser (`CommitMerge`, guarded by the UPDATE's WHERE); a restore reads, looks
for duplicates and writes. The unique index on live addresses is a guard of the
write. A person is created with any set of addresses, each marked primary or not as the request
says: no index keeps a person to one primary address. `overlapped` is history, a transaction
began while another was open, and so is `from`, the person a row was created with.

**Offers.** The line and status operations hold the offer's row lock throughout and are one
step each. An accept takes the lock, reads the deal, writes it (committed at once) and
commits; a render reads, stores the PDF and sets the reference in three steps.

**Pipelines.** Every write of the store is one transaction. `walk` is a client that asks for
one page after another; `PageOf` orders by position as the SELECT does, `Beyond` seeks by id as
its cursor does. `changed` is history: a stage was written during the walk.

**CustomFields.** `column` is the table all workspaces share: the DDL and the catalogue row are
one transaction, and a column that exists already makes it fail. A write of a record reads
the active columns (`ReadColumns`) in one transaction and writes in another.

**Attachments.** A GET reads the row, signs a link and notes the download, each by itself, and
answers with the link only when all succeeded. An accept plans, writes the deal's fields and
notes them one by one; of the fields it plans, the deal's update keeps those it has a column
for (`kept`) and skips the others without an error. `moved` is history: the file or the deal
changed since the read.

**Organizations.** Built as `PersonMerge`, with the differences of the code: domains, links and
a 1:1 partner row move, and a primary domain is demoted where the target has one; the parent is
set by PATCH and a trigger walks what is committed. A row on a parent cycle can be updated by
nobody (`CanUpdate`), which the trigger causes.

**Relationships.** `FitsIndexes` is the two partial unique indexes. A merge of people reads the
rows and then demotes, collapses and moves them (`RelinkedEdges`); `crossed` is history: a row
of one of the two people was written between the read and the commit.

**Activities.** `InsertActivity` and `SkipInsert` are the INSERT with its ON CONFLICT,
`FindReplayed` the SELECT by key that follows, `AnswerCapture` the read of its result. An
archive takes the links and the attached files (`filed`) along.

**RecordGrants.** `ResolveAccess` reads the grantor's own access, `CreateGrant` upserts in a
later transaction; an access may be reduced in between (`lowered` is history).

**Identity.** A request that reads in one transaction and writes in another is a row of
`call` between the two. `TouchSession` writes what `LookupSession` saw; `CountAdmins`,
`LastAdminGuard` and `RevokeRole` are the handler's count, test and delete. A code is
consumed in three steps: the transaction begins, reads the row with its lock, and
commits or fails.

**Leads, Retention.** `LeadStore.Archive` takes a lead's attached files (`filed`) along; the
sweep's archive does not. A promotion reads the lead and later writes person and lead. The
sweep collects what is due and acts on one record at a time; an erasure captures the
addresses and later deletes what is there. Merges, consents, holds, deal links and
the passing of time are steps of the environment in between. `stale`, `reset`,
`changed` and `slipped` are history: they say that somebody wrote in between.

## 4. Runs

Every cfg bounds only the sizes of the constant sets and the named bounds below. Each
run is exhaustive within its bounds.

| run | states | properties | what it shows |
|---|---|---|---|
| `approvals_safety` | 280,953 | `OneDecider`, `SecondEffectFollowsRollback`, `EffectIsAuthorized`, `YellowOnlyAsStaged`, `RestageSpends`, `EventsMatchRows`, `ImplementsQueue` | two items, two deciders, a sweep, confirm-first and plain payloads: one decision per item, no unapproved write that stands, no escalation by edit, events that say what rows say, and every step one of `ApprovalQueue`'s, executed modifies and restaged items included |
| `approvals_promise` | 142,121 | `OverdueIsDecided` | an overdue item is decided |
| `approvals_refire` | violation | `NeverRefires` | a rolled-back decision leaves its write and the item can be approved again |
| `outbox_safety` | 494,078 | `RepeatsNeedFailure`, `CausesComeFirst`, `ImplementsDelivery`, `CommittedIsPublished` | three events, two relays, one failure: no ghosts, a cause before its effect, everything delivered |
| `deals_safety` | 1,874,114 | `MatchedAdvanceIsApproved`, `AdvanceRowsChain`, `OneWritePerVersion`, `PartedOnlyByPatch` | an agent's and a person's request of any kind overlap with a token, a stage archive and two currencies |
| `overnight_safety` | 935,514 | `RepeatNeedsFailure`, `OnlyDecidedRuns`, `PassKeepsNewerEdits` | two passes, two items, two humans, one failed delivery per item |
| `overnight_edited` | violation | `EditedVersionRuns` | after an edit the executor applies the payload the item was staged with |
| `person_merge_cycle` | violation | `ChainsEnd` | opposite merges make a cycle |
| `sales` | 1,025,819 | `OneRevisionStands`, `StalePdfIsADrafts`, `SentIsFrozen`, `DuplicatesNeedOverlap`, `SkipsNeedReorder`, `ColumnsMatchCatalog`, `RetiredWrittenOnlyByOverlap`, `SuccessIsNoted`, `UrlNeedsFile` | two offers with two accepts and a render; four POSTs of two keys; two pipelines, three stages and a walk by pages of two; two workspaces with two columns and two writers; a file and two requests |
| `directory` | 236,149 | `DamageNeedsOverlap`, `SnapshotIsExact`, `OrgDamageNeedsOverlap`, `RelinkFits`, `ExcessNeedsOverlap`, `CodeGrantsOnce`, `RevivedOnlyByOverlap`, `AdminlessNeedsOverlap` | three people with two addresses, three organizations, three relationships, a record of three users, sessions, members, codes and secrets; three requests each |
| `activity_replay` | violation | `ReplayAnswersExisting` | a replay finds an archived activity of its key and answers not found although a live one exists |
| `retention` | 495,072 | `TwinsNeedStaleRead`, `ErasureIsWhole`, `SweepSparesProtected`, `DueIsActedOn` | a lead, two people, two promotions, every step of the ladder, one failed sweep |

Type invariants are in no run: those of the modules with a proof are theorems or part of the
inductive invariant below. Four more properties are theorems (section 6) and in no run, to keep
the runs short: `CyclesNeedCrossing` and `MergeHandsOver` of `Organizations` (they pass under
`MCDirectory.cfg`), `KeepsToQueue` of `Overnight` (under `MCOvernight.cfg`), and
`MissIsOfAnArchivedTwin` of `Activities` (under `MCActivityReplay.cfg`, with a third activity
and two captures).

`CHECK_DEADLOCK FALSE` is set in all of them: every id is used once, so a run ends
when requests, items and bounds are used up.

**Why the bounds are enough.** The races of this code are between two writers of one row, or
between a writer and a reader that acts later; two requests on one row reach each, and the
third object (a second item, a third person, a second offer) is there where a property relates
two rows: a restaged item needs a successor, a chain of merges needs a third person, a revision
needs the one it replaces, a page of two needs a third stage, and the last administrator needs
another one that goes at the same time. `MaxFails` is 1: one failure puts a relay, a delivery
or a sweep in the state from which everything is repeated, and the properties that count
failures (`RepeatsNeedFailure`, `RepeatNeedsFailure`) relate the number of repeats to it.
`MaxEdits` is 2 (a write before and one after the pass read the deal). `MaxVersion` is 3 (a
read, a write between, the write that lost). `MaxMatch` is 2: it names the deal's first
version, the second, and before anybody wrote one it has not reached. `MaxNews` is 3 (growing
old, a hold or a consent, its withdrawal). `MaxNow` is 2, twice the idle time and as long as a
session lives. Symmetry is used only in runs without liveness properties.

**Mutants.** Every property of a passing run has a mutant: a definition with a
plausible bug (a guard dropped from a WHERE clause, an effect before its claim, a
forgotten stamp, a cursor that is one row too far), named `<definition>_<what is wrong>` beside the
definition it replaces. With it TLC finds the property violated.

## 5. Fairness

* **Approvals.** Weak fairness of each request's next step: a transaction commits, is
  rolled back or loses its connection. Weak fairness of `SweepRead`: River runs the job
  every hour. Strong fairness of `ExpireOne` per row: the row is offered to one
  sweep after another, and an error that ends a sweep does not come back for ever at the
  same row. A permanently failing row would hold up those behind it; this is outside
  the assumption and outside `OverdueIsDecided`.
* **OutboxRelay.** Weak fairness of each relay: the ticker of `StartOutboxRelay` fires
  until the process ends, and a batch goes on unless it fails; failures are finitely
  many (`MaxFails`). Writers are not fair: a transaction may stay open for ever.
* **Retention.** Weak fairness of collecting and of the sweep's steps: River runs the job
  every night, and again after an error. Nobody else is fair.

## 6. Theorems

TLAPS proves the following for any number of items, requests, people, deals, keys,
stages, tokens, relays, passes, sessions and files. The only assumptions are the named ones
on constants (`None` is no member of the other sets, `Semantic` maps stages to statuses, agents
are requests, users, people, organizations and stages are finitely many, as the rows of a
table are, a session may idle for some time, ...), and TLC evaluates them on every run.

| module | theorem | property |
|---|---|---|
| `ApprovalsProofs` | `TypeCorrect`, `OnlyOneDecides`, `SecondWriteNeedsRollback`, `WritesAreAuthorized`, `EditsNeverEscalate`, `RestagingSpends`, `OutboxTellsTheRows`, `DecisionsAreFinal`, `QueueIsImplemented` | `TypeOK`, `OneDecider`, `SecondEffectFollowsRollback`, `EffectIsAuthorized`, `YellowOnlyAsStaged`, `RestageSpends`, `EventsMatchRows`, `DecidedIsFinal`, `ImplementsQueue` |
| `OutboxRelayProofs` | `CausesAreNeverOvertaken`, `RepeatsAreFailures`, `DeliversAtLeastOnce` | `CausesComeFirst`, `RepeatsNeedFailure`, `ImplementsDelivery` |
| `DealsProofs` | `TypeCorrect`, `VersionsAreWonOnce`, `AdvancesChain`, `MatchedAdvancesArePaid`, `ColumnsPartByPatchOnly` | `TypeOK`, `OneWritePerVersion`, `AdvanceRowsChain`, `MatchedAdvanceIsApproved`, `PartedOnlyByPatch` |
| `DirectoryProofs` | `TypeCorrect`, `MergesAreFinal`, `SnapshotsAreExact`, `SequentialIsSound` (people) | `TypeOK`, `MergedOnce`, `SnapshotIsExact`, `DamageNeedsOverlap` |
| | `SequentialOrgsAreSound`, `SequentialMergeHandsOver`, `CyclesOnlyByCrossing` (organizations) | `OrgDamageNeedsOverlap`, `MergeHandsOver`, `CyclesNeedCrossing` |
| | `RelinkedFits` (relationships) | `RelinkFits` |
| `SalesProofs` | `OverlapIsTheOnlyCause`, `ReplaysAreOwn` (deal creation) | `DuplicatesNeedOverlap`, `ReplayIsOwn` |
| | `TableMatchesCatalogs`, `RetiredIsFrozen` (custom fields) | `ColumnsMatchCatalog`, `RetiredWrittenOnlyByOverlap` |
| | `RevisionsReplaceEachOther`, `AcceptsSyncTheDeal`, `PdfsAreStaleByDrafts`, `SentOffersAreFrozen` (offers) | `OneRevisionStands`, `AcceptedWasSynced`, `StalePdfIsADrafts`, `SentIsFrozen` |
| | `AcceptsAreNoted`, `LinksAreOfCleanFiles` (attachments) | `SuccessIsNoted`, `UrlNeedsFile` |
| | `PagesMeetAtCursors` (pipelines) | `SkipsNeedReorder` |
| | `MissesTakeAnArchivedTwin` (activities) | `MissIsOfAnArchivedTwin` |
| `AccessProofs` | `CodesGrantOnce`, `SessionsReviveByOverlap`, `AdminsGoByOverlap` (identity) | `CodeGrantsOnce`, `RevivedOnlyByOverlap`, `AdminlessNeedsOverlap` |
| | `GrantsNeedTheirGrantor` (record grants) | `ExcessNeedsOverlap` |
| `OvernightProofs` | `TypeCorrect`, `RepeatsArePaidFor`, `PassesKeepEdits`, `OnlyDecidedIsWritten`, `QueueIsKeptTo` | `TypeOK`, `RepeatNeedsFailure`, `PassKeepsNewerEdits`, `OnlyDecidedRuns`, `KeepsToQueue` |
| `RetentionProofs` | `TwinsComeOfStaleReads`, `ErasuresAreWhole`, `SweepsSpareTheProtected` | `TwinsNeedStaleRead`, `ErasureIsWhole`, `SweepSparesProtected` |

**Approvals.** None of the invariants is inductive alone. `IInv` adds: a claimed request holds
the lock of its row, and the row is pending (`Locked`); the row of a committed request has the
status of its verb (`Settled`), for one request only (`OneWinner`); audit rows are about what
happened (`AuditTrue`); an effect is by a request that has executed, the only one it caused,
with the payload that request was to execute (`EffectsTrue`). The key step is `Commit`: the
lock held since the claim makes the row still pending, so no other request can be committed for
it. `DecisionsAreFinal` is an action property from the same invariant, and `QueueIsImplemented`
maps every step to one of `ApprovalQueue` or to none.

**OutboxRelay.** What a relay holds is an initial part of the backlog of committed, unstamped
events in the order of their beginning, less what it stamped. So if an event is in
hand, its causes are in the stream already or in hand and come first
(`CausesInHand`), and that survives another relay's stamps. Repeats are counted: each entry
a relay adds is stamped, in hand half-way (`Halfway`), or paid by a failure (`Counted`). The
refinement takes an acknowledgement to be a stamp.

**Deals.** `OneWritePerVersion` needs that a request that wrote has left its If-Match
behind (`WrittenIsPast`): versions only grow. `AdvanceRowsChain` needs that the history ends
at the deal's stage (`EndsAtStage`), which patches keep although their own rows do not chain.
`MatchedAdvanceIsApproved` is the argument that the gate, which runs in earlier
transactions, is safe for a caller that sends If-Match: as long as the row has that
version, the semantic the gate judged is the semantic of its stage (`ReadIsCurrent`), so
a request that was admitted and writes was judged on the stage it leaves
(`AdmittedIsPaid`, `WrittenIsPaid`), and tokens pay one request each (`PaidOnce`). The
theorem is false without If-Match, which is the divergence of `MCDealsReopen.cfg`, and for an
If-Match that names a version the deal had not reached when the handler read it
(`AheadIsApproved`): such a version may be that of a row the gate never saw.

**DealCreation.** A snapshot argument: what a request saw when it came had committed
(`BeganCommitted`), and a request that found nothing leaves nothing of its key among what
it saw (`MissedNothing`), also later, because later audit rows are about new deals.

**PersonMerge.** `MergesAreFinal` and `SnapshotsAreExact` need types only: they hold by the
WHERE clause of the one UPDATE that sets the pointer, whatever else overlaps, and the proof
shows that no other step sets it. `SequentialIsSound` is an argument about transactions that do
not overlap: an open transaction is then the only one (`Alone`), so what it has read still
holds at its writes (`Fresh`: the pair is valid, the rows to be moved are all live rows of the
loser, the archived row is archived). Under that, each write keeps the pointers and the
e-mails' liveness consistent, and the primary rows of a person stay those of one Create
(`OneOrigin`), because a merge demotes what it moves to a person who has one (`Tables`). That
the chains of pointers end needs more than types of rows: there is a rank that falls along
every pointer (`ChainInvariant`), and a merge that is alone points a person who is not merged
to another who is not, which leaves a rank. From a rank, as many steps as there are people lead
to nobody; this is the run `person_merge_cycle` turned round.

**Organizations.** The same argument over domains, links and the 1:1 partner row gives
`OrgDamageNeedsOverlap`. `MergeHandsOver`, an action property, says that a merge that commits
hands over everything that both had. `CyclesNeedCrossing` needs no sequential
transactions, only that no two changes of a parent were ever open at once: then parents have a rank, the
trigger's walk that one open change relies on is still true when it commits, since whatever
else changed was no parent, and the new pointer leaves a rank.

**Walks and induction.** Both chains are recursive functions of the number of steps, and the
library's induction theorems cannot be instantiated (they take an operator). Two lemmas take
their place: `LeastOf` gets a least element of a non-empty set of numbers from the
well-foundedness of `<` on the naturals, and `UpTo` gets bounded induction from it for a
set in place of an operator. With them `DirectoryProofs` shows that a walk is computed by its recursion
and that ranks are equivalent to walks that end, for finite tables of any size.

**Relationships.** A merge whose rows nobody wrote since it read them (`crossed` is false) would
read the same again (`Agreed`); so what it demotes and collapses is all that could meet in the
indexes after the move, and the target ends with the roles and employments of both. `crossed`
is noted by every statement that writes a row of one of the two people, other merges included.

**Pipelines.** `SkipsNeedReorder` relates what a walk has seen to the table. While no stage was
written and the stages' order is that of their ids, what was seen is what is not beyond the cursor
(`WalkShown`). A page keeps that: the order by position and id is strict and total, so a page of any
`PageLimit` is an initial part of the rows beyond the cursor, and its last row is the next cursor.

**Activities.** The key that stopped an INSERT has a live row, and keeps one until that row is
archived, which marks the capture as raced (`Sought`). So a capture that was not raced and
answers not found took another row than the live one: an archived row of its key.

**CustomFields.** `ColumnsMatchCatalog` is inductive with the types, because one
transaction writes both sides; a writer knows which of the columns it read are retired since
(`ReadersKnow`), which is what the action property needs.

**Offers.** No property depends on how the lines of an offer add up, so the proofs take totals
as they are and use of them only that the same lines have the same totals. A request that
accepts holds the lock of an offer that
is sent, and has written its gross to the deal before it commits (`Held`); what a render read
of a sent offer stays what the offer says, because sent offers are frozen (`Drawn`, `PdfMade`,
`BlobShows`). Any other PDF shows what a render of the same offer read while it was a draft.

**Attachments.** As long as `moved` is false, what a GET read is what the row says
(`Informed`); how far an accept has come says which notes it has left (`Progress`). The notes
are of every accepted field, the deal's columns only of those kept, so that the theorem says
nothing of a noted field that was skipped (`NotedIsWritten`).

**Identity, RecordGrants.** A touch carries the time of its lookup, at which the session was
valid, so a session that idled out becomes live again only by the touch of a request that
found it valid (`TouchOK`); the row a request
verifies is locked for it alone (`VerifyOK`); a count of administrators that is not
stale would give the same number now (`CountOK`), so at least one remains. For grants, an
access that was not lowered is still held (`Within`).

**Overnight.** The items of an open pass are nobody else's (`StagedApart`) and an item is
announced once (`AnnouncedOnce`), so that one handling of it runs at a time, and each run
but the first is paid by a failed delivery (`Paid`). A pass's write carries the version it
read, and an edit is a version (`EditsAreVersions`). `QueueIsKeptTo` shows that everything the
passes, humans and the executor do to the queue is a behaviour of `ApprovalQueue`, with the
items a pass stages opened together when it commits. Since `QueueIsImplemented` shows the same of
`Approvals`, the executor is proved over the interface that the queue's rows are proved to have.
What is written was approved because an announced decision is the item's state for good
(`Decided`); it is the staged payload, and an effect without its audit row is of a delivery that
still runs or failed (`Recorded`).

**Retention.** A promotion whose read is not stale would read the same now (`ReadsHold`), and
a lead that was taken stays promoted or archived unless a patch reset it (`TakenStays`); so the
second person of a lead needs one or the other. What an erasure captured, with what slipped
away by a merge, covers the addresses it deletes (`Captured`). A record in the batch is
unprotected or marked changed (`Spared`).

**What is only model-checked.** All safety properties of the passing runs are theorems.
Liveness is not: `OverdueIsDecided`, `CommittedIsPublished` and `DueIsActedOn` need fairness
and ENABLED, which are out of the prover's reach. `TypeOK` of `OutboxRelay` is proved but for
the bound of `fails`, and that of `Offers` but for the totals, because both are sums that the
library computes by recursion over a set.

## 7. Where the code and the repository's texts disagree

Four disagreements have a run whose counterexample shows them:

* `approvals_refire` - `approvals-and-concurrency.md:138` says a crash after execution leaves
  a terminal, non-refireable item; the write commits on its own, so the crash leaves it
  pending and a second approval writes again.
* `overnight_edited` - `overnight-agent.md:319` says that on edit-then-approve the edited
  version runs; the executor applies the item's stored payload.
* `person_merge_cycle` - two merges in opposite directions both commit, and the walk along
  `merged_into_id` does not end.
* `activity_replay` - `activities-and-timeline.md:285` says a replay answers 200 with the
  existing activity; the SELECT by key may take an archived one, and the answer is not found.

### Known divergences

The others are stated as properties in the modules' last sections. These have a
configuration on which TLC finds a counterexample in seconds:

| configuration | property | text |
|---|---|---|
| `MCApprovalsFresh` | `FreshOrNothing` | approvals-and-concurrency.md:133; execution sends no version |
| `MCOutboxRelayOrder` | `EntityInCommitOrder` | event-bus.md:229 (EVT-DEL-3); the relay orders by the start of the transaction |
| `MCDealsReopen` | `AdvanceIsApproved` | deals-and-pipeline.md:674; without If-Match the gate judges a stage the deal may have left |
| `MCDealsHistory` | `HistoryChains` | store_deal_update.go:160; a patch records the new stage as the old one |
| `MCDealsRate` | `FrozenRateFitsCurrency` | store_deal_update.go:246; the rate is of the currency before the patch |
| `MCOvernightAudit` | `PassWritesAreAudited` | overnight-agent.md:320; a failed pass leaves writes without audit rows |
| `MCRetentionHold` | `HeldIsNeverActed` | data-model.md:511; a hold set after the collection comes too late |
| `MCRetentionPatched` | `PromotedHasAPerson` | crm.yaml:6263; a patch may set any status |
| `MCRetentionErase` | `DueIsAlwaysActedOn` | testing.md:223; `erase` is not implemented for leads and stops the sweep |
| `MCRetentionWiped` | `ErasedIsWiped` | access-and-admin.md:581; people merged into the erased one keep their names |

These fail under a passing run's configuration, put there in place of its properties, three
of them with a larger instance (1: three requests, `Currencies = {eur}` and `Rated = {}`, 2:
three offers, one number and one accept, no symmetry, 3: four requests on two people with
two addresses):

| run | property | text |
|---|---|---|
| `approvals_safety` | `EveryDecisionAnnounced` | event-bus.md:411, one event per mutation; a modify that executes emits none |
| `approvals_promise` | `ExpiryIsAnnounced` | event-bus.md:355; the worker of `cmd/api` has no Emitter |
| `deals_safety` | `OpenIsUnvalued` | deals-and-pipeline.md:675; a patch back to open clears nothing |
| `deals_safety`, 1 | `RestoredFromArchived` | store_deal.go:254; two overlapping restores both announce |
| `deals_safety` | `AheadIsApproved` | deals-and-pipeline.md:674; an If-Match that names a version to come passes the gate of the present stage |
| `sales` | `NotedIsWritten` | crm.yaml:4518; an accepted field that the deal has no column for is skipped and noted |
| `sales` | `OneDealPerKey` | api-conventions.md:186; overlapping retries both create |
| `sales` | `SyncsAreAccepted` | offers-and-products.md:18; the deal's write commits before the accept, which may fail |
| `sales` | `PdfShowsTotals` | offers-and-products.md:404; the PDF may be of totals before the last edit |
| `sales`, 2 | `NoPriceIsUngrounded` | migration 000078:6; regeneration copies lines as grounded |
| `sales` | `WalksSeeAll` | API-LIST-2; pages are ordered by position and sought by id, so a walk after a reorder skips or repeats stages |
| `directory` | `NothingLeftBehind` | people-and-organizations.md:179; chained merges leave live e-mails on a merged person |
| `directory`, 3 | `MergedStaysArchived` | store_person_restore.go:20; a restore that read earlier revives a merged person |
| `retention` | `PromotedOnce` | crm.yaml's 409 of promote; two promotions that overlap both create a person |
| `retention` | `ErasedIsSuppressed` | an address that a merge moves during an erasure is deleted and not suppressed |
| `retention` | `ArchivedHasNoLiveAddress` | data-model.md:234; the sweep's archive has no cascade |
| `retention` | `ArchiveTakesFiles` | data-model.md:234; nor does it archive a lead's attachments |

Several properties of the passing runs have the form "this damage needs that overlap", because
the damage itself happens: two administrators who revoke each other at once leave the
workspace without one, although access-and-admin.md:313 and :469 describe a guard against
it (`AdminlessNeedsOverlap`); crossing parent changes close a cycle that the trigger cannot
see, and the same trigger then refuses every later update of its rows (`CyclesNeedCrossing`).

Behaviour the models show that no text of the repository contradicts: a column name of one
workspace blocks the others (custom-fields.md:291 names it as unresolved); a merge of
organizations sets no classification on the target and relinks no children; a partner's upsert
leaves `archived_at`; a request may create a person with several primary addresses; restoring a
deal restores none of the attachments that its archive archived.

Two more were seen while reading and are beyond the models: an erasure has no
statement for `person_phone`, and `crm.yaml:2133` says a promotion archives the lead, which
the code leaves live.

## 8. What is not modelled

`PROJECT.json` gives a reason for each component that is left out. In short:

* **no state of their own:** producers of the agents, forecast, roll-ups, quotas, field history,
  strength, search and lists, the audit history, the datasource provider, the tier rules of other
  operations, middleware;
* **input and output:** blob store, key vault, HTTP, configuration, logging;
* **single guarded statements with nothing in between:** products, offer templates, custom-field
  labels, OAuth client registration;
* **no run-time behaviour:** wiring, generated contracts, migrations (their constraints, triggers
  and indexes are in the modules of their tables), CLI tools; the frontend is a client.

The generated contract types alone are two fifths of the implementation's lines, and most of
the rest that no definition covers is parsing, row scanning, response mapping and list queries.

Inside modelled components: offer taxes, currencies and header patches, deal fields that no
rule reads, phones and activity links of merged people, teams as subjects of grants, passwords
and PKCE, contents of audit rows beyond what the properties compare. `cmd/api` does not start
the stream consumer, and does not wire the decision of approvals, the agents' passes, the
leads' routes or the erasure's workflow; the models are of the operations as written.

## 9. Plan

Done: the core, in the order approvals, outbox, deals, the overnight agent, people, offers,
leads and retention; then pipelines, custom fields, attachments, activities, organizations,
relationships, record grants and identity; both refinements and all safety properties of
the passing runs proved.

Next:

1. Compose `Approvals` and `OutboxRelay` with `Overnight`, so that the two refinements carry
   the executor's properties down to rows and streams.
2. `Deals` with archived stages of `Pipelines`, and the partner attribution of deals.
3. Products and offer templates, whose versions a draft's lines read.
4. The sweep's policies for activities and lost deals.
