----------------------------- MODULE Pipelines -----------------------------
(***************************************************************************)
(* Pipelines and their stages (modules/deals, store_pipeline.go), and a       *)
(* client that walks the pages of the stages while they are reordered.        *)
(* Names and win probabilities are abstracted, and so is a pipeline's own       *)
(* position: PipelineStore.List pages as StageStore.List does.  The rows of      *)
(* archived stages keep nothing, since nothing reads their position.             *)
(***************************************************************************)
EXTENDS Naturals, FiniteSets

CONSTANTS
  PipelineIds,
  StageIds,    \* numbers: the ids are UUIDv7, so their order is that of creation
  Places,      \* positions of stages
  PageLimit,   \* the limit of a page
  Everywhere   \* no pipeline_id in the query

ASSUME PipelinesAssumption ==
  /\ StageIds \subseteq Nat \ {0} /\ IsFiniteSet(StageIds) /\ Places \subseteq Nat
  /\ PageLimit \in Nat \ {0} /\ Everywhere \notin PipelineIds

VARIABLES
  pipeline,  \* the pipeline table
  stage,     \* the stage table
  walk       \* the client's walk over the pages of GET /stages

pipelineVars == <<pipeline, stage, walk>>

PipelinesTypeOK ==
  /\ pipeline \in [PipelineIds -> [state : {"none", "live", "archived"}, is_default : BOOLEAN]]
  /\ stage \in [StageIds -> [state : {"none", "live", "archived"},
                             of : PipelineIds \cup {Everywhere}, position : Places \cup {0}]]
  /\ walk \in [pc : {"new", "open", "done"}, of : PipelineIds \cup {Everywhere},
               cursor : StageIds \cup {0}, seen : SUBSET StageIds,
               twice : BOOLEAN, changed : BOOLEAN]

PipelinesInit ==
  /\ pipeline = [p \in PipelineIds |-> [state |-> "none", is_default |-> FALSE]]
  /\ stage = [s \in StageIds |-> [state |-> "none", of |-> Everywhere, position |-> 0]]
  /\ walk = [pc |-> "new", of |-> Everywhere, cursor |-> 0, seen |-> {},
             twice |-> FALSE, changed |-> FALSE]

-----------------------------------------------------------------------------
\* uq_pipeline_default: no other live pipeline is the default.
DefaultIsFree(p) == \A q \in PipelineIds \ {p} : ~(pipeline[q].state = "live" /\ pipeline[q].is_default)

\* PipelineStore.Create.
CreatePipeline(p, default) ==
  /\ pipeline[p].state = "none" /\ (default => DefaultIsFree(p))
  /\ pipeline' = [pipeline EXCEPT ![p] = [state |-> "live", is_default |-> default]]
  /\ UNCHANGED <<stage, walk>>

\* PipelineStore.Update: the flag is COALESCEd, and another default is a 409.
UpdatePipeline(p, default) ==
  /\ pipeline[p].state = "live" /\ (default => DefaultIsFree(p))
  /\ pipeline' = [pipeline EXCEPT ![p].is_default = default]
  /\ UNCHANGED <<stage, walk>>

\* PipelineStore.Archive: the stages stay live.
ArchivePipeline(p) ==
  /\ pipeline[p].state = "live"
  /\ pipeline' = [pipeline EXCEPT ![p].state = "archived"]
  /\ UNCHANGED <<stage, walk>>

-----------------------------------------------------------------------------
LiveStages(of) == {s \in StageIds : stage[s].state = "live" /\ of \in {stage[s].of, Everywhere}}

\* uq_stage_position is a partial index, so deferring it fails, and the savepoint is rolled
\* back: a position is refused at once, and two stages cannot trade theirs in two PATCHes.
PlaceIsFree(s, p, place) == \A t \in LiveStages(p) \ {s} : stage[t].position # place

\* The walk notices, for the properties, that a stage it lists was written under it.
Noticed(p) == [walk EXCEPT !.changed = @ \/ (walk.pc = "open" /\ walk.of \in {p, Everywhere})]

\* StageStore.Create: the foreign key asks for a pipeline, archived or not.
CreateStage(s, p, place) ==
  /\ stage[s].state = "none" /\ pipeline[p].state # "none" /\ PlaceIsFree(s, p, place)
  /\ stage' = [stage EXCEPT ![s] = [state |-> "live", of |-> p, position |-> place]]
  /\ walk' = Noticed(p)
  /\ UNCHANGED pipeline

\* StageStore.Update of a position.
UpdateStage(s, place) ==
  /\ stage[s].state = "live" /\ PlaceIsFree(s, stage[s].of, place)
  /\ stage' = [stage EXCEPT ![s].position = place]
  /\ walk' = Noticed(stage[s].of)
  /\ UNCHANGED pipeline

\* StageStore.Archive.
ArchiveStage(s) ==
  /\ stage[s].state = "live"
  /\ stage' = [stage EXCEPT ![s] = [state |-> "archived", of |-> Everywhere, position |-> 0]]
  /\ walk' = Noticed(stage[s].of)
  /\ UNCHANGED pipeline

-----------------------------------------------------------------------------
\* ORDER BY position, id.
Precedes(s, t) ==
  \/ stage[s].position < stage[t].position
  \/ stage[s].position = stage[t].position /\ s < t

\* WHERE id > cursor.
Beyond(of, cursor) == {s \in LiveStages(of) : s > cursor}

RankIn(s, rows) == Cardinality({t \in rows : Precedes(t, s)})

\* The first limit of the rows.
PageOf(rows) == {s \in rows : RankIn(s, rows) < PageLimit}

\* Mutant: the cursor is the row that was read to see that there are more.
CursorOf_Extra(rows) ==
  IF Cardinality(rows) <= PageLimit THEN 0
  ELSE CHOOSE s \in rows : RankIn(s, rows) = PageLimit

\* The next cursor: the last row of the page when there are more, else none.
CursorOf(rows) ==
  IF Cardinality(rows) <= PageLimit THEN 0
  ELSE CHOOSE s \in rows : RankIn(s, rows) = PageLimit - 1

\* StageStore.List: the first page with no cursor, then the one the last answer named.
ListStages(of) ==
  LET rows == Beyond(of, walk.cursor) IN
  /\ \/ walk.pc = "new"
     \/ walk.pc = "open" /\ walk.of = of
  /\ walk' = [walk EXCEPT !.pc = IF CursorOf(rows) = 0 THEN "done" ELSE "open",
                          !.of = of, !.cursor = CursorOf(rows),
                          !.seen = @ \cup PageOf(rows),
                          !.twice = @ \/ (walk.seen \cap PageOf(rows) # {})]
  /\ UNCHANGED <<pipeline, stage>>

PipelinesNext ==
  \/ \E p \in PipelineIds :
       \/ \E default \in BOOLEAN : CreatePipeline(p, default) \/ UpdatePipeline(p, default)
       \/ ArchivePipeline(p)
  \/ \E s \in StageIds :
       \/ \E p \in PipelineIds, place \in Places : CreateStage(s, p, place)
       \/ \E place \in Places : UpdateStage(s, place)
       \/ ArchiveStage(s)
  \/ \E of \in PipelineIds \cup {Everywhere} : ListStages(of)

PipelinesSpec == PipelinesInit /\ [][PipelinesNext]_pipelineVars

-----------------------------------------------------------------------------
InIdOrder(rows) == \A s, t \in rows : Precedes(s, t) => s < t

\* Keyset paging (API-LIST-2) shows every row once; here the pages are sought by id but
\* ordered by position.  A walk that ends having shown a stage twice, or not all of them, was
\* either overtaken by a write of a stage or walked over stages whose order is not that of
\* their ids, as after any reorder.
SkipsNeedReorder ==
  [][walk.pc # "done" /\ walk'.pc = "done" =>
       \/ walk.changed \/ ~InIdOrder(LiveStages(walk'.of))
       \/ walk'.seen = LiveStages(walk'.of) /\ ~walk'.twice]_pipelineVars

\* The same without the exception: what a client relies on, and a reorder breaks.
WalksSeeAll ==
  [][walk.pc # "done" /\ walk'.pc = "done" =>
       walk.changed \/ (walk'.seen = LiveStages(walk'.of) /\ ~walk'.twice)]_pipelineVars
=============================================================================
