------------------------------ MODULE Activities ------------------------------
(***************************************************************************)
(* backend/internal/modules/activities: capturing an activity, which a source *)
(* may deliver again, and updating, relinking and archiving one.               *)
(***************************************************************************)
EXTENDS Naturals, FiniteSets

CONSTANTS
  Acts,        \* activity ids
  SourceKeys,  \* values of (source_system, source_id)
  Targets,     \* records of one entity type
  Captures,    \* POST /activities and other calls of Create
  MaxEdits,    \* bound of version
  NoAct

VARIABLES
  activity,    \* the activity table
  filed,       \* activities that a live attachment row names
  actLink,     \* activity_link rows of the entity type, by activity
  actEvents,   \* activity.updated and activity.archived rows of event_outbox
  capture      \* calls of Create

actVars == <<activity, filed, actLink, actEvents, capture>>

\* task: kind = 'task'.  due: due_at or assignee_id set.  done: is_done and done_at set.
ActRows == [state : {"absent", "live", "archived"}, key : SourceKeys \cup {NoAct},
            task : BOOLEAN, due : BOOLEAN, done : BOOLEAN,
            version : 0..MaxEdits]

\* raced is no variable of the code: a row of the key was archived since the INSERT.
CaptureRows == [pc : {"new", "conflict", "found", "ok", "missing"},
                key : SourceKeys \cup {NoAct}, id : Acts \cup {NoAct}, raced : BOOLEAN]

ActTypeOK ==
  /\ activity \in [Acts -> ActRows] /\ filed \subseteq Acts
  /\ actLink \in [Acts -> SUBSET Targets]
  /\ actEvents \in [Acts -> Nat]
  /\ capture \in [Captures -> CaptureRows]

ActInit ==
  /\ activity = [a \in Acts |-> [state |-> "absent", key |-> NoAct, task |-> FALSE,
                   due |-> FALSE, done |-> FALSE, version |-> 0]]
  /\ filed = {}
  /\ actLink = [a \in Acts |-> {}]
  /\ actEvents = [a \in Acts |-> 0]
  /\ capture = [c \in Captures |-> [pc |-> "new", key |-> NoAct, id |-> NoAct,
                                    raced |-> FALSE]]

OfKey(k) == {a \in Acts : activity[a].state # "absent" /\ activity[a].key = k}

\* uq_activity_source, whose predicate says archived_at IS NULL.
Taken(k) == k # NoAct /\ \E a \in OfKey(k) : activity[a].state = "live"

-----------------------------------------------------------------------------
\* validateTaskFields.
FitsKind(task, due, done) == task \/ (~due /\ ~done)

\* Create: INSERT and links commit.  It sets no done_at, so activity_done_at refuses is_done.
InsertActivity(c, a, k, task, due, links) ==
  /\ capture[c].pc = "new" /\ activity[a].state = "absent"
  /\ FitsKind(task, due, FALSE)
  /\ ~Taken(k)
  /\ activity' = [activity EXCEPT ![a] = [state |-> "live", key |-> k, task |-> task,
                    due |-> due, done |-> FALSE, version |-> 1]]
  /\ actLink' = [actLink EXCEPT ![a] = links]
  /\ capture' = [capture EXCEPT ![c] = [@ EXCEPT !.pc = "found", !.key = k, !.id = a]]
  /\ UNCHANGED <<filed, actEvents>>

\* Create: ON CONFLICT DO NOTHING.
SkipInsert(c, k) ==
  /\ capture[c].pc = "new" /\ Taken(k)
  /\ capture' = [capture EXCEPT ![c].pc = "conflict", ![c].key = k]
  /\ UNCHANGED <<activity, filed, actLink, actEvents>>

\* The SELECT after the conflict asks for the key only and takes the first row it meets.
FindReplayed(c, a) ==
  /\ capture[c].pc = "conflict" /\ a \in OfKey(capture[c].key)
  /\ capture' = [capture EXCEPT ![c].pc = "found", ![c].id = a]
  /\ UNCHANGED <<activity, filed, actLink, actEvents>>

\* Get, in the next transaction, of a row that is not archived.
AnswerCapture(c) ==
  /\ capture[c].pc = "found"
  /\ capture' = [capture EXCEPT ![c].pc =
                   IF activity[capture[c].id].state = "live" THEN "ok" ELSE "missing"]
  /\ UNCHANGED <<activity, filed, actLink, actEvents>>

-----------------------------------------------------------------------------
\* Update of due_at or assignee_id, is_done, or neither; version 0 is no If-Match.
Edited(row, edit) ==
  CASE edit = "text"   -> row
    [] edit = "due"    -> [row EXCEPT !.due = TRUE]
    [] edit = "clear"  -> [row EXCEPT !.due = FALSE]
    [] edit = "done"   -> [row EXCEPT !.done = TRUE]
    [] edit = "reopen" -> [row EXCEPT !.done = FALSE]

Edits == {"text", "due", "clear", "done", "reopen"}

UpdateActivity(a, edit, version) ==
  /\ activity[a].state = "live"
  /\ version \in {0, activity[a].version} /\ activity[a].version < MaxEdits
  /\ FitsKind(activity[a].task, edit = "due", edit = "done")
  /\ activity' = [activity EXCEPT ![a] =
                    [Edited(activity[a], edit) EXCEPT !.version = activity[a].version + 1]]
  /\ actEvents' = [actEvents EXCEPT ![a] = @ + 1]
  /\ UNCHANGED <<filed, actLink, capture>>

\* Relink, the row locked: a link to the same record alone stays as it is.
Relink(a, target) ==
  /\ activity[a].state = "live" /\ actLink[a] # {target}
  /\ actLink' = [actLink EXCEPT ![a] = {target}]
  /\ UNCHANGED <<activity, filed, actEvents, capture>>

\* AttachmentStore.Create asks nothing of the activity it names.
AttachFile(a) ==
  /\ activity[a].state # "absent"
  /\ filed' = filed \cup {a}
  /\ UNCHANGED <<activity, actLink, actEvents, capture>>

\* Archive, with its cascade to the attachments.
ArchiveActivity(a) ==
  /\ activity[a].state = "live" /\ activity[a].version < MaxEdits
  /\ activity' = [activity EXCEPT ![a].state = "archived", ![a].version = @ + 1]
  /\ filed' = filed \ {a}
  /\ actEvents' = [actEvents EXCEPT ![a] = @ + 1]
  /\ capture' = [c \in Captures |->
                   [capture[c] EXCEPT !.raced = @ \/ (capture[c].pc \in {"conflict", "found"} /\
                                                      capture[c].key = activity[a].key)]]
  /\ UNCHANGED actLink

ActNext ==
  \/ \E a \in Acts :
       \/ ArchiveActivity(a) \/ AttachFile(a)
       \/ \E target \in Targets : Relink(a, target)
       \/ \E edit \in Edits, v \in 0..MaxEdits : UpdateActivity(a, edit, v)
  \/ \E c \in Captures, a \in Acts :
       \/ FindReplayed(c, a)
       \/ \E k \in SourceKeys \cup {NoAct}, task, due \in BOOLEAN, links \in SUBSET Targets :
            InsertActivity(c, a, k, task, due, links)
  \/ \E c \in Captures : AnswerCapture(c) \/ \E k \in SourceKeys : SkipInsert(c, k)

ActSpec == ActInit /\ [][ActNext]_actVars

-----------------------------------------------------------------------------
\* docs/subsystems/activities-and-timeline.md:285 (ACT-WIRE-2): "replaying the same
\* (source system, source id) answers 200 with the existing activity".  A capture that
\* nobody's archiving raced finds one.
ReplayAnswersExisting ==
  \A c \in Captures : capture[c].pc = "missing" => capture[c].raced

\* How far the answer can be off: an answer of a row is of one of the capture's own key, and a
\* capture that nobody's archiving raced misses only if it took one of two rows of its key,
\* an archived one (Create's SELECT and Get).
MissIsOfAnArchivedTwin ==
  \A c \in Captures :
    /\ capture[c].pc \in {"ok", "missing"} => capture[c].id \in OfKey(capture[c].key)
    /\ capture[c].pc = "missing" /\ ~capture[c].raced =>
         /\ activity[capture[c].id].state = "archived"
         /\ \E a \in OfKey(capture[c].key) : a # capture[c].id
=============================================================================
