------------------------------ MODULE Attachments ------------------------------
(***************************************************************************)
(* backend/internal/modules/records, attachments of one deal: their rows, the *)
(* scanner's verdicts, the download links a GET hands out and the extraction   *)
(* fields a user accepts.  Every step of a request is a transaction of its own. *)
(***************************************************************************)
EXTENDS Naturals, FiniteSets

CONSTANTS
  Files,       \* attachment ids
  Asks,        \* GET, :accept and :request-access requests
  Extracted,   \* fields the extractor found grounded in a file
  NoFile

ASSUME AttachmentAssumption ==
  NoFile \notin Files /\ "download" \notin Extracted /\ "access" \notin Extracted

VARIABLES
  parent,     \* the deal: archived_at, and whether the caller may see it
  file,       \* the attachment table
  ask,        \* the requests
  dealField,  \* deal columns written by an accept, by request
  note        \* activities of the requests: downloads, accepted fields, asked access

fileVars == <<parent, file, ask, dealField, note>>

FileRows == [state : {"absent", "live", "archived"}, scan : {"scanning", "clean", "blocked"}]

\* seen: the row as the request read it.  moved is no variable of the code: the row or
\* the deal changed since.
AskRows == [pc : {"new", "read", "signed", "planned", "noting", "asking", "ok", "error"},
            file : Files \cup {NoFile}, seen : FileRows, fields : SUBSET Extracted,
            url : BOOLEAN, moved : BOOLEAN]

Notes == [ask : Asks, what : Extracted \cup {"download", "access"}]

FilesTypeOK ==
  /\ parent \in [live : BOOLEAN, visible : BOOLEAN]
  /\ file \in [Files -> FileRows]
  /\ ask  \in [Asks -> AskRows]
  /\ dealField \in [Asks -> SUBSET Extracted]
  /\ note \subseteq Notes

Absent == [state |-> "absent", scan |-> "scanning"]

FilesInit ==
  /\ parent = [live |-> TRUE, visible |-> TRUE]
  /\ file = [f \in Files |-> Absent]
  /\ ask  = [q \in Asks |-> [pc |-> "new", file |-> NoFile, seen |-> Absent, fields |-> {},
                             url |-> FALSE, moved |-> FALSE]]
  /\ dealField = [q \in Asks |-> {}]
  /\ note = {}

\* Open requests about the files of fs learn nothing of a change of theirs.
Overtake(fs) == ask' = [q \in Asks |-> [ask[q] EXCEPT !.moved = @ \/ ask[q].file \in fs]]

-----------------------------------------------------------------------------
\* AttachmentStore.Create asks nothing of the deal; the upload URL is signed after it.
CreateFile(f) ==
  /\ file[f].state = "absent"
  /\ file' = [file EXCEPT ![f].state = "live"]
  /\ UNCHANGED <<parent, ask, dealField, note>>

ArchiveFile(f) ==
  /\ file[f].state = "live"
  /\ file' = [file EXCEPT ![f].state = "archived"]
  /\ Overtake({f})
  /\ UNCHANGED <<parent, dealField, note>>

\* MarkScanResult looks at the storage key only: an archived row is marked too, and a
\* later verdict replaces an earlier one.
MarkScanResult(f, verdict) ==
  /\ file[f].state # "absent"
  /\ verdict \in {"clean", "blocked"} /\ verdict # file[f].scan
  /\ file' = [file EXCEPT ![f].scan = verdict]
  /\ Overtake({f})
  /\ UNCHANGED <<parent, dealField, note>>

\* DealStore.Archive with its cascade; Restore leaves the attachments archived.
ArchiveParent ==
  /\ parent.live
  /\ parent' = [parent EXCEPT !.live = FALSE]
  /\ file' = [f \in Files |-> IF file[f].state = "live"
                              THEN [file[f] EXCEPT !.state = "archived"] ELSE file[f]]
  /\ Overtake(Files)
  /\ UNCHANGED <<dealField, note>>

RestoreParent ==
  /\ ~parent.live
  /\ parent' = [parent EXCEPT !.live = TRUE]
  /\ UNCHANGED <<file, ask, dealField, note>>

\* RecordVisible's answer changes with owner_id, a record_grant or the caller's role.
ChangeVisibility ==
  /\ parent' = [parent EXCEPT !.visible = ~@]
  /\ Overtake(Files)
  /\ UNCHANGED <<file, dealField, note>>

-----------------------------------------------------------------------------
Goes(q, pc) == ask' = [ask EXCEPT ![q].pc = pc]

\* get and list: GetAny, or the page, in one transaction.
ReadFile(q, f) ==
  /\ ask[q].pc = "new" /\ file[f].state # "absent"
  /\ ask' = [ask EXCEPT ![q].pc = "read", ![q].file = f, ![q].seen = file[f]]
  /\ UNCHANGED <<parent, file, dealField, note>>

Downloadable(row) == row.state = "live" /\ row.scan = "clean"

\* Mutant: a file that is still being scanned gets its link.
SignUrl_Unscanned(q) ==
  /\ ask[q].pc = "read"
  /\ Goes(q, IF parent.visible /\ ask[q].seen.state = "live" THEN "signed" ELSE "ok")
  /\ UNCHANGED <<parent, file, dealField, note>>

\* withURLs: the deal's visibility is read now, the row is as it was.  Signing may fail.
SignUrl(q) ==
  /\ ask[q].pc = "read"
  /\ \/ Goes(q, IF parent.visible /\ Downloadable(ask[q].seen) THEN "signed" ELSE "ok")
     \/ Goes(q, "error")
  /\ UNCHANGED <<parent, file, dealField, note>>

NoteDownload(q) ==
  /\ ask[q].pc = "signed"
  /\ note' = note \cup {[ask |-> q, what |-> "download"]}
  /\ ask' = [ask EXCEPT ![q].pc = "ok", ![q].url = TRUE]
  /\ UNCHANGED <<parent, file, dealField>>

\* request-access: the row, then one activity.
ReadForAccess(q, f) ==
  /\ ask[q].pc = "new" /\ file[f].state # "absent"
  /\ ask' = [ask EXCEPT ![q].pc = "asking", ![q].file = f]
  /\ UNCHANGED <<parent, file, dealField, note>>

NoteAccess(q) ==
  /\ ask[q].pc = "asking"
  /\ note' = note \cup {[ask |-> q, what |-> "access"]}
  /\ Goes(q, "ok")
  /\ UNCHANGED <<parent, file, dealField>>

-----------------------------------------------------------------------------
\* extraction:accept: the row, archived or not, and a plan of fields that are grounded.
PlanAccept(q, f, fields) ==
  /\ ask[q].pc = "new" /\ file[f].state # "absent" /\ fields # {}
  /\ ask' = [ask EXCEPT ![q].pc = "planned", ![q].file = f, ![q].fields = fields]
  /\ UNCHANGED <<parent, file, dealField, note>>

\* dealWriter.UpdateFields: DealStore.Update of a live deal, committed before any note.  It
\* skips without an error what deal has no column for, or a value of another shape: kept is
\* the rest, which may be nothing.
UpdateFields(q, kept) ==
  /\ ask[q].pc = "planned" /\ parent.live /\ kept \subseteq ask[q].fields
  /\ dealField' = [dealField EXCEPT ![q] = kept]
  /\ Goes(q, "noting")
  /\ UNCHANGED <<parent, file, note>>

Unnoted(q) == {k \in ask[q].fields : [ask |-> q, what |-> k] \notin note}

\* Mutant: the loop ends early.
NotesWritten_Some(q) == Unnoted(q) # ask[q].fields

NotesWritten(q) == Unnoted(q) = {}

\* writeExtractionAcceptAudits: one activity for each field, in the order asked for.
NoteField(q, k) ==
  /\ ask[q].pc = "noting" /\ k \in Unnoted(q)
  /\ note' = note \cup {[ask |-> q, what |-> k]}
  /\ UNCHANGED <<parent, file, ask, dealField>>

AnswerAccept(q) ==
  /\ ask[q].pc = "noting" /\ NotesWritten(q)
  /\ Goes(q, "ok")
  /\ UNCHANGED <<parent, file, dealField, note>>

\* A transaction of the request fails: what committed before it stays.
FailAsk(q) ==
  /\ ask[q].pc \in {"signed", "planned", "noting", "asking"}
  /\ Goes(q, "error")
  /\ UNCHANGED <<parent, file, dealField, note>>

FilesNext ==
  \/ ArchiveParent \/ RestoreParent \/ ChangeVisibility
  \/ \E f \in Files : \/ CreateFile(f) \/ ArchiveFile(f)
                      \/ \E verdict \in {"clean", "blocked"} : MarkScanResult(f, verdict)
  \/ \E q \in Asks :
       \/ SignUrl(q) \/ NoteDownload(q) \/ NoteAccess(q)
       \/ AnswerAccept(q) \/ FailAsk(q)
       \/ \E kept \in SUBSET Extracted : UpdateFields(q, kept)
       \/ \E k \in Extracted : NoteField(q, k)
       \/ \E f \in Files : \/ ReadFile(q, f) \/ ReadForAccess(q, f)
                           \/ \E fields \in SUBSET Extracted : PlanAccept(q, f, fields)

FilesSpec == FilesInit /\ [][FilesNext]_fileVars

-----------------------------------------------------------------------------
\* A request that hands its link out read a row that was live and clean, of a deal its
\* caller saw, unless one of the three changed since.
LinkIsOfFile ==
  \A q \in Asks : ask'[q].url /\ ~ask[q].url =>
    ask[q].moved \/ (Downloadable(file[ask[q].file]) /\ parent.visible)

\* A link is handed out for a file that is live, clean and of a deal its caller sees,
\* unless one of the three changed after the request had read the row (withURLs).
UrlNeedsFile == [][LinkIsOfFile]_fileVars

\* RD-AC-2 and the accept's notes: a success says that the download, or every accepted field,
\* is on the timeline.  What an accept wrote to the deal lacks its note only while the notes
\* are being written, or for good when the request answered an error.
SuccessIsNoted ==
  \A q \in Asks :
    /\ ask[q].pc = "ok" => /\ ask[q].url => [ask |-> q, what |-> "download"] \in note
                           /\ Unnoted(q) = {}
    /\ dealField[q] \cap Unnoted(q) # {} => ask[q].pc \in {"noting", "error"}

-----------------------------------------------------------------------------
(* What the repository says and the code does not do. *)

\* backend/api/crm.yaml:4518: the accept "persists the named fields to the target deal", "one
\* audit activity per accepted field": the activity is about a value that the deal got.
NotedIsWritten ==
  \A q \in Asks, k \in Extracted : [ask |-> q, what |-> k] \in note => k \in dealField[q]
=============================================================================
