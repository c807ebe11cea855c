---------------------------- MODULE PersonMerge ----------------------------
(***************************************************************************)
(* Creating, archiving, restoring and merging people (modules/people), each  *)
(* one transaction under READ COMMITTED.  A merge and a restore read first    *)
(* and write later, so what they checked may have changed in between.         *)
(***************************************************************************)
EXTENDS Naturals, Sequences, FiniteSets

CONSTANTS
  People,     \* person ids
  Addresses,  \* normalised e-mail addresses
  Requests,   \* calls of Archive, Restore and Merge, each one transaction
  NoOne       \* merged_into_id NULL

ASSUME MergeAssumption == NoOne \notin People /\ IsFiniteSet(People)

VARIABLES
  person,     \* the person table; an id not yet used is "absent"
  emails,     \* the person_email table; from (history): the person created with the row
  audit,      \* audit_log rows of action merge, with version of the before-snapshot
  req,        \* the requests
  overlapped  \* history: a transaction began while another was open

vars == <<person, emails, audit, req, overlapped>>

Rows  == [address : Addresses, from : People, owner : People,
          primary : BOOLEAN, live : BOOLEAN]
Open  == {r \in Requests : req[r].pc \notin {"new", "done"}}
LiveOf(p) == {e \in emails : e.owner = p /\ e.live}

TypeOK ==
  /\ person \in [People -> [state : {"absent", "live", "archived"},
                            into : People \cup {NoOne}, version : Nat]]
  /\ emails \subseteq Rows
  /\ audit \in Seq([loser : People, target : People, before : Nat])
  /\ req \in [Requests -> [pc : {"new", "validated", "relinked", "seen", "checked", "done"},
                           p : People \cup {NoOne}, t : People \cup {NoOne},
                           version : Nat, moved : SUBSET Rows, demoted : BOOLEAN]]
  /\ overlapped \in BOOLEAN

Init ==
  /\ person = [p \in People |-> [state |-> "absent", into |-> NoOne, version |-> 1]]
  /\ emails = {} /\ audit = <<>> /\ overlapped = FALSE
  /\ req = [r \in Requests |-> [pc |-> "new", p |-> NoOne, t |-> NoOne, version |-> 0,
                                moved |-> {}, demoted |-> FALSE]]

\* trg_person_touch: every UPDATE of the row adds one to its version.
Touch(row) == [row EXCEPT !.version = @ + 1]

Goto(r, pc) == req' = [req EXCEPT ![r].pc = pc]

\* A transaction starts; the others that are open overlap it.
Starts(r) == /\ req[r].pc = "new"
             /\ overlapped' = (overlapped \/ Open # {})

\* Rows an open merge has updated: their locks are held to its end.
Locked == UNION {req[r].moved : r \in Requests}

-----------------------------------------------------------------------------
\* PersonStore.Create with the addresses given, any of them marked primary: the request
\* says which, and no index makes a primary row unique.  Refused, by the look-up or by
\* uq_person_email, when a live row of the workspace has one of them.
Create(p, given, main) ==
  /\ person[p].state = "absent" /\ overlapped' = (overlapped \/ Open # {})
  /\ \A e \in emails : e.address \in given => ~e.live
  /\ person' = [person EXCEPT ![p].state = "live"]
  /\ emails' = emails \cup {[address |-> a, from |-> p, owner |-> p,
                             primary |-> a \in main, live |-> TRUE] : a \in given}
  /\ UNCHANGED <<audit, req>>

\* The rows after Archive's cascade.
Cascaded(p) == {IF e.owner = p THEN [e EXCEPT !.live = FALSE] ELSE e : e \in emails}

\* PersonStore.Archive.  The cascade waits for rows a merge holds.
Archive(r, p) ==
  /\ Starts(r) /\ person[p].state = "live" /\ LiveOf(p) \cap Locked = {}
  /\ person' = [person EXCEPT ![p] = [Touch(@) EXCEPT !.state = "archived"]]
  /\ emails' = Cascaded(p)
  /\ Goto(r, "done") /\ UNCHANGED audit

\* PersonStore.Restore reads the row: it must be archived and not merged away.
ReadRestore(r, p) ==
  /\ Starts(r) /\ person[p].state = "archived" /\ person[p].into = NoOne
  /\ req' = [req EXCEPT ![r].pc = "seen", ![r].p = p]
  /\ UNCHANGED <<person, emails, audit>>

\* findDuplicateEmail: live rows of others with an address of p's rows, archived or not.
Duplicates(p) == {e \in emails : e.live /\ e.owner # p /\
                    \E f \in emails : f.owner = p /\ f.address = e.address}

CheckRestore(r) ==
  /\ req[r].pc = "seen"
  /\ Goto(r, IF Duplicates(req[r].p) = {} THEN "checked" ELSE "done")
  /\ UNCHANGED <<person, emails, audit, overlapped>>

\* UPDATE person SET archived_at=NULL WHERE archived_at IS NOT NULL.
Restored(row) ==
  IF row.state = "archived" THEN [Touch(row) EXCEPT !.state = "live"] ELSE row

\* The two UPDATEs of Restore and the commit.  A row made live again beside a live one
\* with its address breaks uq_person_email: the transaction fails (Abort).
CommitRestore(r) ==
  LET p == req[r].p IN
  /\ req[r].pc = "checked"
  /\ \A e \in emails : e.owner = p =>
       \A f \in emails : f.live /\ f.address = e.address => f = e
  /\ person' = [person EXCEPT ![p] = Restored(@)]
  /\ emails' = {IF e.owner = p THEN [e EXCEPT !.live = TRUE] ELSE e : e \in emails}
  /\ Goto(r, "done") /\ UNCHANGED <<audit, overlapped>>

-----------------------------------------------------------------------------
\* The ErrSelfMerge test and validateMergePair.  An archived loser passes.
ValidPair(p, t) ==
  /\ p # t
  /\ person[p].state # "absent" /\ person[p].into = NoOne
  /\ person[t].state = "live"   /\ person[t].into = NoOne

\* Merge, its reads.
Validate(r, p, t) ==
  /\ Starts(r) /\ ValidPair(p, t)
  /\ req' = [req EXCEPT ![r] = [@ EXCEPT !.pc = "validated", !.p = p, !.t = t,
                                         !.version = person[p].version]]
  /\ UNCHANGED <<person, emails, audit>>

HasPrimary(t) == \E e \in LiveOf(t) : e.primary

\* relinkPersonFKs: the loser's live rows are to be t's, and not primary when t has a
\* primary one.  It waits for rows another merge holds.  uq_person_email leaves its DELETE
\* of addresses that are live on both sides nothing to do.
Relink(r) ==
  /\ req[r].pc = "validated" /\ LiveOf(req[r].p) \cap Locked = {}
  /\ req' = [req EXCEPT ![r] = [@ EXCEPT !.pc = "relinked", !.moved = LiveOf(req[r].p),
                                         !.demoted = HasPrimary(req[r].t)]]
  /\ UNCHANGED <<person, emails, audit, overlapped>>

\* Mutant: the version is not compared.
StillMergeable_AnyVersion(p, v) == person[p].into = NoOne /\ person[p].state = "live"

\* The WHERE clause of Merge's UPDATE.
StillMergeable(p, v) ==
  person[p].version = v /\ person[p].into = NoOne /\ person[p].state = "live"

\* Mutant: the rows stay with the loser.
Moved_Nothing(r, e) == e

\* What becomes of an e-mail row of the merge.
Moved(r, e) ==
  IF e \in req[r].moved
  THEN [e EXCEPT !.owner = req[r].t, !.primary = @ /\ ~req[r].demoted]
  ELSE e

\* Merge, its UPDATE of the loser, audit row, event and commit.
CommitMerge(r) ==
  LET p == req[r].p
      t == req[r].t
  IN  /\ req[r].pc = "relinked" /\ StillMergeable(p, req[r].version)
      /\ person' = [person EXCEPT ![p] = [Touch(@) EXCEPT !.state = "archived", !.into = t]]
      /\ emails' = {Moved(r, e) : e \in emails}
      /\ audit' = Append(audit, [loser |-> p, target |-> t, before |-> req[r].version])
      /\ req' = [req EXCEPT ![r].pc = "done", ![r].moved = {}]
      /\ UNCHANGED overlapped

\* ErrVersionSkew, a broken constraint, a deadlock victim, a lost connection: no write stays.
Abort(r) ==
  /\ r \in Open
  /\ req' = [req EXCEPT ![r].pc = "done", ![r].moved = {}]
  /\ UNCHANGED <<person, emails, audit, overlapped>>

Next ==
  \/ \E p \in People, given \in SUBSET Addresses :
       \E main \in SUBSET given : Create(p, given, main)
  \/ \E r \in Requests :
       \/ \E p \in People :
            \/ Archive(r, p) \/ ReadRestore(r, p)
            \/ \E t \in People : Validate(r, p, t)
       \/ CheckRestore(r) \/ CommitRestore(r)
       \/ Relink(r) \/ CommitMerge(r) \/ Abort(r)

Spec == Init /\ [][Next]_vars

-----------------------------------------------------------------------------
\* A merge is final (PO-AC-M5): of the concurrent merges of a person one commits, and
\* nothing changes or clears its pointer.  Guarded by the WHERE clause of Merge's UPDATE.
MergedOnce ==
  [][\A p \in People : person[p].into # NoOne => person'[p].into = person[p].into]_vars

\* A merge is one audit row, whose before-snapshot is the loser as it was when the merge
\* archived it (reversible within audit, PO-AC-18): no change that the row got after
\* validateMergePair read it is missing from the snapshot.
SnapshotIsExact ==
  [][\A p \in People : person'[p].into # person[p].into =>
       audit' = Append(audit, [loser |-> p, target |-> person'[p].into,
                               before |-> person[p].version])]_vars

\* The people a merge pointer leads to, at any distance.
Chain(p) ==
  LET reach[n \in 0..Cardinality(People)] ==
        IF n = 0 THEN {p}
        ELSE reach[n-1] \cup {person[q].into : q \in reach[n-1] \ {NoOne}}
  IN  reach[Cardinality(People)]

\* followMergeChain's comment: it walks merged_into_id until it finds a person with no
\* further pointer.  There is one: a chain of pointers ends.
ChainsEnd == \A p \in People : NoOne \in Chain(p)

Survives(p) == person[p].state = "live" /\ person[p].into = NoOne

\* As long as no two transactions overlap, the tables fit together: a merged person is
\* archived and its pointer is to a person of the table, the chains of pointers end, no e-mail
\* of an archived person is live, none of a live one is archived, and a merge brings no person
\* a second primary address: two that a person has were given by one request, that of Create.
DamageNeedsOverlap ==
  ~overlapped =>
    /\ \A p \in People : person[p].into # NoOne =>
         person[p].state = "archived" /\ person[person[p].into].state # "absent"
    /\ ChainsEnd
    /\ \A e \in emails : e.live <=> Survives(e.owner)
    /\ \A p \in People : \A e, f \in LiveOf(p) : e.primary /\ f.primary => e.from = f.from

\* "Merge leaves nothing behind": no live e-mail belongs to a person merged away.
NothingLeftBehind == \A e \in emails : e.live => person[e.owner].into = NoOne

\* Restore's comment: the record "must not be a merge target", so one merged away stays archived.
MergedStaysArchived ==
  \A p \in People : person[p].into # NoOne => person[p].state = "archived"
=============================================================================
