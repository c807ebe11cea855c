--------------------------- MODULE Relationships ---------------------------
(***************************************************************************)
(* Relationships (modules/relationships): employments of people and their    *)
(* roles on deals, kept apart by two partial unique indexes, and what a merge  *)
(* of people (modules/people) does to them.  An If-Match only refuses more and *)
(* is left out, and so is the organization, which no index looks at.           *)
(***************************************************************************)
EXTENDS Naturals, FiniteSets

CONSTANTS
  Edges,      \* relationship ids
  Persons,    \* person ids
  Seats,      \* (deal_id, role) pairs
  Merges,     \* calls of PersonStore.Merge
  NoSeat      \* the role of an employment, nobody

ASSUME EdgeAssumption == NoSeat \notin Seats \cup Persons

VARIABLES
  edge,       \* the relationship table
  merge       \* open merges of people, at their statements on relationship

edgeVars == <<edge, merge>>

EdgeRows == [state : {"absent", "live", "archived"}, person : Persons \cup {NoSeat},
             seat : Seats \cup {NoSeat}, primary : BOOLEAN, ended : BOOLEAN]

\* crossed: a row of either person changed since the merge read them.
MergeRows == [pc : {"new", "read", "done"}, p : Persons \cup {NoSeat}, t : Persons \cup {NoSeat},
              demoted : SUBSET Edges, collapsed : SUBSET Edges, crossed : BOOLEAN]

EdgeTypeOK == edge \in [Edges -> EdgeRows] /\ merge \in [Merges -> MergeRows]

EdgeInit ==
  /\ edge  = [e \in Edges |-> [state |-> "absent", person |-> NoSeat, seat |-> NoSeat,
                               primary |-> FALSE, ended |-> FALSE]]
  /\ merge = [m \in Merges |-> [pc |-> "new", p |-> NoSeat, t |-> NoSeat, demoted |-> {},
                                collapsed |-> {}, crossed |-> FALSE]]

Employment(row)     == row.seat = NoSeat
CurrentPrimary(row) == /\ row.state = "live" /\ Employment(row)
                       /\ row.primary /\ ~row.ended
LiveSeat(row)       == row.state = "live" /\ ~Employment(row)

\* uq_rel_current_primary_employer and uq_rel_deal_person_role.
FitsIndexes(tab) ==
  \A e, f \in Edges : e # f /\ tab[e].person = tab[f].person =>
    /\ ~(CurrentPrimary(tab[e]) /\ CurrentPrimary(tab[f]))
    /\ ~(LiveSeat(tab[e]) /\ LiveSeat(tab[f]) /\ tab[e].seat = tab[f].seat)

\* A merge after a step that changes a row, which may be or become one of its two people's.
Noted(m) ==
  IF /\ merge[m].pc = "read"
     /\ \E e \in Edges : /\ edge'[e] # edge[e]
                         /\ {edge[e].person, edge'[e].person} \cap {merge[m].p, merge[m].t} # {}
  THEN [merge[m] EXCEPT !.crossed = TRUE] ELSE merge[m]

\* A statement of the store: a row that breaks an index is ErrConflict.
WriteEdge(e, row) ==
  /\ FitsIndexes([edge EXCEPT ![e] = row])
  /\ edge' = [edge EXCEPT ![e] = row]
  /\ merge' = [m \in Merges |-> Noted(m)]

-----------------------------------------------------------------------------
\* RelationshipStore.Create, of a kind validate lets through: an employment, or a role on
\* a deal, which may carry is_primary and ended_at too.
CreateEdge(e, p, s, primary, ended) ==
  /\ edge[e].state = "absent"
  /\ WriteEdge(e, [state |-> "live", person |-> p, seat |-> s, primary |-> primary,
                   ended |-> ended])

\* RelationshipStore.Update: COALESCE keeps what the body leaves out, so nothing clears
\* ended_at; the deal of a role does not change.
UpdateEdge(e, primary, ended, s) ==
  /\ edge[e].state = "live"
  /\ (s = NoSeat) = Employment(edge[e])
  /\ WriteEdge(e, [edge[e] EXCEPT !.primary = primary, !.ended = @ \/ ended, !.seat = s])

\* RelationshipStore.Archive; a second one changes nothing.
ArchiveEdge(e) ==
  /\ edge[e].state = "live"
  /\ WriteEdge(e, [edge[e] EXCEPT !.state = "archived"])

-----------------------------------------------------------------------------
\* Mutant: nothing is demoted.
Demoted_None(p, t) == {}

\* relinkPersonFKs: the loser's current primary employment is demoted when the target has
\* one ...
Demoted(p, t) ==
  IF \E f \in Edges : edge[f].person = t /\ CurrentPrimary(edge[f])
  THEN {e \in Edges : edge[e].person = p /\ CurrentPrimary(edge[e])} ELSE {}

\* ... and its role is archived where the target has the same one.
Collapsed(p, t) ==
  {e \in Edges : /\ edge[e].person = p /\ LiveSeat(edge[e])
                 /\ \E f \in Edges : /\ edge[f].person = t /\ LiveSeat(edge[f])
                                     /\ edge[f].seat = edge[e].seat}

ReadEdges(m, p, t) ==
  /\ merge[m].pc = "new" /\ p # t
  /\ merge' = [merge EXCEPT ![m] = [pc |-> "read", p |-> p, t |-> t, demoted |-> Demoted(p, t),
                                    collapsed |-> Collapsed(p, t), crossed |-> FALSE]]
  /\ UNCHANGED edge

\* Every employment becomes the target's, and every live role.
Relinked(m, e) ==
  LET row == edge[e]
      own == row.person = merge[m].p
      now == [row EXCEPT !.primary = @ /\ e \notin merge[m].demoted,
                         !.state = IF e \in merge[m].collapsed THEN "archived" ELSE @]
  IN  IF own /\ (Employment(row) \/ now.state = "live") /\ row.state # "absent"
      THEN [now EXCEPT !.person = merge[m].t] ELSE now

RelinkedEdges(m) == [e \in Edges |-> Relinked(m, e)]

\* The statements that move the rows, and the commit.
RelinkEdges(m) ==
  /\ merge[m].pc = "read"
  /\ FitsIndexes(RelinkedEdges(m))
  /\ edge' = RelinkedEdges(m)
  /\ merge' = [n \in Merges |-> IF n = m THEN [merge[m] EXCEPT !.pc = "done"] ELSE Noted(n)]

\* A row breaks an index, or another statement of the merge fails.
AbortRelink(m) ==
  /\ merge[m].pc = "read"
  /\ merge' = [merge EXCEPT ![m].pc = "done"]
  /\ UNCHANGED edge

EdgeNext ==
  \/ \E e \in Edges, s \in Seats \cup {NoSeat}, primary, ended \in BOOLEAN :
       \/ \E p \in Persons : CreateEdge(e, p, s, primary, ended)
       \/ UpdateEdge(e, primary, ended, s)
  \/ \E e \in Edges : ArchiveEdge(e)
  \/ \E m \in Merges : \/ \E p, t \in Persons : ReadEdges(m, p, t)
                       \/ RelinkEdges(m) \/ AbortRelink(m)

EdgeSpec == EdgeInit /\ [][EdgeNext]_edgeVars

-----------------------------------------------------------------------------
(* Properties. *)

Employed(tab, p)    == \E e \in Edges : tab[e].person = p /\ CurrentPrimary(tab[e])
SeatsHeld(tab, p) == {tab[e].seat : e \in {f \in Edges : tab[f].person = p /\ LiveSeat(tab[f])}}

\* store_merge_person.go, relinkPersonFKs: unless a row of the two people changes while the
\* merge is open, what it moves breaks neither index, however the rows came about: the merge
\* need not fail.  The target ends with the roles of both, and with a current primary
\* employment exactly if one of them had one.
RelinkFits ==
  \A m \in Merges : merge[m].pc = "read" /\ ~merge[m].crossed =>
    LET p == merge[m].p
        t == merge[m].t
    IN  /\ FitsIndexes(RelinkedEdges(m))
        /\ SeatsHeld(RelinkedEdges(m), t) = SeatsHeld(edge, p) \cup SeatsHeld(edge, t)
        /\ Employed(RelinkedEdges(m), t) <=> Employed(edge, p) \/ Employed(edge, t)
=============================================================================
