------------------------------- MODULE Deals -------------------------------
(***************************************************************************)
(* One deal under overlapping requests (modules/deals): the advance handler,  *)
(* which reads the deal and the stages' semantics, passes the approval gate    *)
(* and only then opens the transaction that moves the deal; PATCH, archive and *)
(* restore; stages archived meanwhile.  The deal has an amount, so that a     *)
(* closed deal needs a rate.  Left out: partner, owner, name, custom fields,   *)
(* and the two refusals that depend on the request alone (a stage of another   *)
(* pipeline, a status that disagrees with the stage), which Abandon covers.    *)
(* Each request writes at most once.                                          *)
(***************************************************************************)
EXTENDS Naturals, Sequences, FiniteSets

CONSTANTS
  Requests, Agents,        \* requests, and those whose principal is an agent
  Tokens,                  \* approval tokens
  Stages, Semantic,        \* stages of the pipeline; Semantic[s] is never changed
  Currencies, Base, Rated, \* the workspace's base currency, those with an fx_rate
  Fading,                  \* bound: the stages a run may archive
  MaxMatch,                \* bound: the versions an If-Match may name
  Ops,                     \* the operations the requests of a run may be
  None

Statuses == {"open", "won", "lost"}
Terminal == {"won", "lost"}

ASSUME DealsAssumption ==
  /\ Agents \subseteq Requests
  /\ Semantic \in [Stages -> Statuses]
  /\ Fading \subseteq Stages
  /\ MaxMatch \in Nat
  /\ Base \in Currencies /\ Rated \subseteq Currencies
  /\ None \notin Stages \cup Currencies \cup Tokens \cup Statuses
  /\ Ops \subseteq {"advance", "update", "archive", "restore"}

VARIABLES
  deal,      \* the row
  live,      \* stages with archived_at null
  req,       \* the requests
  history,   \* deal_stage_history
  events,    \* event_outbox, topics of this deal
  token,     \* what each token approves
  spent      \* jti rows: consumed tokens

vars == <<deal, live, req, history, events, token, spent>>

-----------------------------------------------------------------------------
(* Types. *)

Rows == [stage : Stages, status : Statuses, lostReason : {None, "given"},
         closedAt : BOOLEAN, rate : Currencies \cup {None},
         currency : Currencies \cup {None}, archived : BOOLEAN, version : Nat \ {0}]

HistoryRows == [from : Stages \cup {None}, to : Stages, by : {"user", "workspace"}]

Approvals == [from : Statuses, to : Stages, version : Nat \ {0}]

\* pc      step the request waits at
\* match   If-Match, 0 when it is not sent
\* ahead   the deal had not reached that version when the handler read it (history)
\* to      target stage, status the patched status
\* from    semantic of the deal's stage read before the gate
\* paid    token the gate consumed
\* left    stage the write moved the deal out of
\* rate    rate freezeDealFX found before the UPDATE
States == [pc : {"idle", "read", "admitted", "prepared", "written", "refused"},
           op : Ops \cup {None}, match : Nat, ahead : BOOLEAN, to : Stages \cup {None},
           status : Statuses \cup {None}, from : Statuses \cup {None},
           paid : Tokens \cup {None}, left : Stages \cup {None},
           rate : Currencies \cup {None}]

TypeOK ==
  /\ deal \in Rows
  /\ live \subseteq Stages
  /\ req \in [Requests -> States]
  /\ history \in Seq(HistoryRows)
  /\ events \in Seq({"deal.created", "deal.stage_changed", "deal.archived", "deal.restored"})
  /\ token \in [Tokens -> Approvals \cup {None}]
  /\ spent \subseteq Tokens

Idle == [pc |-> "idle", op |-> None, match |-> 0, ahead |-> FALSE, to |-> None,
         status |-> None, from |-> None, paid |-> None, left |-> None, rate |-> None]

\* Create takes any stage of the pipeline and leaves status at its default.
Init ==
  /\ \E s \in Stages, c \in Currencies \cup {None} :
       /\ deal = [stage |-> s, status |-> "open", lostReason |-> None, closedAt |-> FALSE,
                  rate |-> None, currency |-> c, archived |-> FALSE, version |-> 1]
       /\ history = <<[from |-> None, to |-> s, by |-> "user"]>>
  /\ events = <<"deal.created">>
  /\ live  = Stages
  /\ req   = [p \in Requests |-> Idle]
  /\ token = [t \in Tokens |-> None]
  /\ spent = {}

-----------------------------------------------------------------------------
(* The row. *)

\* deal_lost_reason, deal_closed_at and deal_closed_fx; another row is refused.
Valid(row) ==
  /\ row.status = "lost" => row.lostReason # None
  /\ row.status \in Terminal => row.closedAt /\ row.rate # None

Coalesce(x, y) == IF x = None THEN y ELSE x

\* freezeDealFX: the identity for the base currency, the latest fx_rate for another.
FrozenRate(status, currency) ==
  IF status \in Terminal /\ currency \in Rated \cup {Base} THEN currency ELSE None

Matches(r, row) == r.match \in {0, row.version}

\* touch_versioned, on every UPDATE of the row.
Touch(row) == [row EXCEPT !.version = @ + 1]

\* Mutant: reopening leaves the frozen rate.
Advanced_KeepsRate(row, to, reason) ==
  LET status    == Semantic[to]
      reopening == row.status # "open" /\ status = "open"
      closing   == status \in Terminal
  IN  Touch([row EXCEPT
        !.stage      = to,
        !.status     = status,
        !.lostReason = IF status = "lost" THEN reason ELSE None,
        !.closedAt   = ~reopening /\ (closing \/ @),
        !.rate       = IF closing THEN Coalesce(FrozenRate(status, row.currency), @) ELSE @])

\* Advance and advanceUpdate: status follows the target's semantic; closing stamps
\* and freezes, reopening clears.
Advanced(row, to, reason) ==
  LET status    == Semantic[to]
      reopening == row.status # "open" /\ status = "open"
      closing   == status \in Terminal
  IN  Touch([row EXCEPT
        !.stage      = to,
        !.status     = status,
        !.lostReason = CASE reopening -> None
                         [] closing   -> IF status = "lost" THEN reason ELSE None
                         [] OTHER     -> @,
        !.closedAt   = ~reopening /\ (closing \/ @),
        !.rate       = CASE reopening -> None
                         [] closing   -> Coalesce(FrozenRate(status, row.currency), @)
                         [] OTHER     -> @])

\* applyUpdate: each column COALESCEs on its own.
Patched(row, r, currency, reason) ==
  Touch([row EXCEPT
    !.stage      = Coalesce(r.to, @),
    !.status     = Coalesce(r.status, @),
    !.lostReason = Coalesce(reason, @),
    !.currency   = Coalesce(currency, @),
    !.closedAt   = @ \/ r.status \in Terminal,
    !.rate       = Coalesce(r.rate, @)])

-----------------------------------------------------------------------------
(* Requests. *)

Set(p, s) == req' = [req EXCEPT ![p] = s]

At(p, pc, op) == req[p].pc = pc /\ req[p].op = op

\* An error response: nothing of the request is left but a consumed token.
Refuse(p) == Set(p, [Idle EXCEPT !.pc = "refused", !.paid = req[p].paid])

Wrote(p, r) == Set(p, [r EXCEPT !.pc = "written", !.left = deal.stage,
                                !.status = None, !.from = None, !.rate = None])

\* parseIfMatch takes any number: a version read just now or long ago, or one the
\* deal has yet to reach.
Versions == 0 .. MaxMatch

\* advance up to the gate: Get, then StageSemantic of the deal's stage and of the
\* target, each in a transaction of its own.
ReadStages(p, to, match) ==
  /\ "advance" \in Ops /\ req[p].pc = "idle"
  /\ IF ~deal.archived /\ deal.stage \in live /\ to \in live
     THEN Set(p, [Idle EXCEPT !.pc = "read", !.op = "advance", !.to = to,
                              !.match = match, !.ahead = match > deal.version,
                              !.from = Semantic[deal.stage]])
     ELSE Refuse(p)
  /\ UNCHANGED <<deal, live, history, events, token, spent>>

\* Mutant: only closing is governed.
Yellow_CloseOnly(from, to) == to \in Terminal

\* ResolveTier: confirm-first when either endpoint is terminal.
Yellow(from, to) == from \in Terminal \/ to \in Terminal

\* VerifyAndConsume: the diff hash covers both semantics and the target; the
\* version is compared only when the caller sent one.
Covers(t, r) ==
  /\ t # None /\ t \notin spent
  /\ token[t] # None
  /\ token[t].from = r.from /\ token[t].to = r.to
  /\ r.match \in {0, token[t].version}

\* checkApprovalGate with the X-Approval-Token header t.
Gate(p, t) ==
  /\ At(p, "read", "advance")
  /\ IF ~(p \in Agents /\ Yellow(req[p].from, Semantic[req[p].to]))
     THEN Set(p, [req[p] EXCEPT !.pc = "admitted"]) /\ UNCHANGED spent
     ELSE IF Covers(t, req[p])
     THEN /\ Set(p, [req[p] EXCEPT !.pc = "admitted", !.paid = t])
          /\ spent' = spent \cup {t}
     ELSE Refuse(p) /\ UNCHANGED spent
  /\ UNCHANGED <<deal, live, history, events, token>>

\* Advance's early returns, with the row locked.
Admissible(r, reason) ==
  /\ ~deal.archived /\ Matches(r, deal)
  /\ r.to \in live
  /\ Semantic[r.to] = "lost" => reason # None

\* Mutant: the row is not locked; from_stage_id is any stage of the semantic the
\* handler read.
Advance_Unlocked(p, reason) ==
  LET r   == req[p]
      new == Advanced(deal, r.to, reason)
  IN  /\ At(p, "admitted", "advance")
      /\ IF Admissible(r, reason) /\ Valid(new)
         THEN /\ deal'    = new
              /\ \E s \in Stages :
                   /\ Semantic[s] = r.from
                   /\ history' = Append(history, [from |-> s, to |-> r.to, by |-> "user"])
              /\ events'  = Append(events, "deal.stage_changed")
              /\ Wrote(p, r)
         ELSE Refuse(p) /\ UNCHANGED <<deal, history, events>>
      /\ UNCHANGED <<live, token, spent>>

\* Advance: one transaction under the row's lock; one history row, one event.
Advance(p, reason) ==
  LET r   == req[p]
      new == Advanced(deal, r.to, reason)
  IN  /\ At(p, "admitted", "advance")
      /\ IF Admissible(r, reason) /\ Valid(new)
         THEN /\ deal'    = new
              /\ history' = Append(history, [from |-> deal.stage, to |-> r.to, by |-> "user"])
              /\ events'  = Append(events, "deal.stage_changed")
              /\ Wrote(p, r)
         ELSE Refuse(p) /\ UNCHANGED <<deal, history, events>>
      /\ UNCHANGED <<live, token, spent>>

\* applyUpdate before its UPDATE, no lock taken: checkStageInPipeline, freezeDealFX.
PrepareUpdate(p, to, status, match) ==
  /\ "update" \in Ops /\ req[p].pc = "idle"
  /\ IF to \in live \cup {None}
     THEN Set(p, [Idle EXCEPT !.pc = "prepared", !.op = "update", !.to = to, !.status = status,
                              !.match = match, !.rate = FrozenRate(status, deal.currency)])
     ELSE Refuse(p)
  /\ UNCHANGED <<deal, live, history, events, token, spent>>

\* writeStageHistoryOnChange: from_stage_id is read after the UPDATE, changed_by
\* is the workspace.
StageHistory(to, new) ==
  IF to = None THEN history
  ELSE Append(history, [from |-> new.stage, to |-> to, by |-> "workspace"])

\* Mutant: If-Match is not part of the UPDATE's WHERE.
Update_NoGuard(p, currency, reason) ==
  LET r   == req[p]
      new == Patched(deal, r, currency, reason)
  IN  /\ At(p, "prepared", "update")
      /\ ~deal.archived /\ Valid(new)
      /\ deal'    = new
      /\ history' = StageHistory(r.to, new)
      /\ Wrote(p, r)
      /\ UNCHANGED <<live, events, token, spent>>

\* The UPDATE, which takes the lock and sees the latest row, to the commit.
Update(p, currency, reason) ==
  LET r   == req[p]
      new == Patched(deal, r, currency, reason)
  IN  /\ At(p, "prepared", "update")
      /\ IF ~deal.archived /\ Matches(r, deal) /\ Valid(new)
         THEN /\ deal'    = new
              /\ history' = StageHistory(r.to, new)
              /\ Wrote(p, r)
         ELSE Refuse(p) /\ UNCHANGED <<deal, history>>
      /\ UNCHANGED <<live, events, token, spent>>

\* Archive: one guarded UPDATE; the event only when it hit the row.
Archive(p) ==
  /\ "archive" \in Ops /\ req[p].pc = "idle"
  /\ IF deal.archived
     THEN Refuse(p) /\ UNCHANGED <<deal, events>>
     ELSE /\ deal'   = Touch([deal EXCEPT !.archived = TRUE])
          /\ events' = Append(events, "deal.archived")
          /\ Wrote(p, [Idle EXCEPT !.op = "archive"])
  /\ UNCHANGED <<live, history, token, spent>>

\* Restore up to its UPDATE: archived_at read without a lock.
PrepareRestore(p) ==
  /\ "restore" \in Ops /\ req[p].pc = "idle"
  /\ IF deal.archived
     THEN Set(p, [Idle EXCEPT !.pc = "prepared", !.op = "restore"])
     ELSE Refuse(p)
  /\ UNCHANGED <<deal, live, history, events, token, spent>>

\* Its UPDATE has no guard, and the event is always written.
Restore(p) ==
  /\ At(p, "prepared", "restore")
  /\ deal'   = Touch([deal EXCEPT !.archived = FALSE])
  /\ events' = Append(events, "deal.restored")
  /\ Wrote(p, req[p])
  /\ UNCHANGED <<live, history, token, spent>>

\* The request is refused for what it says, cancelled, or its process dies.
Abandon(p) ==
  /\ req[p].pc \in {"read", "admitted", "prepared"}
  /\ Refuse(p)
  /\ UNCHANGED <<deal, live, history, events, token, spent>>

\* StageStore.Archive: nothing asks whether deals are in the stage.
ArchiveStage(s) ==
  /\ s \in live \cap Fading
  /\ live' = live \ {s}
  /\ UNCHANGED <<deal, req, history, events, token, spent>>

\* A human approves one transition of the deal as it is.
IssueToken(t, to) ==
  /\ token[t] = None
  /\ token' = [token EXCEPT ![t] =
       [from |-> Semantic[deal.stage], to |-> to, version |-> deal.version]]
  /\ UNCHANGED <<deal, live, req, history, events, spent>>

Reasons == {None, "given"}

Next ==
  \/ \E p \in Requests :
       \/ \E s \in Stages, v \in Versions : ReadStages(p, s, v)
       \/ \E t \in Tokens \cup {None} : Gate(p, t)
       \/ \E r \in Reasons : Advance(p, r)
       \/ \E s \in Stages \cup {None}, st \in Statuses \cup {None}, v \in Versions :
            PrepareUpdate(p, s, st, v)
       \/ \E c \in Currencies \cup {None}, r \in Reasons : Update(p, c, r)
       \/ Archive(p) \/ PrepareRestore(p) \/ Restore(p) \/ Abandon(p)
  \/ \E s \in Stages : ArchiveStage(s)
  \/ \E t \in Tokens, s \in Stages : IssueToken(t, s)

Spec == Init /\ [][Next]_vars

-----------------------------------------------------------------------------
(* What holds. *)

Written(op) == {p \in Requests : req[p].pc = "written" /\ req[p].op = op}
Writers     == {p \in Requests : req[p].pc = "written"}

Crosses(p) == {Semantic[req[p].left], Semantic[req[p].to]} \cap Terminal # {}

\* An agent's advance that leaves or enters a terminal stage, and whose If-Match the
\* deal had reached when the gate judged it, was paid with a token approved for this
\* very version and target, and nobody else was admitted on it: what the gate judged
\* before the transaction is what the transaction did (DEAL-WIRE-4, DEAL-AC-B2).  An
\* If-Match that names a version still to come is judged on an earlier stage and may
\* match by the time the row is locked: AheadIsApproved below.
MatchedAdvanceIsApproved ==
  \A p \in Written("advance") \cap Agents :
    req[p].match # 0 /\ ~req[p].ahead /\ Crosses(p) =>
      \E t \in spent :
        /\ req[p].paid = t
        /\ token[t].to = req[p].to /\ token[t].version = req[p].match
        /\ \A q \in Requests \ {p} : req[q].paid # t

\* Of the requests that send the same If-Match at most one writes: the loser of two
\* overlapping writers is refused, never merged over the winner (API-CC-2).
OneWritePerVersion ==
  \A p, q \in Writers :
    p # q /\ req[p].match # 0 => req[p].match # req[q].match

\* A row an advance writes starts where the row before it ends: the stage it
\* names is the one it moved the deal out of (Advance's FOR UPDATE).
AdvanceRowsChain ==
  \A n \in 2 .. Len(history) :
    history[n].by = "user" => history[n].from = history[n - 1].to

Count(e) == Cardinality({n \in 1 .. Len(events) : events[n] = e})

\* Overlapping archives announce one archive: the deal was live before each event
\* (Archive's guarded UPDATE).
ArchivedFromLive == Count("deal.archived") <= 1 + Count("deal.restored")

\* Through any number of closings and reopenings, archives and restores, a closed deal is
\* stamped and valued in its own currency, an open one is neither, and a reason belongs to a
\* lost one: the columns part only by a PATCH, which COALESCEs each alone and freezes the rate
\* of a currency it read without a lock (DEAL-AC-R2, advanceUpdate).
PartedOnlyByPatch ==
  Written("update") = {} =>
    /\ deal.closedAt <=> deal.status \in Terminal
    /\ deal.rate = IF deal.status \in Terminal THEN deal.currency ELSE None
    /\ deal.lostReason # None <=> deal.status = "lost"

-----------------------------------------------------------------------------
(* What the repository says and the code does not do. *)

\* docs/subsystems/deals-and-pipeline.md:674 (DEAL-AC-R1): a reopen "requires the
\* approval token exactly like close (either-endpoint rule, DEAL-WIRE-4)".
AdvanceIsApproved ==
  \A p \in Written("advance") \cap Agents : Crosses(p) => req[p].paid # None

\* The same rule for a caller that guards its write by an If-Match the deal had not
\* reached when the handler read it.
AheadIsApproved ==
  \A p \in Written("advance") \cap Agents :
    req[p].ahead /\ Crosses(p) => req[p].paid # None

\* store_deal_update.go:160: the row records "the deal's stage before the UPDATE
\* ran as from_stage_id".
HistoryChains ==
  \A n \in 2 .. Len(history) : history[n].from = history[n - 1].to

\* docs/subsystems/deals-and-pipeline.md:675 (DEAL-AC-R2): after a reopen
\* "closed_at and lost_reason are cleared and the frozen fx_rate_to_base/
\* fx_rate_date are cleared".
OpenIsUnvalued == deal.status = "open" => ~deal.closedAt /\ deal.rate = None

\* store_deal_update.go:246: "the latest FX rate (and its date) for the deal's
\* current currency when the status is moving to won/lost".
FrozenRateFitsCurrency == deal.status \in Terminal => deal.rate = deal.currency

\* store_deal.go:254: Restore "Refuses errs.ErrNotArchived if already live."
RestoredFromArchived == Count("deal.restored") <= Count("deal.archived")
=============================================================================
