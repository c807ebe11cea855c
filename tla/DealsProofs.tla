----------------------------- MODULE DealsProofs -----------------------------
(***************************************************************************)
(* For any number of requests, stages, tokens and currencies: types, one     *)
(* write per If-Match, the chain of the rows advances write, that a governed   *)
(* advance with If-Match was paid for, and that only patches part the columns    *)
(* of a closed deal from its status.                                           *)
(***************************************************************************)
EXTENDS Deals, TLAPS

-----------------------------------------------------------------------------
(* Types. *)

\* touch_versioned takes the next version and leaves the rest of the row alone.
LEMMA TouchTyped ==
  ASSUME NEW row \in Rows
  PROVE  /\ Touch(row) \in Rows
         /\ Touch(row).version = row.version + 1
         /\ Touch(row).stage = row.stage
<1>1. row.version + 1 \in Nat \ {0}
  BY DEF Rows
<1> QED
  BY <1>1, Zenon DEF Touch, Rows

\* Setting archived_at changes nothing else.
LEMMA ArchivedTyped ==
  ASSUME NEW row \in Rows, NEW b \in BOOLEAN
  PROVE  /\ [row EXCEPT !.archived = b] \in Rows
         /\ [row EXCEPT !.archived = b].version = row.version
         /\ [row EXCEPT !.archived = b].stage = row.stage
  BY Zenon DEF Rows

\* Advance's UPDATE keeps the row's type.
LEMMA AdvancedTyped ==
  ASSUME NEW row \in Rows, NEW to \in Stages, NEW reason \in Reasons
  PROVE  /\ Advanced(row, to, reason) \in Rows
         /\ Advanced(row, to, reason).version = row.version + 1
         /\ Advanced(row, to, reason).stage = to
<1> DEFINE status    == Semantic[to]
           reopening == row.status # "open" /\ status = "open"
           closing   == status \in Terminal
           lost      == CASE reopening -> None
                          [] closing   -> IF status = "lost" THEN reason ELSE None
                          [] OTHER     -> row.lostReason
           closed    == ~reopening /\ (closing \/ row.closedAt)
           rate      == CASE reopening -> None
                          [] closing   -> Coalesce(FrozenRate(status, row.currency), row.rate)
                          [] OTHER     -> row.rate
           new == [row EXCEPT !.stage = to, !.status = status, !.lostReason = lost,
                              !.closedAt = closed, !.rate = rate]
<1>1. status \in Statuses
  BY DealsAssumption
<1>2. lost \in {None, "given"}
  BY DEF Rows, Reasons
<1>3. closed \in BOOLEAN
  BY Zenon
<1>4. rate \in Currencies \cup {None}
  BY DealsAssumption DEF FrozenRate, Coalesce, Rows
<1> HIDE DEF status, lost, closed, rate
<1>5. new \in Rows /\ new.version = row.version /\ new.stage = to
  BY <1>1, <1>2, <1>3, <1>4, Zenon DEF Rows
<1>6. Advanced(row, to, reason) = Touch(new)
  BY Zenon DEF Advanced, status, lost, closed, rate
<1> QED
  BY <1>5, <1>6, TouchTyped

\* A patch keeps it too.
LEMMA PatchedTyped ==
  ASSUME NEW row \in Rows, NEW r \in States, NEW currency \in Currencies \cup {None},
         NEW reason \in Reasons
  PROVE  /\ Patched(row, r, currency, reason) \in Rows
         /\ Patched(row, r, currency, reason).version = row.version + 1
         /\ Patched(row, r, currency, reason).stage = Coalesce(r.to, row.stage)
<1> DEFINE stage  == Coalesce(r.to, row.stage)
           status == Coalesce(r.status, row.status)
           lost   == Coalesce(reason, row.lostReason)
           cur    == Coalesce(currency, row.currency)
           closed == row.closedAt \/ r.status \in Terminal
           rate   == Coalesce(r.rate, row.rate)
           new    == [row EXCEPT !.stage = stage, !.status = status, !.lostReason = lost,
                                 !.currency = cur, !.closedAt = closed, !.rate = rate]
<1>1. stage \in Stages /\ status \in Statuses
  BY DEF Coalesce, Rows, States
<1>2. lost \in {None, "given"} /\ cur \in Currencies \cup {None}
  BY DEF Coalesce, Rows, Reasons
<1>3. closed \in BOOLEAN
  BY Zenon
<1>4. rate \in Currencies \cup {None}
  BY DEF Coalesce, Rows, States
<1> HIDE DEF stage, status, lost, cur, closed, rate
<1>5. new \in Rows /\ new.version = row.version /\ new.stage = stage
  BY <1>1, <1>2, <1>3, <1>4, Zenon DEF Rows
<1>6. Patched(row, r, currency, reason) = Touch(new)
  BY Zenon DEF Patched, stage, status, lost, cur, closed, rate
<1> QED
  BY <1>5, <1>6, TouchTyped DEF stage

LEMMA InitTyped == Init => TypeOK
<1> SUFFICES ASSUME Init PROVE TypeOK
  OBVIOUS
<1>1. PICK s \in Stages, c \in Currencies \cup {None} :
        /\ deal = [stage |-> s, status |-> "open", lostReason |-> None, closedAt |-> FALSE,
                   rate |-> None, currency |-> c, archived |-> FALSE, version |-> 1]
        /\ history = <<[from |-> None, to |-> s, by |-> "user"]>>
  BY DEF Init
<1>2. deal \in Rows
  <2>1. 1 \in Nat \ {0}
    OBVIOUS
  <2> QED
    BY <1>1, <2>1, Zenon DEF Rows, Statuses
<1>3. history \in Seq(HistoryRows)
  BY <1>1 DEF HistoryRows
<1>4. Idle \in States
  BY DEF Idle, States
<1> QED
  BY <1>2, <1>3, <1>4 DEF Init, TypeOK

\* The requests keep their type when one of them is set to a value of it.
LEMMA SetTyped ==
  ASSUME TypeOK, NEW p \in Requests, NEW s \in States, Set(p, s)
  PROVE  /\ req' \in [Requests -> States] /\ req'[p] = s
         /\ \A q \in Requests \ {p} : req'[q] = req[q]
  BY DEF TypeOK, Set

\* What Refuse and Wrote leave in a request.
LEMMA RefuseTyped ==
  ASSUME TypeOK, NEW p \in Requests, Refuse(p)
  PROVE  /\ req' \in [Requests -> States]
         /\ req'[p].pc = "refused" /\ req'[p].paid = req[p].paid
         /\ \A q \in Requests \ {p} : req'[q] = req[q]
<1>1. req[p] \in States
  BY DEF TypeOK
<1>2. /\ [Idle EXCEPT !.pc = "refused", !.paid = req[p].paid] \in States
      /\ [Idle EXCEPT !.pc = "refused", !.paid = req[p].paid].pc = "refused"
      /\ [Idle EXCEPT !.pc = "refused", !.paid = req[p].paid].paid = req[p].paid
  BY <1>1 DEF Idle, States
<1> QED
  BY <1>2, SetTyped DEF Refuse

LEMMA WroteTyped ==
  ASSUME TypeOK, NEW p \in Requests, NEW r \in States, Wrote(p, r)
  PROVE  /\ req' \in [Requests -> States]
         /\ req'[p].pc = "written" /\ req'[p].left = deal.stage
         /\ req'[p].op = r.op /\ req'[p].match = r.match /\ req'[p].ahead = r.ahead
         /\ req'[p].to = r.to /\ req'[p].paid = r.paid
         /\ \A q \in Requests \ {p} : req'[q] = req[q]
<1> DEFINE w == [r EXCEPT !.pc = "written", !.left = deal.stage,
                          !.status = None, !.from = None, !.rate = None]
<1>1. deal.stage \in Stages
  BY DEF TypeOK, Rows
<1>2. /\ w \in States /\ w.pc = "written" /\ w.left = deal.stage
      /\ w.op = r.op /\ w.match = r.match /\ w.ahead = r.ahead /\ w.to = r.to /\ w.paid = r.paid
  BY <1>1 DEF States
<1> QED
  BY <1>2, SetTyped DEF Wrote

\* Every step keeps the types.
LEMMA StepTyped == TypeOK /\ [Next]_vars => TypeOK'
<1> SUFFICES ASSUME TypeOK, [Next]_vars PROVE TypeOK'
  OBVIOUS
<1> USE DEF TypeOK
<1>0. Idle \in States /\ \A p \in Requests : req[p] \in States
  BY DEF Idle, States
<1>1. ASSUME NEW p \in Requests, NEW s \in Stages, NEW v \in Versions, ReadStages(p, s, v)
      PROVE  TypeOK'
  <2>1. deal.stage \in Stages /\ v \in Nat
    BY DealsAssumption DEF Versions, Rows
  <2>2. Semantic[deal.stage] \in Statuses
    BY <2>1, DealsAssumption
  <2> DEFINE late == v > deal.version
  <2>5. "advance" \in Ops
    BY <1>1, Zenon DEF ReadStages
  <2>3. late \in BOOLEAN /\ "advance" \in Ops
    BY <2>1, <2>5 DEF Rows
  <2> HIDE DEF late
  <2>4. [Idle EXCEPT !.pc = "read", !.op = "advance", !.to = s, !.match = v, !.ahead = late,
                     !.from = Semantic[deal.stage]] \in States
    BY <2>1, <2>2, <2>3, Zenon DEF Idle, States
  <2> QED
    BY <1>1, <2>4, SetTyped, RefuseTyped DEF ReadStages, late
<1>2. ASSUME NEW p \in Requests, NEW t \in Tokens \cup {None}, Gate(p, t)
      PROVE  TypeOK'
  <2>1. [req[p] EXCEPT !.pc = "admitted"] \in States
    BY <1>0 DEF States
  <2>2. [req[p] EXCEPT !.pc = "admitted", !.paid = t] \in States
    BY <1>0 DEF States
  <2>3. req' \in [Requests -> States]
    BY <1>2, <2>1, <2>2, SetTyped, RefuseTyped DEF Gate
  <2>4. spent' \subseteq Tokens
    BY <1>2 DEF Gate, Covers
  <2> QED
    BY <1>2, <2>3, <2>4 DEF Gate
<1>3. ASSUME NEW p \in Requests, NEW reason \in Reasons, Advance(p, reason)
      PROVE  TypeOK'
  <2>1. CASE ~(Admissible(req[p], reason) /\ Valid(Advanced(deal, req[p].to, reason)))
    BY <1>3, <2>1, RefuseTyped DEF Advance
  <2>2. CASE Admissible(req[p], reason) /\ Valid(Advanced(deal, req[p].to, reason))
    <3>1. req[p].to \in Stages /\ deal.stage \in Stages
      BY <2>2 DEF Admissible, Rows
    <3>2. /\ deal'    = Advanced(deal, req[p].to, reason)
          /\ history' = Append(history, [from |-> deal.stage, to |-> req[p].to, by |-> "user"])
          /\ events'  = Append(events, "deal.stage_changed")
          /\ Wrote(p, req[p])
          /\ UNCHANGED <<live, token, spent>>
      BY <1>3, <2>2, Zenon DEF Advance
    <3>3. deal' \in Rows
      BY <3>1, <3>2, AdvancedTyped
    <3>4. history' \in Seq(HistoryRows)
      BY <3>1, <3>2 DEF HistoryRows
    <3>5. events' \in Seq({"deal.created", "deal.stage_changed", "deal.archived", "deal.restored"})
      BY <3>2
    <3> QED
      BY <1>0, <3>2, <3>3, <3>4, <3>5, WroteTyped
  <2> QED
    BY <2>1, <2>2
<1>4. ASSUME NEW p \in Requests, NEW s \in Stages \cup {None}, NEW st \in Statuses \cup {None},
             NEW v \in Versions, PrepareUpdate(p, s, st, v)
      PROVE  TypeOK'
  <2>1. v \in Nat /\ FrozenRate(st, deal.currency) \in Currencies \cup {None}
    BY DealsAssumption DEF Versions, Rows, FrozenRate
  <2>2. [Idle EXCEPT !.pc = "prepared", !.op = "update", !.to = s, !.status = st,
                     !.match = v, !.rate = FrozenRate(st, deal.currency)] \in States
    BY <1>4, <2>1 DEF Idle, States, PrepareUpdate
  <2> QED
    BY <1>4, <2>2, SetTyped, RefuseTyped DEF PrepareUpdate
<1>5. ASSUME NEW p \in Requests, NEW c \in Currencies \cup {None}, NEW reason \in Reasons,
             Update(p, c, reason)
      PROVE  TypeOK'
  <2> DEFINE new == Patched(deal, req[p], c, reason)
  <2>1. CASE ~(~deal.archived /\ Matches(req[p], deal) /\ Valid(new))
    BY <1>5, <2>1, RefuseTyped DEF Update
  <2>2. CASE ~deal.archived /\ Matches(req[p], deal) /\ Valid(new)
    <3>1. new \in Rows /\ new.stage \in Stages
      BY <1>0, PatchedTyped DEF Rows
    <3>2. StageHistory(req[p].to, new) \in Seq(HistoryRows)
      <4>1. CASE req[p].to = None
        BY <4>1 DEF StageHistory
      <4>2. CASE req[p].to # None
        <5>1. [from |-> new.stage, to |-> req[p].to, by |-> "workspace"] \in HistoryRows
          BY <1>0, <3>1, <4>2 DEF HistoryRows, States
        <5> QED
          BY <4>2, <5>1 DEF StageHistory
      <4> QED
        BY <4>1, <4>2
    <3> QED
      BY <1>0, <1>5, <2>2, <3>1, <3>2, WroteTyped DEF Update
  <2> QED
    BY <2>1, <2>2
<1>6. ASSUME NEW p \in Requests, Archive(p) PROVE TypeOK'
  <2>1. CASE deal.archived
    BY <1>6, <2>1, RefuseTyped DEF Archive
  <2>2. CASE ~deal.archived
    <3>1. Touch([deal EXCEPT !.archived = TRUE]) \in Rows
      BY ArchivedTyped, TouchTyped
    <3>2. [Idle EXCEPT !.op = "archive"] \in States
      BY <1>6 DEF Idle, States, Archive
    <3>3. /\ deal'   = Touch([deal EXCEPT !.archived = TRUE])
          /\ events' = Append(events, "deal.archived")
          /\ Wrote(p, [Idle EXCEPT !.op = "archive"])
          /\ UNCHANGED <<live, history, token, spent>>
      BY <1>6, <2>2, Zenon DEF Archive
    <3>4. events' \in Seq({"deal.created", "deal.stage_changed", "deal.archived", "deal.restored"})
      BY <3>3
    <3> QED
      BY <3>1, <3>2, <3>3, <3>4, WroteTyped
  <2> QED
    BY <2>1, <2>2
<1>7. ASSUME NEW p \in Requests, PrepareRestore(p) PROVE TypeOK'
  <2>1. [Idle EXCEPT !.pc = "prepared", !.op = "restore"] \in States
    BY <1>7 DEF Idle, States, PrepareRestore
  <2> QED
    BY <1>7, <2>1, SetTyped, RefuseTyped DEF PrepareRestore
<1>8. ASSUME NEW p \in Requests, Restore(p) PROVE TypeOK'
  <2>1. Touch([deal EXCEPT !.archived = FALSE]) \in Rows
    BY ArchivedTyped, TouchTyped
  <2>2. events' \in Seq({"deal.created", "deal.stage_changed", "deal.archived", "deal.restored"})
    BY <1>8 DEF Restore
  <2> QED
    BY <1>0, <1>8, <2>1, <2>2, WroteTyped DEF Restore
<1>9. ASSUME NEW p \in Requests, Abandon(p) PROVE TypeOK'
  BY <1>9, RefuseTyped DEF Abandon
<1>10. ASSUME NEW s \in Stages, ArchiveStage(s) PROVE TypeOK'
  BY <1>10 DEF ArchiveStage
<1>11. ASSUME NEW t \in Tokens, NEW s \in Stages, IssueToken(t, s) PROVE TypeOK'
  <2>1. [from |-> Semantic[deal.stage], to |-> s, version |-> deal.version] \in Approvals
    BY DealsAssumption DEF Approvals, Rows
  <2> QED
    BY <1>11, <2>1 DEF IssueToken
<1>12. CASE UNCHANGED vars
  BY <1>12 DEF vars
<1> QED
  BY <1>1, <1>2, <1>3, <1>4, <1>5, <1>6, <1>7, <1>8, <1>9, <1>10, <1>11, <1>12 DEF Next

\* The row, its history and the requests have the declared types.
THEOREM TypeCorrect == Spec => []TypeOK
  BY InitTyped, StepTyped, PTL DEF Spec

-----------------------------------------------------------------------------
(* The inductive invariant. *)

\* The history ends where the deal is (DEAL-AC-19).
EndsAtStage == Len(history) >= 1 /\ history[Len(history)].to = deal.stage

\* A token that was consumed had been issued, and pays one request.
SpentIssued == \A t \in spent : token[t] # None

PaidOnce ==
  \A p, q \in Requests : p # q /\ req[p].paid # None => req[q].paid # req[p].paid

\* The token of p approves what p asks for.
Paid(p) ==
  /\ req[p].paid \in spent
  /\ token[req[p].paid].to = req[p].to
  /\ req[p].match # 0 => token[req[p].paid].version = req[p].match

\* What the gate judged is the deal's stage as long as If-Match is its version, unless
\* that version was still to come.
ReadIsCurrent(p) ==
  req[p].pc \in {"read", "admitted"} =>
    /\ req[p].op = "advance"
    /\ ~req[p].ahead =>
         /\ req[p].match <= deal.version
         /\ req[p].match = deal.version => req[p].from = Semantic[deal.stage]

AdmittedIsPaid(p) ==
  req[p].pc = "admitted" /\ p \in Agents /\ Yellow(req[p].from, Semantic[req[p].to]) => Paid(p)

WrittenIsPaid(p) ==
  p \in Written("advance") /\ p \in Agents /\ req[p].match # 0 /\ ~req[p].ahead /\ Crosses(p) =>
    Paid(p)

\* A write leaves its If-Match behind.
WrittenIsPast(p) == req[p].pc = "written" => req[p].match < deal.version

\* A restore sends no If-Match.
RestoreIsPlain(p) == req[p].pc = "prepared" /\ req[p].op = "restore" => req[p].match = 0

RequestOK(p) ==
  /\ req[p].paid # None => req[p].paid \in spent
  /\ RestoreIsPlain(p)
  /\ ReadIsCurrent(p) /\ AdmittedIsPaid(p) /\ WrittenIsPaid(p) /\ WrittenIsPast(p)

Shared == EndsAtStage /\ SpentIssued /\ PaidOnce /\ OneWritePerVersion /\ AdvanceRowsChain

IInv == TypeOK /\ Shared /\ \A p \in Requests : RequestOK(p)

LEMMA InitHolds == Init => IInv
<1> SUFFICES ASSUME Init PROVE IInv
  OBVIOUS
<1>1. TypeOK
  BY InitTyped
<1>2. Len(history) = 1 /\ history[1].to = deal.stage
  BY DEF Init
<1>3. \A p \in Requests : req[p].pc = "idle" /\ req[p].paid = None
  BY DEF Init, Idle
<1>4. spent = {}
  BY DEF Init
<1>5. EndsAtStage /\ AdvanceRowsChain
  BY <1>2 DEF EndsAtStage, AdvanceRowsChain
<1>6. SpentIssued /\ PaidOnce /\ OneWritePerVersion
  BY <1>3, <1>4 DEF SpentIssued, PaidOnce, OneWritePerVersion, Writers
<1>7. \A p \in Requests : RequestOK(p)
  BY <1>3 DEF RequestOK, RestoreIsPlain, ReadIsCurrent, AdmittedIsPaid, WrittenIsPaid, WrittenIsPast, Written
<1> QED
  BY <1>1, <1>5, <1>6, <1>7 DEF IInv, Shared

\* A step of somebody else: the version may grow, tokens that were consumed stay as they are.
LEMMA OthersKeep ==
  ASSUME TypeOK, NEW q \in Requests, RequestOK(q), req'[q] = req[q],
         deal' = deal \/ deal'.version = deal.version + 1,
         spent \subseteq spent', \A t \in spent : token'[t] = token[t]
  PROVE  RequestOK(q)'
<1>1. deal.version \in Nat /\ req[q].match \in Nat
  BY DEF TypeOK, Rows, States
<1>2. Paid(q) => Paid(q)'
  BY DEF Paid
<1>3. ReadIsCurrent(q)'
  BY <1>1 DEF RequestOK, ReadIsCurrent
<1>4. AdmittedIsPaid(q)'
  BY <1>2 DEF RequestOK, AdmittedIsPaid
<1>5. WrittenIsPaid(q)'
  BY <1>2 DEF RequestOK, WrittenIsPaid, Written, Crosses
<1>6. WrittenIsPast(q)'
  BY <1>1 DEF RequestOK, WrittenIsPast
<1>7. RestoreIsPlain(q)'
  BY DEF RequestOK, RestoreIsPlain
<1> QED
  BY <1>3, <1>4, <1>5, <1>6, <1>7 DEF RequestOK

\* A request that is neither admitted nor done has little to keep.
LEMMA EarlyIsOK ==
  ASSUME NEW p \in Requests, req'[p].pc \notin {"read", "admitted", "written"},
         req'[p].paid # None => req'[p].paid \in spent', RestoreIsPlain(p)'
  PROVE  RequestOK(p)'
  BY DEF RequestOK, ReadIsCurrent, AdmittedIsPaid, WrittenIsPaid, WrittenIsPast, Written

\* A step of p that writes no row.
LEMMA QuietStep ==
  ASSUME IInv, TypeOK', NEW p \in Requests, UNCHANGED <<deal, history, token>>,
         spent \subseteq spent', SpentIssued', PaidOnce',
         \A q \in Requests \ {p} : req'[q] = req[q],
         req'[p].pc # "written", RequestOK(p)'
  PROVE  IInv'
<1>1. \A q \in Requests : RequestOK(q)'
  BY OthersKeep DEF IInv
<1>2. OneWritePerVersion'
  BY DEF IInv, Shared, OneWritePerVersion, Writers
<1>3. EndsAtStage' /\ AdvanceRowsChain'
  BY DEF IInv, Shared, EndsAtStage, AdvanceRowsChain
<1> QED
  BY <1>1, <1>2, <1>3 DEF IInv, Shared

\* The payments are what they were when no request gets a new one.
LEMMA PaidOnceKept ==
  ASSUME IInv, NEW p \in Requests, req'[p].paid \in {req[p].paid, None},
         \A q \in Requests \ {p} : req'[q] = req[q]
  PROVE  PaidOnce'
<1> SUFFICES ASSUME NEW x \in Requests, NEW y \in Requests, x # y, req'[x].paid # None
             PROVE  req'[y].paid # req'[x].paid
  BY DEF PaidOnce
<1>1. req'[x].paid = req[x].paid
  OBVIOUS
<1>2. req'[y].paid \in {req[y].paid, None}
  OBVIOUS
<1> QED
  BY <1>1, <1>2 DEF IInv, Shared, PaidOnce

\* A step of p that is refused.
LEMMA RefusedStep ==
  ASSUME IInv, TypeOK', NEW p \in Requests, Refuse(p), UNCHANGED <<deal, history, token, spent>>
  PROVE  IInv'
<1>1. /\ req'[p].pc = "refused" /\ req'[p].paid = req[p].paid
      /\ \A q \in Requests \ {p} : req'[q] = req[q]
  BY RefuseTyped DEF IInv
<1>2. PaidOnce' /\ SpentIssued'
  BY <1>1, PaidOnceKept DEF IInv, Shared, SpentIssued
<1>3. RequestOK(p)'
  <2>1. req'[p].paid # None => req'[p].paid \in spent'
    BY <1>1 DEF IInv, RequestOK
  <2>2. RestoreIsPlain(p)'
    BY <1>1 DEF RestoreIsPlain
  <2> QED
    BY <1>1, <2>1, <2>2, EarlyIsOK
<1> QED
  BY <1>1, <1>2, <1>3, QuietStep

\* A step of p that writes the row: the version it matched is the one it leaves behind.
LEMMA WriteStep ==
  ASSUME IInv, TypeOK', NEW p \in Requests,
         deal'.version = deal.version + 1, UNCHANGED <<token, spent>>,
         req'[p].pc = "written", req'[p].match \in {0, deal.version},
         req'[p].paid \in {req[p].paid, None},
         \A q \in Requests \ {p} : req'[q] = req[q],
         EndsAtStage', AdvanceRowsChain', WrittenIsPaid(p)'
  PROVE  IInv'
<1>1. deal.version \in Nat \ {0}
  BY DEF IInv, TypeOK, Rows
<1>2. PaidOnce' /\ SpentIssued'
  BY PaidOnceKept DEF IInv, Shared, SpentIssued
<1>3. RequestOK(p)'
  <2>1. req'[p].paid # None => req'[p].paid \in spent'
    BY DEF IInv, RequestOK
  <2>2. WrittenIsPast(p)'
    BY <1>1 DEF WrittenIsPast
  <2>3. ReadIsCurrent(p)' /\ AdmittedIsPaid(p)' /\ RestoreIsPlain(p)'
    BY DEF ReadIsCurrent, AdmittedIsPaid, RestoreIsPlain
  <2> QED
    BY <2>1, <2>2, <2>3 DEF RequestOK
<1>4. \A q \in Requests : RequestOK(q)'
  BY <1>3, OthersKeep DEF IInv
<1>5. OneWritePerVersion'
  <2> SUFFICES ASSUME NEW x \in Requests, NEW y \in Requests, x # y,
                      req'[x].pc = "written", req'[y].pc = "written", req'[x].match # 0
               PROVE  req'[x].match # req'[y].match
    BY DEF OneWritePerVersion, Writers
  <2>1. \A q \in Requests \ {p} : req[q].pc = "written" => req[q].match < deal.version
    BY DEF IInv, RequestOK, WrittenIsPast
  <2>2. \A q \in Requests : req[q].match \in Nat
    BY DEF IInv, TypeOK, States
  <2>3. CASE x # p /\ y # p
    BY <2>3 DEF IInv, Shared, OneWritePerVersion, Writers
  <2>4. CASE x = p
    BY <1>1, <2>1, <2>2, <2>4
  <2>5. CASE y = p
    BY <1>1, <2>1, <2>2, <2>5
  <2> QED
    BY <2>3, <2>4, <2>5
<1> QED
  BY <1>2, <1>4, <1>5 DEF IInv, Shared

\* A row appended to a history that ends at the deal's stage.
LEMMA AppendChains ==
  ASSUME TypeOK, EndsAtStage, AdvanceRowsChain, NEW row \in HistoryRows,
         history' = Append(history, row), row.to = deal'.stage,
         row.by = "user" => row.from = deal.stage
  PROVE  EndsAtStage' /\ AdvanceRowsChain'
<1>1. history \in Seq(HistoryRows) /\ Len(history) \in Nat /\ Len(history) >= 1
  BY DEF TypeOK, EndsAtStage
<1>2. /\ Len(history') = Len(history) + 1
      /\ history'[Len(history) + 1] = row
      /\ \A n \in 1 .. Len(history) : history'[n] = history[n]
  BY <1>1
<1>3. EndsAtStage'
  BY <1>1, <1>2 DEF EndsAtStage
<1>4. AdvanceRowsChain'
  <2> SUFFICES ASSUME NEW n \in 2 .. Len(history'), history'[n].by = "user"
               PROVE  history'[n].from = history'[n - 1].to
    BY DEF AdvanceRowsChain
  <2>1. CASE n <= Len(history)
    <3>1. history'[n] = history[n] /\ history'[n - 1] = history[n - 1] /\ n \in 2 .. Len(history)
      BY <1>1, <1>2, <2>1
    <3> QED
      BY <3>1 DEF AdvanceRowsChain
  <2>2. CASE n = Len(history) + 1
    <3>1. history'[n] = row /\ history'[n - 1] = history[Len(history)]
      BY <1>1, <1>2, <2>2
    <3> QED
      BY <3>1 DEF EndsAtStage
  <2> QED
    BY <1>1, <1>2, <2>1, <2>2
<1> QED
  BY <1>3, <1>4

-----------------------------------------------------------------------------
(* The steps. *)

\* What the handler reads is current at a version the deal has reached.
LEMMA ReadHolds ==
  ASSUME IInv, TypeOK', NEW p \in Requests, NEW s \in Stages, NEW v \in Versions,
         ReadStages(p, s, v)
  PROVE  IInv'
<1> DEFINE r == [Idle EXCEPT !.pc = "read", !.op = "advance", !.to = s,
                             !.match = v, !.ahead = v > deal.version,
                             !.from = Semantic[deal.stage]]
<1>1. UNCHANGED <<deal, history, token, spent>>
  BY DEF ReadStages
<1>2. CASE Refuse(p)
  BY <1>1, <1>2, RefusedStep
<1>3. CASE Set(p, r)
  <2>1. req'[p] = r /\ \A q \in Requests \ {p} : req'[q] = req[q]
    BY <1>3 DEF Set, IInv, TypeOK
  <2>2. /\ r.pc = "read" /\ r.op = "advance" /\ r.match = v
        /\ r.from = Semantic[deal.stage] /\ r.paid = None
        /\ r.ahead = (v > deal.version)
    BY Zenon DEF Idle
  <2>3. ~r.ahead => v <= deal.version
    <3>1. v \in Nat /\ deal.version \in Nat
      BY DealsAssumption DEF Versions, IInv, TypeOK, Rows
    <3>2. ~(v > deal.version) => v <= deal.version
      BY <3>1
    <3> QED
      BY <2>2, <3>2, Zenon
  <2>4. PaidOnce' /\ SpentIssued'
    BY <1>1, <2>1, <2>2, PaidOnceKept DEF IInv, Shared, SpentIssued
  <2>5. RequestOK(p)'
    <3> HIDE DEF r
    <3> QED
      BY <1>1, <2>1, <2>2, <2>3
      DEF RequestOK, RestoreIsPlain, ReadIsCurrent, AdmittedIsPaid, WrittenIsPaid,
          WrittenIsPast, Written
  <2> QED
    BY <1>1, <2>1, <2>2, <2>4, <2>5, QuietStep
<1> QED
  BY <1>2, <1>3 DEF ReadStages

\* A request is admitted on a token nobody had consumed, or as ungoverned.
LEMMA GateHolds ==
  ASSUME IInv, TypeOK', NEW p \in Requests, NEW t \in Tokens \cup {None}, Gate(p, t)
  PROVE  IInv'
<1> DEFINE governed == p \in Agents /\ Yellow(req[p].from, Semantic[req[p].to])
<1>1. UNCHANGED <<deal, history, token>> /\ req[p].pc = "read" /\ req[p].op = "advance"
  BY DEF Gate, At
<1>2. req[p] \in States /\ req \in [Requests -> States]
  BY DEF IInv, TypeOK
<1>3. CASE ~governed
  <2>1. Set(p, [req[p] EXCEPT !.pc = "admitted"]) /\ UNCHANGED spent
    BY <1>3, Zenon DEF Gate
  <2>2. /\ req'[p] = [req[p] EXCEPT !.pc = "admitted"]
        /\ \A q \in Requests \ {p} : req'[q] = req[q]
    BY <1>2, <2>1 DEF Set
  <2>3. /\ req'[p].pc = "admitted" /\ req'[p].op = req[p].op
        /\ req'[p].match = req[p].match /\ req'[p].ahead = req[p].ahead
        /\ req'[p].from = req[p].from /\ req'[p].to = req[p].to /\ req'[p].paid = req[p].paid
    BY <1>2, <2>2 DEF States
  <2>4. PaidOnce' /\ SpentIssued'
    BY <1>1, <2>1, <2>2, <2>3, PaidOnceKept DEF IInv, Shared, SpentIssued
  <2>5. ReadIsCurrent(p)'
    BY <1>1, <2>3 DEF IInv, RequestOK, ReadIsCurrent
  <2>6. RequestOK(p)'
    BY <1>3, <2>1, <2>3, <2>5
    DEF IInv, RequestOK, RestoreIsPlain, AdmittedIsPaid, WrittenIsPaid, WrittenIsPast, Written
  <2> QED
    BY <1>1, <2>1, <2>2, <2>3, <2>4, <2>6, QuietStep
<1>4. CASE governed /\ Covers(t, req[p])
  <2>1. Set(p, [req[p] EXCEPT !.pc = "admitted", !.paid = t]) /\ spent' = spent \cup {t}
    BY <1>4, Zenon DEF Gate
  <2>2. /\ req'[p] = [req[p] EXCEPT !.pc = "admitted", !.paid = t]
        /\ \A q \in Requests \ {p} : req'[q] = req[q]
    BY <1>2, <2>1 DEF Set
  <2>3. /\ req'[p].pc = "admitted" /\ req'[p].op = req[p].op
        /\ req'[p].match = req[p].match /\ req'[p].ahead = req[p].ahead
        /\ req'[p].from = req[p].from /\ req'[p].to = req[p].to /\ req'[p].paid = t
    BY <1>2, <2>2 DEF States
  <2>4. /\ t # None /\ t \notin spent /\ token[t] # None /\ token[t].to = req[p].to
        /\ req[p].match # 0 => token[t].version = req[p].match
    BY <1>4 DEF Covers
  <2>5. SpentIssued'
    BY <1>1, <2>1, <2>4 DEF IInv, Shared, SpentIssued
  <2>6. PaidOnce'
    <3>1. \A q \in Requests : req[q].paid # None => req[q].paid \in spent
      BY DEF IInv, RequestOK
    <3> SUFFICES ASSUME NEW x \in Requests, NEW y \in Requests, x # y, req'[x].paid # None
                 PROVE  req'[y].paid # req'[x].paid
      BY DEF PaidOnce
    <3>2. CASE x # p /\ y # p
      BY <2>2, <3>2 DEF IInv, Shared, PaidOnce
    <3>3. CASE x = p
      <4>1. req'[x].paid = t /\ req'[y].paid = req[y].paid
        BY <2>2, <2>3, <3>3
      <4> QED
        BY <2>4, <3>1, <4>1
    <3>4. CASE y = p
      <4>1. req'[y].paid = t /\ req'[x].paid = req[x].paid
        BY <2>2, <2>3, <3>4
      <4> QED
        BY <2>4, <3>1, <4>1
    <3> QED
      BY <3>2, <3>3, <3>4
  <2>7. ReadIsCurrent(p)'
    BY <1>1, <2>3 DEF IInv, RequestOK, ReadIsCurrent
  <2>8. Paid(p)'
    BY <1>1, <2>1, <2>3, <2>4 DEF Paid
  <2>9. RequestOK(p)'
    BY <2>1, <2>3, <2>7, <2>8
    DEF RequestOK, RestoreIsPlain, AdmittedIsPaid, WrittenIsPaid, WrittenIsPast, Written
  <2> QED
    BY <1>1, <2>1, <2>2, <2>3, <2>5, <2>6, <2>9, QuietStep
<1>5. CASE governed /\ ~Covers(t, req[p])
  <2>1. Refuse(p) /\ UNCHANGED spent
    BY <1>5, Zenon DEF Gate
  <2> QED
    BY <1>1, <2>1, RefusedStep
<1> QED
  BY <1>3, <1>4, <1>5

\* The transaction moves the deal out of the stage the gate judged, if If-Match was sent:
\* a version no later than the read that is the current one has been current since the read.
LEMMA AdvanceHolds ==
  ASSUME IInv, TypeOK', NEW p \in Requests, NEW reason \in Reasons, Advance(p, reason)
  PROVE  IInv'
<1>1. CASE ~(Admissible(req[p], reason) /\ Valid(Advanced(deal, req[p].to, reason)))
  <2>1. Refuse(p) /\ UNCHANGED <<deal, history, token, spent>>
    BY <1>1, Zenon DEF Advance
  <2> QED
    BY <2>1, RefusedStep
<1>2. CASE Admissible(req[p], reason) /\ Valid(Advanced(deal, req[p].to, reason))
  <2>1. /\ deal'    = Advanced(deal, req[p].to, reason)
        /\ history' = Append(history, [from |-> deal.stage, to |-> req[p].to, by |-> "user"])
        /\ Wrote(p, req[p])
        /\ UNCHANGED <<token, spent>>
    BY <1>2, Zenon DEF Advance
  <2>2. req[p] \in States /\ deal \in Rows /\ req[p].pc = "admitted" /\ req[p].op = "advance"
    BY DEF IInv, TypeOK, Advance, At
  <2>3. req[p].to \in Stages /\ deal.stage \in Stages /\ req[p].match \in {0, deal.version}
    BY <1>2, <2>2 DEF Admissible, Matches, Rows, IInv, TypeOK
  <2>4. deal'.version = deal.version + 1 /\ deal'.stage = req[p].to
    BY <2>1, <2>2, <2>3, AdvancedTyped
  <2>5. /\ req'[p].pc = "written" /\ req'[p].left = deal.stage /\ req'[p].op = "advance"
        /\ req'[p].match = req[p].match /\ req'[p].ahead = req[p].ahead
        /\ req'[p].to = req[p].to /\ req'[p].paid = req[p].paid
        /\ \A q \in Requests \ {p} : req'[q] = req[q]
    BY <2>1, <2>2, WroteTyped DEF IInv
  <2>6. EndsAtStage' /\ AdvanceRowsChain'
    <3> DEFINE row == [from |-> deal.stage, to |-> req[p].to, by |-> "user"]
    <3>1. row \in HistoryRows /\ row.to = deal'.stage /\ row.from = deal.stage
      BY <2>3, <2>4 DEF HistoryRows
    <3> QED
      BY <2>1, <3>1, AppendChains DEF IInv, Shared
  <2>7. WrittenIsPaid(p)'
    <3> SUFFICES ASSUME p \in Agents, req[p].match # 0, ~req[p].ahead,
                        {Semantic[deal.stage], Semantic[req[p].to]} \cap Terminal # {}
                 PROVE  Paid(p)'
      BY <2>5 DEF WrittenIsPaid, Written, Crosses
    <3>1. req[p].from = Semantic[deal.stage]
      BY <2>2, <2>3 DEF IInv, RequestOK, ReadIsCurrent
    <3>2. Yellow(req[p].from, Semantic[req[p].to])
      BY <3>1 DEF Yellow
    <3>3. Paid(p)
      BY <2>2, <3>2 DEF IInv, RequestOK, AdmittedIsPaid
    <3> QED
      BY <2>1, <2>5, <3>3 DEF Paid
  <2> QED
    BY <2>1, <2>3, <2>4, <2>5, <2>6, <2>7, WriteStep
<1> QED
  BY <1>1, <1>2

LEMMA PrepareUpdateHolds ==
  ASSUME IInv, TypeOK', NEW p \in Requests, NEW s \in Stages \cup {None},
         NEW st \in Statuses \cup {None}, NEW v \in Versions, PrepareUpdate(p, s, st, v)
  PROVE  IInv'
<1> DEFINE r == [Idle EXCEPT !.pc = "prepared", !.op = "update", !.to = s, !.status = st,
                             !.match = v, !.rate = FrozenRate(st, deal.currency)]
<1>1. UNCHANGED <<deal, history, token, spent>>
  BY DEF PrepareUpdate
<1>2. CASE Refuse(p)
  BY <1>1, <1>2, RefusedStep
<1>3. CASE Set(p, r)
  <2>1. req'[p] = r /\ \A q \in Requests \ {p} : req'[q] = req[q]
    BY <1>3 DEF Set, IInv, TypeOK
  <2>2. r.pc = "prepared" /\ r.op = "update" /\ r.paid = None
    BY DEF Idle
  <2>3. PaidOnce' /\ SpentIssued'
    BY <1>1, <2>1, <2>2, PaidOnceKept DEF IInv, Shared, SpentIssued
  <2>4. RequestOK(p)'
    BY <2>1, <2>2, EarlyIsOK DEF RestoreIsPlain
  <2> QED
    BY <1>1, <2>1, <2>2, <2>3, <2>4, QuietStep
<1> QED
  BY <1>2, <1>3 DEF PrepareUpdate

\* A patch appends a row that ends at the new stage, or none when the stage stays.
LEMMA UpdateHolds ==
  ASSUME IInv, TypeOK', NEW p \in Requests, NEW c \in Currencies \cup {None},
         NEW reason \in Reasons, Update(p, c, reason)
  PROVE  IInv'
<1> DEFINE new == Patched(deal, req[p], c, reason)
<1>1. CASE ~(~deal.archived /\ Matches(req[p], deal) /\ Valid(new))
  <2>1. Refuse(p) /\ UNCHANGED <<deal, history, token, spent>>
    BY <1>1, Zenon DEF Update
  <2> QED
    BY <2>1, RefusedStep
<1>2. CASE ~deal.archived /\ Matches(req[p], deal) /\ Valid(new)
  <2>1. /\ deal' = new /\ history' = StageHistory(req[p].to, new)
        /\ Wrote(p, req[p]) /\ UNCHANGED <<token, spent>>
    BY <1>2, Zenon DEF Update
  <2>2. req[p] \in States /\ deal \in Rows /\ req[p].op = "update"
    BY DEF IInv, TypeOK, Update, At
  <2>3. req[p].match \in {0, deal.version}
    BY <1>2 DEF Matches
  <2>4. /\ deal'.version = deal.version + 1
        /\ deal'.stage = Coalesce(req[p].to, deal.stage) /\ deal'.stage \in Stages
    <3>1. new \in Rows
      BY <2>2, PatchedTyped
    <3> QED
      BY <2>1, <2>2, <3>1, PatchedTyped DEF Rows
  <2>5. /\ req'[p].pc = "written" /\ req'[p].op = "update"
        /\ req'[p].match = req[p].match /\ req'[p].paid = req[p].paid
        /\ \A q \in Requests \ {p} : req'[q] = req[q]
    BY <2>1, <2>2, WroteTyped DEF IInv
  <2>6. EndsAtStage' /\ AdvanceRowsChain'
    <3>1. CASE req[p].to = None
      <4>1. history' = history /\ deal'.stage = deal.stage
        BY <2>1, <2>4, <3>1 DEF StageHistory, Coalesce
      <4> QED
        BY <4>1 DEF IInv, Shared, EndsAtStage, AdvanceRowsChain
    <3>2. CASE req[p].to # None
      <4> DEFINE row == [from |-> new.stage, to |-> req[p].to, by |-> "workspace"]
      <4>1. history' = Append(history, row) /\ deal'.stage = req[p].to /\ new.stage \in Stages
        BY <2>1, <2>4, <3>2 DEF StageHistory, Coalesce
      <4>2. row \in HistoryRows /\ row.to = deal'.stage /\ row.by = "workspace"
        BY <2>4, <4>1 DEF HistoryRows
      <4> QED
        BY <4>1, <4>2, AppendChains DEF IInv, Shared
    <3> QED
      BY <3>1, <3>2
  <2>7. WrittenIsPaid(p)'
    BY <2>5 DEF WrittenIsPaid, Written
  <2> QED
    BY <2>1, <2>3, <2>4, <2>5, <2>6, <2>7, WriteStep
<1> QED
  BY <1>1, <1>2

\* Archive and restore write no history and leave the stage.
LEMMA FlagHolds ==
  ASSUME IInv, TypeOK', NEW p \in Requests, NEW b \in BOOLEAN, NEW r \in States,
         r.op # "advance", r.match = 0, r.paid \in {req[p].paid, None},
         deal' = Touch([deal EXCEPT !.archived = b]), Wrote(p, r),
         UNCHANGED <<history, token, spent>>
  PROVE  IInv'
<1>1. deal'.version = deal.version + 1 /\ deal'.stage = deal.stage
  <2> DEFINE flagged == [deal EXCEPT !.archived = b]
  <2>1. deal \in Rows
    BY DEF IInv, TypeOK
  <2>2. flagged \in Rows /\ flagged.version = deal.version /\ flagged.stage = deal.stage
    BY <2>1, ArchivedTyped
  <2> HIDE DEF flagged
  <2>3. /\ Touch(flagged).version = flagged.version + 1
        /\ Touch(flagged).stage = flagged.stage
    BY <2>2, TouchTyped
  <2>4. deal' = Touch(flagged)
    BY DEF flagged
  <2> QED
    BY <2>2, <2>3, <2>4
<1>2. /\ req'[p].pc = "written" /\ req'[p].op = r.op /\ req'[p].match = 0
      /\ req'[p].paid = r.paid
      /\ \A q \in Requests \ {p} : req'[q] = req[q]
  BY WroteTyped DEF IInv
<1>3. EndsAtStage' /\ AdvanceRowsChain'
  BY <1>1 DEF IInv, Shared, EndsAtStage, AdvanceRowsChain
<1>4. WrittenIsPaid(p)'
  BY <1>2 DEF WrittenIsPaid
<1> QED
  BY <1>1, <1>2, <1>3, <1>4, WriteStep

LEMMA ArchiveHolds ==
  ASSUME IInv, TypeOK', NEW p \in Requests, Archive(p)
  PROVE  IInv'
<1>1. CASE deal.archived
  <2>1. Refuse(p) /\ UNCHANGED <<deal, history, token, spent>>
    BY <1>1, Zenon DEF Archive
  <2> QED
    BY <2>1, RefusedStep
<1>2. CASE ~deal.archived
  <2> DEFINE r == [Idle EXCEPT !.op = "archive"]
  <2>1. /\ deal' = Touch([deal EXCEPT !.archived = TRUE]) /\ Wrote(p, r)
        /\ UNCHANGED <<history, token, spent>>
    BY <1>2, Zenon DEF Archive
  <2>2. "archive" \in Ops
    BY DEF Archive
  <2>3. r \in States /\ r.op # "advance" /\ r.match = 0 /\ r.paid = None
    BY <2>2 DEF Idle, States
  <2> HIDE DEF r
  <2> QED
    BY <2>1, <2>3, FlagHolds
<1> QED
  BY <1>1, <1>2

LEMMA RestoreHolds ==
  ASSUME IInv, TypeOK', NEW p \in Requests, Restore(p)
  PROVE  IInv'
<1>1. /\ deal' = Touch([deal EXCEPT !.archived = FALSE]) /\ Wrote(p, req[p])
      /\ UNCHANGED <<history, token, spent>>
      /\ req[p].pc = "prepared" /\ req[p].op = "restore"
  BY DEF Restore, At
<1>2. req[p] \in States /\ req[p].match = 0
  BY <1>1 DEF IInv, TypeOK, RequestOK, RestoreIsPlain
<1> QED
  BY <1>1, <1>2, FlagHolds

LEMMA PrepareRestoreHolds ==
  ASSUME IInv, TypeOK', NEW p \in Requests, PrepareRestore(p)
  PROVE  IInv'
<1> DEFINE r == [Idle EXCEPT !.pc = "prepared", !.op = "restore"]
<1>1. UNCHANGED <<deal, history, token, spent>>
  BY DEF PrepareRestore
<1>2. CASE Refuse(p)
  BY <1>1, <1>2, RefusedStep
<1>3. CASE Set(p, r)
  <2>1. req'[p] = r /\ \A q \in Requests \ {p} : req'[q] = req[q]
    BY <1>3 DEF Set, IInv, TypeOK
  <2>2. r.pc = "prepared" /\ r.match = 0 /\ r.paid = None
    BY DEF Idle
  <2>3. PaidOnce' /\ SpentIssued'
    BY <1>1, <2>1, <2>2, PaidOnceKept DEF IInv, Shared, SpentIssued
  <2>4. RequestOK(p)'
    BY <2>1, <2>2, EarlyIsOK DEF RestoreIsPlain
  <2> QED
    BY <1>1, <2>1, <2>2, <2>3, <2>4, QuietStep
<1> QED
  BY <1>2, <1>3 DEF PrepareRestore

\* A token that is issued was no request's.
LEMMA IssueHolds ==
  ASSUME IInv, TypeOK', NEW t \in Tokens, NEW s \in Stages, IssueToken(t, s)
  PROVE  IInv'
<1>1. UNCHANGED <<deal, req, history, spent>> /\ token[t] = None
  BY DEF IssueToken
<1>2. t \notin spent /\ \A u \in spent : token'[u] = token[u]
  BY <1>1 DEF IssueToken, IInv, Shared, SpentIssued, TypeOK
<1>3. \A q \in Requests : RequestOK(q)'
  BY <1>1, <1>2, OthersKeep DEF IInv
<1>4. Shared'
  BY <1>1, <1>2
  DEF IInv, Shared, EndsAtStage, SpentIssued, PaidOnce, OneWritePerVersion, Writers,
      AdvanceRowsChain
<1> QED
  BY <1>3, <1>4 DEF IInv

\* What does not touch the deal, the requests, the history or the tokens.
LEMMA IdleHolds ==
  ASSUME IInv, TypeOK', UNCHANGED <<deal, req, history, token, spent>>
  PROVE  IInv'
<1>1. \A q \in Requests : RequestOK(q)'
  BY OthersKeep DEF IInv
<1>2. Shared'
  BY DEF IInv, Shared, EndsAtStage, SpentIssued, PaidOnce, OneWritePerVersion, Writers,
         AdvanceRowsChain
<1> QED
  BY <1>1, <1>2 DEF IInv

LEMMA StepHolds == IInv /\ [Next]_vars => IInv'
<1> SUFFICES ASSUME IInv, [Next]_vars PROVE IInv'
  OBVIOUS
<1>0. TypeOK'
  BY StepTyped DEF IInv
<1>1. ASSUME NEW p \in Requests, NEW s \in Stages, NEW v \in Versions, ReadStages(p, s, v)
      PROVE  IInv'
  BY <1>0, <1>1, ReadHolds
<1>2. ASSUME NEW p \in Requests, NEW t \in Tokens \cup {None}, Gate(p, t) PROVE IInv'
  BY <1>0, <1>2, GateHolds
<1>3. ASSUME NEW p \in Requests, NEW reason \in Reasons, Advance(p, reason) PROVE IInv'
  BY <1>0, <1>3, AdvanceHolds
<1>4. ASSUME NEW p \in Requests, NEW s \in Stages \cup {None}, NEW st \in Statuses \cup {None},
             NEW v \in Versions, PrepareUpdate(p, s, st, v)
      PROVE  IInv'
  BY <1>0, <1>4, PrepareUpdateHolds
<1>5. ASSUME NEW p \in Requests, NEW c \in Currencies \cup {None}, NEW reason \in Reasons,
             Update(p, c, reason)
      PROVE  IInv'
  BY <1>0, <1>5, UpdateHolds
<1>6. ASSUME NEW p \in Requests, Archive(p) PROVE IInv'
  BY <1>0, <1>6, ArchiveHolds
<1>7. ASSUME NEW p \in Requests, PrepareRestore(p) PROVE IInv'
  BY <1>0, <1>7, PrepareRestoreHolds
<1>8. ASSUME NEW p \in Requests, Restore(p) PROVE IInv'
  BY <1>0, <1>8, RestoreHolds
<1>9. ASSUME NEW p \in Requests, Abandon(p) PROVE IInv'
  BY <1>0, <1>9, RefusedStep DEF Abandon
<1>10. ASSUME NEW s \in Stages, ArchiveStage(s) PROVE IInv'
  BY <1>0, <1>10, IdleHolds DEF ArchiveStage
<1>11. ASSUME NEW t \in Tokens, NEW s \in Stages, IssueToken(t, s) PROVE IInv'
  BY <1>0, <1>11, IssueHolds
<1>12. CASE UNCHANGED vars
  BY <1>0, <1>12, IdleHolds DEF vars
<1> QED
  BY <1>1, <1>2, <1>3, <1>4, <1>5, <1>6, <1>7, <1>8, <1>9, <1>10, <1>11, <1>12 DEF Next

-----------------------------------------------------------------------------
(* The results. *)

\* The inductive invariant holds in every reachable state.
THEOREM Invariant == Spec => []IInv
  BY InitHolds, StepHolds, PTL DEF Spec

\* Of the requests with the same If-Match at most one writes (API-CC-2).
THEOREM VersionsAreWonOnce == Spec => []OneWritePerVersion
<1>1. IInv => OneWritePerVersion
  BY DEF IInv, Shared
<1> QED
  BY <1>1, Invariant, PTL

\* A row an advance writes starts where the row before it ends (Advance's FOR UPDATE).
THEOREM AdvancesChain == Spec => []AdvanceRowsChain
<1>1. IInv => AdvanceRowsChain
  BY DEF IInv, Shared
<1> QED
  BY <1>1, Invariant, PTL

\* An agent's advance across a terminal stage whose If-Match the deal had reached when the
\* gate judged it was paid by a token for this version and target, which paid nothing
\* else (DEAL-WIRE-4).
THEOREM MatchedAdvancesArePaid == Spec => []MatchedAdvanceIsApproved
<1>1. IInv => MatchedAdvanceIsApproved
  <2> SUFFICES ASSUME IInv, NEW p \in Written("advance") \cap Agents,
                      req[p].match # 0, ~req[p].ahead, Crosses(p)
               PROVE  \E t \in spent :
                        /\ req[p].paid = t
                        /\ token[t].to = req[p].to /\ token[t].version = req[p].match
                        /\ \A q \in Requests \ {p} : req[q].paid # t
    BY DEF MatchedAdvanceIsApproved
  <2>1. p \in Requests
    BY DEF Written
  <2>2. Paid(p)
    BY <2>1 DEF IInv, RequestOK, WrittenIsPaid
  <2>3. req[p].paid # None
    BY <2>2, DealsAssumption DEF Paid, IInv, TypeOK
  <2>4. \A q \in Requests \ {p} : req[q].paid # req[p].paid
    BY <2>1, <2>3 DEF IInv, Shared, PaidOnce
  <2> QED
    BY <2>2, <2>4 DEF Paid
<1> QED
  BY <1>1, Invariant, PTL
-----------------------------------------------------------------------------
(* The columns of a closed and of an open deal. *)

\* What PartedOnlyByPatch says of the row while no patch has written.
Together(row) ==
  /\ row.closedAt <=> row.status \in Terminal
  /\ row.rate = IF row.status \in Terminal THEN row.currency ELSE None
  /\ row.lostReason # None <=> row.status = "lost"

\* The trigger and the archived flag leave those columns alone.
LEMMA FlagKeepsTogether ==
  ASSUME NEW row \in Rows, NEW b \in BOOLEAN, Together(row)
  PROVE  Together(Touch([row EXCEPT !.archived = b]))
  BY Zenon DEF Together, Touch, Rows

\* An advance that the CHECK constraints let pass stamps and freezes what it closes, and
\* clears what it reopens.
LEMMA AdvanceKeepsTogether ==
  ASSUME NEW row \in Rows, NEW to \in Stages, NEW reason \in Reasons,
         Together(row), Valid(Advanced(row, to, reason))
  PROVE  Together(Advanced(row, to, reason))
<1> DEFINE status    == Semantic[to]
           reopening == row.status # "open" /\ status = "open"
           closing   == status \in Terminal
           lost      == CASE reopening -> None
                          [] closing   -> IF status = "lost" THEN reason ELSE None
                          [] OTHER     -> row.lostReason
           closed    == ~reopening /\ (closing \/ row.closedAt)
           rate      == CASE reopening -> None
                          [] closing   -> Coalesce(FrozenRate(status, row.currency), row.rate)
                          [] OTHER     -> row.rate
           new == Touch([row EXCEPT !.stage = to, !.status = status, !.lostReason = lost,
                                    !.closedAt = closed, !.rate = rate])
<1>1. status \in Statuses /\ row.status \in Statuses
  BY DealsAssumption DEF Rows
<1>2. /\ new.status = status /\ new.lostReason = lost /\ new.closedAt = closed
      /\ new.rate = rate /\ new.currency = row.currency
  <2> HIDE DEF status, lost, closed, rate
  <2> QED
    BY Zenon DEF Touch, Rows
<1>3. Advanced(row, to, reason) = new
  BY Zenon DEF Advanced
<1>4. /\ status = "lost" => lost # None
      /\ closing => rate # None
  BY <1>2, <1>3, Zenon DEF Valid
<1>5. closed <=> closing
  <2>1. CASE closing
    BY <1>1, <2>1 DEF Terminal
  <2>2. CASE ~closing
    <3>1. status = "open"
      BY <1>1, <2>2 DEF Statuses, Terminal
    <3>2. row.closedAt => row.status # "open"
      BY DEF Together, Terminal
    <3> QED
      BY <2>2, <3>1, <3>2, Zenon
  <2> QED
    BY <2>1, <2>2
<1>6. rate = IF closing THEN row.currency ELSE None
  <2>1. CASE closing
    <3>1. ~reopening
      BY <2>1 DEF Terminal
    <3>2. rate = Coalesce(FrozenRate(status, row.currency), row.rate)
      BY <2>1, <3>1, Zenon
    <3>3. FrozenRate(status, row.currency) \in {None, row.currency}
      BY DEF FrozenRate
    <3>4. row.rate \in {None, row.currency}
      BY DEF Together
    <3> QED
      BY <1>4, <2>1, <3>2, <3>3, <3>4 DEF Coalesce
  <2>2. CASE ~closing
    <3>1. status = "open"
      BY <1>1, <2>2 DEF Statuses, Terminal
    <3>2. CASE reopening
      BY <2>2, <3>2, Zenon
    <3>3. CASE ~reopening
      <4>1. rate = row.rate /\ row.status = "open"
        BY <2>2, <3>1, <3>3, Zenon
      <4> QED
        BY <2>2, <4>1 DEF Together, Terminal
    <3> QED
      BY <3>2, <3>3
  <2> QED
    BY <2>1, <2>2
<1>7. lost # None <=> status = "lost"
  <2>1. CASE closing
    <3>1. ~reopening
      BY <2>1 DEF Terminal
    <3>2. lost = IF status = "lost" THEN reason ELSE None
      BY <2>1, <3>1, Zenon
    <3> QED
      BY <1>4, <3>2
  <2>2. CASE ~closing
    <3>1. status = "open"
      BY <1>1, <2>2 DEF Statuses, Terminal
    <3>2. CASE reopening
      BY <3>1, <3>2, Zenon
    <3>3. CASE ~reopening
      <4>1. lost = row.lostReason /\ row.status = "open"
        BY <2>2, <3>1, <3>3, Zenon
      <4> QED
        BY <3>1, <4>1 DEF Together
    <3> QED
      BY <3>2, <3>3
  <2> QED
    BY <2>1, <2>2
<1> HIDE DEF new, lost, closed, rate
<1>8. Together(new)
  BY <1>2, <1>5, <1>6, <1>7, Zenon DEF Together
<1> QED
  BY <1>3, <1>8

LEMMA InitParted == Init => PartedOnlyByPatch
<1> SUFFICES ASSUME Init PROVE PartedOnlyByPatch
  OBVIOUS
<1>1. PICK s \in Stages, c \in Currencies \cup {None} :
        deal = [stage |-> s, status |-> "open", lostReason |-> None, closedAt |-> FALSE,
                rate |-> None, currency |-> c, archived |-> FALSE, version |-> 1]
  BY DEF Init
<1>2. deal.status = "open" /\ deal.lostReason = None /\ deal.closedAt = FALSE /\ deal.rate = None
  BY <1>1, Zenon
<1>3. "open" \notin Terminal
  BY DEF Terminal
<1> QED
  BY <1>2, <1>3 DEF PartedOnlyByPatch

\* A request that has written stays so: a step after a patch promises nothing.
LEMMA PartedStep ==
  ASSUME TypeOK, TypeOK', PartedOnlyByPatch, [Next]_vars
  PROVE  PartedOnlyByPatch'
<1> USE DEF TypeOK
<1>0. PartedOnlyByPatch <=> (Written("update") = {} => Together(deal))
  BY Zenon DEF PartedOnlyByPatch, Together
<1>00. PartedOnlyByPatch' <=> (Written("update")' = {} => Together(deal'))
  BY Zenon DEF PartedOnlyByPatch, Together
<1> SUFFICES ASSUME Written("update")' = {} PROVE Together(deal')
  BY <1>00
<1> DEFINE Stays(p) == \A q \in Requests \ {p} : req'[q] = req[q]
<1>k. ASSUME NEW p \in Requests, Stays(p), req[p].pc # "written"
      PROVE  Together(deal)
  <2>1. ASSUME NEW q \in Written("update") PROVE FALSE
    <3>1. q \in Requests \ {p} /\ req[q].pc = "written" /\ req[q].op = "update"
      BY <1>k DEF Written
    <3>2. q \in Written("update")'
      BY <1>k, <3>1 DEF Written
    <3> QED
      BY <3>2
  <2> QED
    BY <1>0, <2>1
<1>1. ASSUME NEW p \in Requests, NEW s \in Stages, NEW v \in Versions, ReadStages(p, s, v)
      PROVE  Together(deal')
  <2>1. deal' = deal /\ req[p].pc # "written" /\ Stays(p)
    BY <1>1 DEF ReadStages, Set, Refuse
  <2> QED
    BY <1>k, <2>1
<1>2. ASSUME NEW p \in Requests, NEW t \in Tokens \cup {None}, Gate(p, t)
      PROVE  Together(deal')
  <2>1. deal' = deal /\ req[p].pc # "written" /\ Stays(p)
    BY <1>2 DEF Gate, Set, Refuse, At
  <2> QED
    BY <1>k, <2>1
<1>3. ASSUME NEW p \in Requests, NEW reason \in Reasons, Advance(p, reason)
      PROVE  Together(deal')
  <2>0. req[p].pc # "written" /\ Stays(p)
    BY <1>3 DEF Advance, Set, Refuse, Wrote, At
  <2>1. Together(deal)
    BY <1>k, <2>0
  <2>2. CASE ~(Admissible(req[p], reason) /\ Valid(Advanced(deal, req[p].to, reason)))
    BY <1>3, <2>1, <2>2 DEF Advance
  <2>3. CASE Admissible(req[p], reason) /\ Valid(Advanced(deal, req[p].to, reason))
    <3>1. req[p].to \in Stages
      BY <2>3 DEF Admissible
    <3>2. deal' = Advanced(deal, req[p].to, reason)
      BY <1>3, <2>3, Zenon DEF Advance
    <3> QED
      BY <2>1, <2>3, <3>1, <3>2, AdvanceKeepsTogether
  <2> QED
    BY <2>2, <2>3
<1>4. ASSUME NEW p \in Requests, NEW s \in Stages \cup {None}, NEW st \in Statuses \cup {None},
             NEW v \in Versions, PrepareUpdate(p, s, st, v)
      PROVE  Together(deal')
  <2>1. deal' = deal /\ req[p].pc # "written" /\ Stays(p)
    BY <1>4 DEF PrepareUpdate, Set, Refuse
  <2> QED
    BY <1>k, <2>1
<1>5. ASSUME NEW p \in Requests, NEW c \in Currencies \cup {None}, NEW reason \in Reasons,
             Update(p, c, reason)
      PROVE  Together(deal')
  <2> DEFINE new == Patched(deal, req[p], c, reason)
  <2>1. CASE ~(~deal.archived /\ Matches(req[p], deal) /\ Valid(new))
    <3>1. deal' = deal /\ req[p].pc # "written" /\ Stays(p)
      BY <1>5, <2>1 DEF Update, Set, Refuse, At
    <3> QED
      BY <1>k, <3>1
  <2>2. CASE ~deal.archived /\ Matches(req[p], deal) /\ Valid(new)
    <3>1. Wrote(p, req[p]) /\ req[p].op = "update"
      BY <1>5, <2>2, Zenon DEF Update, At
    <3>2. req'[p].pc = "written" /\ req'[p].op = "update"
      BY <3>1, WroteTyped
    <3>3. p \in Written("update")'
      BY <3>2 DEF Written
    <3> QED
      BY <3>3
  <2> QED
    BY <2>1, <2>2
<1>6. ASSUME NEW p \in Requests, Archive(p) PROVE Together(deal')
  <2>0. req[p].pc # "written" /\ Stays(p)
    BY <1>6 DEF Archive, Set, Refuse, Wrote
  <2>1. deal' \in {deal, Touch([deal EXCEPT !.archived = TRUE])}
    BY <1>6, Zenon DEF Archive
  <2> QED
    BY <1>k, <2>0, <2>1, FlagKeepsTogether
<1>7. ASSUME NEW p \in Requests, PrepareRestore(p) PROVE Together(deal')
  <2>1. deal' = deal /\ req[p].pc # "written" /\ Stays(p)
    BY <1>7 DEF PrepareRestore, Set, Refuse
  <2> QED
    BY <1>k, <2>1
<1>8. ASSUME NEW p \in Requests, Restore(p) PROVE Together(deal')
  <2>0. req[p].pc # "written" /\ Stays(p)
    BY <1>8 DEF Restore, Set, Wrote, At
  <2>1. deal' = Touch([deal EXCEPT !.archived = FALSE])
    BY <1>8, Zenon DEF Restore
  <2> QED
    BY <1>k, <2>0, <2>1, FlagKeepsTogether
<1>9. ASSUME NEW p \in Requests, Abandon(p) PROVE Together(deal')
  <2>1. deal' = deal /\ req[p].pc # "written" /\ Stays(p)
    BY <1>9 DEF Abandon, Set, Refuse
  <2> QED
    BY <1>k, <2>1
<1>10. CASE UNCHANGED <<deal, req>>
  BY <1>0, <1>10 DEF Written
<1>11. ASSUME NEW s \in Stages, ArchiveStage(s) PROVE Together(deal')
  BY <1>10, <1>11 DEF ArchiveStage
<1>12. ASSUME NEW t \in Tokens, NEW s \in Stages, IssueToken(t, s) PROVE Together(deal')
  BY <1>10, <1>12 DEF IssueToken
<1>13. CASE UNCHANGED vars
  BY <1>10, <1>13 DEF vars
<1> QED
  BY <1>1, <1>2, <1>3, <1>4, <1>5, <1>6, <1>7, <1>8, <1>9, <1>11, <1>12, <1>13 DEF Next

\* Until a patch has written, a closed deal is stamped and valued in its own currency, an
\* open one is neither, and a reason belongs to a lost one (DEAL-AC-R2, advanceUpdate).
THEOREM ColumnsPartByPatchOnly == Spec => []PartedOnlyByPatch
  BY TypeCorrect, InitParted, PartedStep, PTL DEF Spec
=============================================================================
