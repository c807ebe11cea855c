----------------------------- MODULE Approvals -----------------------------
(***************************************************************************)
(* The approval queue of backend/internal/modules/approvals: staging of    *)
(* confirm-first actions (app/staging.go), the three human decisions       *)
(* (app/decision.go over adapters/store.go) and the expiry sweep           *)
(* (adapters/expiry.go), as PostgreSQL (READ COMMITTED) interleaves them.  *)
(*                                                                         *)
(* A decision runs in a transaction its caller began and will commit or    *)
(* roll back.  The datasource write it triggers does not: the provider     *)
(* opens and commits a transaction of its own.  That is why a request is   *)
(* several steps here and everything else is one.                          *)
(***************************************************************************)
CONSTANTS
  Items,      \* ids of approval_item rows
  Requests,   \* decision calls; each runs at most once
  Sweepers,   \* runs of the expiry job that may overlap
  Payloads,   \* contents of an action, compared only for equality
  Yellow,     \* the payloads ResolveYellow answers true for
  DeciderEmits, SweepEmits, \* whether the Decider, the expiry worker was given an Emitter
  None        \* the null value

ASSUME ConstantsAssumption ==
  /\ Yellow \subseteq Payloads
  /\ DeciderEmits \in BOOLEAN /\ SweepEmits \in BOOLEAN
  /\ None \notin Items \cup Requests \cup Payloads

VARIABLES
  status,     \* approval_item.status as committed, "absent" before the INSERT
  kind,       \* what action_type makes execAction do
  payload,    \* approval_item.payload
  lock,       \* the request whose open transaction holds the row's lock
  pc,         \* how far a request has come
  call,       \* what a request was asked
  effects,    \* datasource writes that were committed
  outbox,     \* approval.decided events in event_outbox
  audit,      \* audit_log rows about approval_item
  overdue,    \* items with expires_at < now()
  drifted,    \* items whose target record changed after they were staged
  batch       \* rows a sweep has read and not handled yet

rows     == <<status, kind, payload>>
trail    == <<effects, outbox, audit>>
clock    == <<overdue, drifted>>
vars     == <<rows, lock, pc, call, trail, clock, batch>>

Decisions == {"approved", "rejected", "modified", "expired"}
Statuses  == {"absent", "pending"} \cup Decisions
Kinds     == {"datasource", "delegated"}
Verbs     == {"approve", "reject", "modify"}
PCs       == {"new", "read", "claimed", "executed", "committed", "aborted"}
Rules     == {"pending_approval", "approve", "reject", "expiry",
              "modify.human_delta", "modify.original_proposal", "modify.restaged_yellow"}
Calls     == [verb : Verbs, item : Items, edited : Payloads \cup {None}]
Effects   == [by : Requests, item : Items, payload : Payloads, target : {"fresh", "drifted"}]
Events    == [item : Items, decision : Decisions, restagedAs : Items \cup {None}]
AuditRows == [item : Items, rule : Rules, by : Requests \cup {None}]

TypeOK ==
  /\ status  \in [Items -> Statuses]
  /\ kind    \in [Items -> Kinds \cup {None}]
  /\ payload \in [Items -> Payloads \cup {None}]
  /\ lock    \in [Items -> Requests \cup {None}]
  /\ pc      \in [Requests -> PCs]
  /\ call    \in [Requests -> Calls \cup {None}]
  /\ effects \subseteq Effects
  /\ outbox  \subseteq Events
  /\ audit   \subseteq AuditRows
  /\ overdue \subseteq Items
  /\ drifted \subseteq Items
  /\ batch   \in [Sweepers -> SUBSET Items]

Init ==
  /\ status  = [i \in Items |-> "absent"]
  /\ kind    = [i \in Items |-> None]
  /\ payload = [i \in Items |-> None]
  /\ lock    = [i \in Items |-> None]
  /\ pc      = [r \in Requests |-> "new"]
  /\ call    = [r \in Requests |-> None]
  /\ effects = {} /\ outbox = {} /\ audit = {}
  /\ overdue = {} /\ drifted = {}
  /\ batch   = [s \in Sweepers |-> {}]

-----------------------------------------------------------------------------
(* What a request is about. *)

Target(r) == call[r].item

\* The status a verb leaves the row in.
Outcome(verb) ==
  CASE verb = "approve" -> "approved"
    [] verb = "reject"  -> "rejected"
    [] verb = "modify"  -> "modified"

\* The state execAction finds the target record in.
TargetOf(r) == IF Target(r) \in drifted THEN "drifted" ELSE "fresh"

\* Mutant: nobody wired ResolveYellow.
Restages_Never(c) == c.verb = "modify" /\ c.edited \in {}

\* Modify's branch: an edit that is confirm-first again is staged anew.
Restages(c) == c.verb = "modify" /\ c.edited \in Yellow

Executes(c) == c.verb \in {"approve", "modify"} /\ ~Restages(c)

\* execAction writes for update_record and create_record, nothing otherwise.
NeedsDatasource(c) == Executes(c) /\ kind[c.item] = "datasource"

\* Approve executes the stored payload, Modify the edited one.
Executed(c) == IF c.verb = "modify" THEN c.edited ELSE payload[c.item]

\* Mutant: the new item gets the payload of the old one.
RestagedPayload_Original(c) == payload[c.item]

\* What reStageModified stores in the item it creates.
RestagedPayload(c) == c.edited

DecisionRules(c) ==
  CASE c.verb = "approve" -> {"approve"}
    [] c.verb = "reject"  -> {"reject"}
    [] Restages(c)        -> {"modify.restaged_yellow"}
    [] OTHER              -> {"modify.human_delta", "modify.original_proposal"}

\* Mutant: no event when a modify is staged anew either.
Announces_NoModify(c) == DeciderEmits /\ c.verb # "modify"

\* The decided event: a Modify that executes emits none, and a Decider without an
\* Emitter never does.
Announces(c) == DeciderEmits /\ (c.verb # "modify" \/ Restages(c))

\* Mutant: UPDATE ... WHERE id=$1 alone.
StillPending_AnyRow(i) == status[i] # "absent"

\* The condition of both conditional UPDATEs: ... AND status='pending'.
StillPending(i) == status[i] = "pending"

-----------------------------------------------------------------------------
(* Staging. *)

Stage(i, k, p) ==
  /\ status[i] = "absent"
  /\ status'  = [status  EXCEPT ![i] = "pending"]
  /\ kind'    = [kind    EXCEPT ![i] = k]
  /\ payload' = [payload EXCEPT ![i] = p]
  /\ audit'   = audit \cup {[item |-> i, rule |-> "pending_approval", by |-> None]}
  /\ UNCHANGED <<lock, pc, call, effects, outbox, clock, batch>>

-----------------------------------------------------------------------------
(* A decision: Get, claim, execute, commit. *)

\* The unlocked read and the status check behind it.  Modify's gate may also
\* refuse here; that is Rollback.
Get(r, verb, i, edited) ==
  /\ pc[r] = "new"
  /\ status[i] # "absent"
  /\ (verb = "modify") <=> (edited # None)
  /\ call' = [call EXCEPT ![r] = [verb |-> verb, item |-> i, edited |-> edited]]
  /\ pc'   = [pc EXCEPT ![r] = IF status[i] = "pending" THEN "read" ELSE "aborted"]
  /\ UNCHANGED <<rows, lock, trail, clock, batch>>

\* Repo.Transition: waits for the row's lock, then either the guarded UPDATE
\* finds the row still pending or the request fails.
Claim(r) ==
  /\ pc[r] = "read"
  /\ lock[Target(r)] = None
  /\ IF StillPending(Target(r))
       THEN /\ lock' = [lock EXCEPT ![Target(r)] = r]
            /\ pc'   = [pc EXCEPT ![r] = "claimed"]
       ELSE /\ pc'   = [pc EXCEPT ![r] = "aborted"]
            /\ UNCHANGED lock
  /\ UNCHANGED <<rows, call, trail, clock, batch>>

\* Mutant: the effect first, the claim afterwards.
Exec_BeforeClaim(r) ==
  /\ pc[r] \in {"read", "claimed"}
  /\ NeedsDatasource(call[r])
  /\ \A e \in effects : e.by # r
  /\ effects' = effects \cup {[by |-> r, item |-> Target(r), payload |-> Executed(call[r]),
                               target |-> TargetOf(r)]}
  /\ pc' = [pc EXCEPT ![r] = IF @ = "claimed" THEN "executed" ELSE @]
  /\ UNCHANGED <<rows, lock, call, outbox, audit, clock, batch>>

\* execAction: committed by the provider, whatever becomes of this transaction.
\* No row version travels with it, so a drifted target is written all the same.
Exec(r) ==
  /\ pc[r] = "claimed"
  /\ NeedsDatasource(call[r])
  /\ effects' = effects \cup {[by      |-> r,
                               item    |-> Target(r),
                               payload |-> Executed(call[r]),
                               target  |-> TargetOf(r)]}
  /\ pc' = [pc EXCEPT ![r] = "executed"]
  /\ UNCHANGED <<rows, lock, call, outbox, audit, clock, batch>>

\* Everything the transaction wrote becomes visible at once: the claimed status,
\* the audit rows, the decided event, and for a restaging the fresh item n.
CommitWith(r, restagedAs) ==
  LET c == call[r]
      i == c.item
      n == restagedAs
  IN
  /\ status'  = [j \in Items |-> IF j = i THEN Outcome(c.verb)
                                 ELSE IF j = n THEN "pending" ELSE status[j]]
  /\ kind'    = IF n = None THEN kind ELSE [kind EXCEPT ![n] = kind[i]]
  /\ payload' = IF n = None THEN payload ELSE [payload EXCEPT ![n] = RestagedPayload(c)]
  /\ audit'   = audit \cup [item : {i}, rule : DecisionRules(c), by : {r}]
  /\ outbox'  = IF Announces(c)
                  THEN outbox \cup {[item |-> i, decision |-> Outcome(c.verb), restagedAs |-> n]}
                  ELSE outbox
  /\ lock'    = [lock EXCEPT ![i] = None]
  /\ pc'      = [pc EXCEPT ![r] = "committed"]
  /\ UNCHANGED <<call, effects, clock, batch>>

Commit(r) ==
  /\ pc[r] \in {"claimed", "executed"}
  /\ NeedsDatasource(call[r]) => pc[r] = "executed"
  /\ IF Restages(call[r])
       THEN \E n \in Items : status[n] = "absent" /\ CommitWith(r, n)
       ELSE CommitWith(r, None)

\* An error return, a refusal by the gate, a lost connection or a crash before
\* COMMIT: the transaction is undone and the row lock released.  Writes the
\* datasource committed stay.
Rollback(r) ==
  /\ pc[r] \in {"read", "claimed", "executed"}
  /\ pc'   = [pc EXCEPT ![r] = "aborted"]
  /\ lock' = [i \in Items |-> IF lock[i] = r THEN None ELSE lock[i]]
  /\ UNCHANGED <<rows, call, trail, clock, batch>>

-----------------------------------------------------------------------------
(* The expiry sweep. *)

\* Mutant: the comparison with now() turned round.
PastDue_Inverted == {i \in Items \ overdue : status[i] = "pending"}

\* Work's SELECT: status='pending' AND expires_at < now().
PastDue == {i \in overdue : status[i] = "pending"}

SweepRead(s) ==
  /\ batch[s] = {}
  /\ batch' = [batch EXCEPT ![s] = PastDue]
  /\ UNCHANGED <<rows, lock, pc, call, trail, clock>>

\* Mutant: the row is expired because the SELECT said so.
ExpireOne_AnyRow(s, i) ==
  /\ i \in batch[s] /\ lock[i] = None
  /\ batch'  = [batch EXCEPT ![s] = @ \ {i}]
  /\ status' = [status EXCEPT ![i] = "expired"]
  /\ audit'  = audit \cup {[item |-> i, rule |-> "expiry", by |-> None]}
  /\ outbox' = outbox \cup {[item |-> i, decision |-> "expired", restagedAs |-> None]}
  /\ UNCHANGED <<kind, payload, lock, pc, call, effects, clock>>

\* expireOne, in a transaction per item; it too waits for the row's lock.
ExpireOne(s, i) ==
  /\ i \in batch[s]
  /\ lock[i] = None
  /\ batch' = [batch EXCEPT ![s] = @ \ {i}]
  /\ IF StillPending(i)
       THEN /\ status' = [status EXCEPT ![i] = "expired"]
            /\ audit'  = audit \cup {[item |-> i, rule |-> "expiry", by |-> None]}
            /\ outbox' = IF SweepEmits
                 THEN outbox \cup {[item |-> i, decision |-> "expired", restagedAs |-> None]}
                 ELSE outbox
       ELSE UNCHANGED <<status, audit, outbox>>
  /\ UNCHANGED <<kind, payload, lock, pc, call, effects, clock>>

\* The first error ends the sweep; the rest of the batch waits for the next one.
SweepFail(s) ==
  /\ batch[s] # {}
  /\ batch' = [batch EXCEPT ![s] = {}]
  /\ UNCHANGED <<rows, lock, pc, call, trail, clock>>

-----------------------------------------------------------------------------
(* The world. *)

\* Of no consequence once an item is decided.
BecomesOverdue(i) ==
  /\ status[i] = "pending" /\ i \notin overdue
  /\ overdue' = overdue \cup {i}
  /\ UNCHANGED <<rows, lock, pc, call, trail, drifted, batch>>

\* Some other writer updates the record the item is about.
TargetChanges(i) ==
  /\ status[i] = "pending" /\ i \notin drifted
  /\ drifted' = drifted \cup {i}
  /\ UNCHANGED <<rows, lock, pc, call, trail, overdue, batch>>

Decide(r) == Claim(r) \/ Exec(r) \/ Commit(r) \/ Rollback(r)

Next ==
  \/ \E i \in Items, k \in Kinds, p \in Payloads : Stage(i, k, p)
  \/ \E r \in Requests, v \in Verbs, i \in Items, e \in Payloads \cup {None} : Get(r, v, i, e)
  \/ \E r \in Requests : Decide(r)
  \/ \E s \in Sweepers : SweepRead(s) \/ SweepFail(s)
  \/ \E s \in Sweepers, i \in Items : ExpireOne(s, i)
  \/ \E i \in Items : BecomesOverdue(i) \/ TargetChanges(i)

Spec == Init /\ [][Next]_vars

\* Every open transaction ends; the hourly job keeps running; an error that makes
\* a sweep stop does not come back forever at the same item.
Fairness ==
  /\ \A r \in Requests : WF_vars(Decide(r))
  /\ \A s \in Sweepers : WF_vars(SweepRead(s))
  /\ \A s \in Sweepers, i \in Items : SF_vars(ExpireOne(s, i))

FairSpec == Spec /\ Fairness

-----------------------------------------------------------------------------
(* What the queue promises. *)

IsCommitted(r) == pc[r] = "committed"
Open(r)        == pc[r] \in {"claimed", "executed"}

\* The audit trail never names two deciders for one item, nor a decider and the
\* expiry job: of concurrent decisions and sweeps exactly one takes the row
\* (decision.go's claim, expireOne's guard; APPR-AC-6).
OneDecider ==
  \A a, b \in audit :
    /\ a.item = b.item
    /\ "pending_approval" \notin {a.rule, b.rule}
    => a.by = b.by /\ ((a.rule = "expiry") <=> (b.rule = "expiry"))

\* A datasource write that outlives its transaction is the only way to a second
\* one: of two writes for an item, the earlier request was rolled back after
\* execAction had run.
SecondEffectFollowsRollback ==
  \A e, f \in effects :
    e.item = f.item /\ e # f => "aborted" \in {pc[e.by], pc[f.by]}

\* A write whose request was not rolled back belongs to a claim still open or to
\* the decision that stands: never to a rejected, expired or undecided item.
EffectIsAuthorized ==
  \A e \in effects : pc[e.by] # "aborted" =>
    \/ lock[e.item] = e.by /\ status[e.item] = "pending"
    \/ /\ status[e.item] \in {"approved", "modified"}
       /\ [item |-> e.item, by |-> e.by,
           rule |-> IF status[e.item] = "approved" THEN "approve" ELSE "modify.human_delta"]
            \in audit

\* What is confirm-first runs only as the payload its own item was staged with,
\* and on an approve: an edit cannot carry one past the queue, not even an edit
\* of an edit (Modify's tier check; "Edits never escalate").
YellowOnlyAsStaged ==
  \A e \in effects : e.payload \in Yellow =>
    e.payload = payload[e.item] /\ call[e.by].verb = "approve"

\* A restaged item is spent without a write of its own, and the item that
\* replaces it asks for the same kind of action with a confirm-first payload
\* (reStageModified; APPR-AC-5).
RestageSpends ==
  \A v \in outbox : v.restagedAs # None =>
    /\ status[v.item] = "modified"
    /\ kind[v.restagedAs] = kind[v.item] /\ payload[v.restagedAs] \in Yellow
    /\ \A e \in effects : e.item = v.item => pc[e.by] = "aborted"
    /\ \A w \in outbox : w.restagedAs = v.restagedAs => w = v

\* No ghost and no double event: an item has at most one decided event, which
\* says what the row says, and only a modify that executed has none, and what a
\* Decider or an expiry worker without an Emitter settles.
EventsMatchRows ==
  /\ \A v, w \in outbox : v.item = w.item => v = w
  /\ \A v \in outbox : status[v.item] = v.decision
  /\ \A i \in Items : status[i] \in Decisions =>
       \/ \E v \in outbox : v.item = i
       \/ \E a \in audit : a.item = i /\ a.rule = "modify.human_delta"
       \/ IF status[i] = "expired" THEN ~SweepEmits ELSE ~DeciderEmits

\* No step writes for an item that is decided, or for one the writer has not
\* claimed; and no step undoes a decision.
DecidedIsFinal ==
  [][/\ \A e \in effects' \ effects : status[e.item] = "pending" /\ lock[e.item] = e.by
     /\ \A i \in Items : status[i] \in Decisions => status'[i] = status[i]]_vars

\* Fail-closed expiry: an item past its time to live does not stay undecided
\* (Work and expireOne; APPR-AC-2).
OverdueIsDecided ==
  \A i \in Items : (i \in overdue /\ status[i] = "pending") ~> status[i] \in Decisions

-----------------------------------------------------------------------------
(* What the documents say and the code does not do. *)

\* docs/subsystems/approvals-and-concurrency.md:138-140: "a crash after execution
\* leaves a terminal, non-refireable state rather than a re-approvable one".
NeverRefires ==
  \A e, f \in effects : e.item = f.item => e = f

\* docs/subsystems/approvals-and-concurrency.md:133-135: "Execution re-checks the
\* target's live version against the version captured at staging".
FreshOrNothing == \A e \in effects : e.target = "fresh"

\* docs/architecture/event-bus.md:411: "One mutation -> one audit row + one domain
\* event": every decision is announced.
EveryDecisionAnnounced ==
  \A i \in Items : status[i] \in Decisions => \E v \in outbox : v.item = i

\* docs/architecture/event-bus.md:355 lists approval.decided with the decision
\* "expired": an expiry is announced.
ExpiryIsAnnounced ==
  \A i \in Items : status[i] = "expired" => \E v \in outbox : v.item = i

-----------------------------------------------------------------------------
(* The abstract queue this one implements. *)

Decider(i) ==
  IF \E r \in Requests : IsCommitted(r) /\ Target(r) = i
    THEN CHOOSE r \in Requests : IsCommitted(r) /\ Target(r) = i
    ELSE None

Queue == INSTANCE ApprovalQueue WITH state <- status, decider <- [i \in Items |-> Decider(i)]

\* Seen from outside, an item is opened once and settled once, by one request or
\* by nobody, and a modify opens at most one successor in the very same step.
ImplementsQueue == Queue!Spec
=============================================================================
