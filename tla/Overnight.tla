----------------------------- MODULE Overnight -----------------------------
(***************************************************************************)
(* The overnight agent (modules/agents): passes that correct close dates,    *)
(* applying the reversible half at once and staging the other half for a      *)
(* human, and the executor that carries out what was approved.  The approval  *)
(* queue is the abstract one, which Approvals implements; approval.decided    *)
(* events reach the executor at least once, as OutboxRelay delivers them.     *)
(*                                                                            *)
(* Both callers hand HandleDecided and RunPass a transaction of theirs, but   *)
(* CloseDateEffector writes through DealStore.Update, which commits its own.  *)
(* The stream consumer is not in the repository: it is taken to handle one     *)
(* delivery of an event at a time and to record handled events in the          *)
(* handler's transaction.                                                     *)
(***************************************************************************)
EXTENDS Naturals, FiniteSets

CONSTANTS
  Deals, Items,
  Passes,      \* runs of RunPass, which may overlap
  Humans,      \* decision requests
  Effects,     \* close-date payloads
  MaxEdits,    \* bound: the version of a deal others still write to
  MaxFails,    \* bound: failed deliveries of one event
  None

ASSUME OvernightAssumption ==
  /\ MaxEdits \in Nat /\ MaxFails \in Nat
  /\ None \notin Deals \cup Items \cup Effects \cup Humans

VARIABLES
  state, decider,   \* the approval queue
  payload,          \* approval_item.payload
  target,           \* the deal its effect names
  edit,             \* the payload the human decided on, None before
  outbox,           \* committed approval.decided events
  version,          \* deal.version
  edited,           \* version the last write of somebody else left
  archived,         \* deals with archived_at set
  pass,             \* state of each pass
  handling,         \* items whose event is being handled, and how far
  handled,          \* events whose handling committed
  runs,             \* times the effect of an item was written, and with what
  audited,          \* items with the executor's audit row
  fails             \* failed deliveries

queue == <<state, decider, payload, target, edit, outbox>>
deals == <<version, edited, archived>>
exec  == <<handling, handled, runs, audited, fails>>
vars  == <<queue, deals, pass, exec>>

Queue == INSTANCE ApprovalQueue WITH Requests <- Humans

States   == {"absent", "pending", "approved", "rejected", "modified", "expired"}
Plans    == {"none", "auto", "confirm"}
PassRows == [pc : {"idle", "running", "committed", "failed"}, snap : [Deals -> Nat],
             plan : [Deals -> Plans], wrote : SUBSET Deals, staged : SUBSET Items]

TypeOK ==
  /\ state    \in [Items -> States]
  /\ decider  \in [Items -> Humans \cup {None}]
  /\ payload  \in [Items -> Effects \cup {None}]
  /\ target   \in [Items -> Deals \cup {None}]
  /\ edit     \in [Items -> Effects \cup {None}]
  /\ outbox   \subseteq [item : Items, decision : States]
  /\ version  \in [Deals -> Nat] /\ edited \in [Deals -> Nat]
  /\ archived \subseteq Deals
  /\ pass     \in [Passes -> PassRows]
  /\ handling \in [Items -> {"no", "received", "applied"}]
  /\ handled  \subseteq outbox
  /\ runs     \in [Items -> [times : Nat, with : Effects \cup {None}]]
  /\ audited  \subseteq Items
  /\ fails    \in [Items -> 0 .. MaxFails]

Init ==
  /\ Queue!Init
  /\ payload  = [i \in Items |-> None]
  /\ target   = [i \in Items |-> None]
  /\ edit     = [i \in Items |-> None]
  /\ outbox   = {}
  /\ version  = [d \in Deals |-> 1]
  /\ edited   = [d \in Deals |-> 0]
  /\ archived = {}
  /\ pass     = [p \in Passes |-> [pc |-> "idle", snap |-> [d \in Deals |-> 0],
                   plan |-> [d \in Deals |-> "none"], wrote |-> {}, staged |-> {}]]
  /\ handling = [i \in Items |-> "no"]
  /\ handled  = {}
  /\ runs     = [i \in Items |-> [times |-> 0, with |-> None]]
  /\ audited  = {}
  /\ fails    = [i \in Items |-> 0]

-----------------------------------------------------------------------------
(* The pass. *)

\* ListOpenDeals, and closeDateProposals for each flagged deal.
Produce(p, plan) ==
  /\ pass[p].pc = "idle"
  /\ \A d \in archived : plan[d] = "none"
  /\ pass' = [pass EXCEPT ![p].pc = "running", ![p].snap = version, ![p].plan = plan]
  /\ UNCHANGED <<queue, deals, exec>>

Left(p) == {d \in Deals : pass[p].plan[d] # "none"} \ pass[p].wrote

\* Mutant: green effects carry if_match 0, as the staged ones do.
Fits_Any(p, d) == d \notin archived

\* DealStore.Update with the snapshot's version as If-Match (closeDateBaseEffect).
Fits(p, d) == d \notin archived /\ version[d] = pass[p].snap[d]

\* Ids the open transactions of passes have not taken.
FreshItems == {i \in Items : state[i] = "absent" /\ \A p \in Passes : i \notin pass[p].staged}

\* ApplyGreen's write, committed at once, then StageProposal for a confirm-first
\* deal: the item stays in the pass's transaction.
ApplyGreen(p, d) ==
  /\ pass[p].pc = "running" /\ d \in Left(p) /\ Fits(p, d)
  /\ version' = [version EXCEPT ![d] = @ + 1]
  /\ IF pass[p].plan[d] = "confirm"
     THEN \E i \in FreshItems, e \in Effects :
            /\ pass'    = [pass EXCEPT ![p].wrote = @ \cup {d}, ![p].staged = @ \cup {i}]
            /\ payload' = [payload EXCEPT ![i] = e]
            /\ target'  = [target EXCEPT ![i] = d]
     ELSE /\ pass' = [pass EXCEPT ![p].wrote = @ \cup {d}]
          /\ UNCHANGED <<payload, target>>
  /\ UNCHANGED <<state, decider, edit, outbox, edited, archived, exec>>

\* The audit rows, events and items become visible.
CommitPass(p) ==
  /\ pass[p].pc = "running" /\ Left(p) = {}
  /\ state' = [i \in Items |-> IF i \in pass[p].staged THEN "pending" ELSE state[i]]
  /\ pass'  = [pass EXCEPT ![p].pc = "committed", ![p].staged = {}]
  /\ UNCHANGED <<decider, payload, target, edit, outbox, deals, exec>>

\* RunPass returns the effector's version_skew or not_found, or its process dies;
\* the caller rolls back.
FailPass(p) ==
  /\ pass[p].pc = "running"
  /\ pass'    = [pass EXCEPT ![p].pc = "failed", ![p].staged = {}]
  /\ payload' = [i \in Items |-> IF i \in pass[p].staged THEN None ELSE payload[i]]
  /\ target'  = [i \in Items |-> IF i \in pass[p].staged THEN None ELSE target[i]]
  /\ UNCHANGED <<state, decider, edit, outbox, deals, exec>>

-----------------------------------------------------------------------------
(* Decisions and other writers. *)

Announce(i, decision) == outbox' = outbox \cup {[item |-> i, decision |-> decision]}

Decide(i, h, end) ==
  /\ Queue!Settle(i, h, end)
  /\ Announce(i, end)
  /\ edit' = [edit EXCEPT ![i] = IF end = "approved" THEN payload[i] ELSE @]
  /\ UNCHANGED <<payload, target, deals, pass, exec>>

\* Modify with an edit that is not confirm-first: nothing is announced.
ModifyAtOnce(i, h, e) ==
  /\ Queue!Settle(i, h, "modified")
  /\ edit' = [edit EXCEPT ![i] = e]
  /\ UNCHANGED <<payload, target, outbox, deals, pass, exec>>

\* Modify with one that is: a new item for the edit, and an event for the old.
Restage(i, h, n, e) ==
  /\ n \in FreshItems
  /\ Queue!Replace(i, h, n)
  /\ Announce(i, "modified")
  /\ edit'    = [edit EXCEPT ![i] = e]
  /\ payload' = [payload EXCEPT ![n] = e]
  /\ target'  = [target EXCEPT ![n] = target[i]]
  /\ UNCHANGED <<deals, pass, exec>>

Expire(i) ==
  /\ Queue!Expire(i)
  /\ Announce(i, "expired")
  /\ UNCHANGED <<payload, target, edit, deals, pass, exec>>

\* Anybody else's write to the deal.
EditDeal(d) ==
  /\ d \notin archived
  /\ version[d] <= MaxEdits
  /\ version' = [version EXCEPT ![d] = @ + 1]
  /\ edited'  = [edited EXCEPT ![d] = version[d] + 1]
  /\ UNCHANGED <<archived, queue, pass, exec>>

ArchiveDeal(d) ==
  /\ d \notin archived
  /\ archived' = archived \cup {d}
  /\ UNCHANGED <<version, edited, queue, pass, exec>>

-----------------------------------------------------------------------------
(* The executor. *)

EventOf(i) == {e \in outbox : e.item = i}

Receive(i) ==
  /\ EventOf(i) \ handled # {} /\ handling[i] = "no"
  /\ handling' = [handling EXCEPT ![i] = "received"]
  /\ UNCHANGED <<queue, deals, pass, handled, runs, audited, fails>>

\* Mutant: whatever was not rejected is carried out.
Wanted_NotRejected(i) == \E e \in EventOf(i) : e.decision # "rejected"

\* payload.Decision is approved or modified.
Wanted(i) == \E e \in EventOf(i) : e.decision \in {"approved", "modified"}

\* The rest of HandleDecided's early return.
Ignore(i) ==
  /\ handling[i] = "received" /\ ~Wanted(i)
  /\ handled'  = handled \cup EventOf(i)
  /\ handling' = [handling EXCEPT ![i] = "no"]
  /\ UNCHANGED <<queue, deals, pass, runs, audited, fails>>

\* effector.Apply(item.Payload): DealStore.Update without If-Match
\* (closeDateStagedEffect), committed at once.
Apply(i) ==
  /\ handling[i] = "received" /\ Wanted(i)
  /\ target[i] \notin archived
  /\ version'  = [version EXCEPT ![target[i]] = @ + 1]
  /\ runs'     = [runs EXCEPT ![i] = [times |-> @.times + 1, with |-> payload[i]]]
  /\ handling' = [handling EXCEPT ![i] = "applied"]
  /\ UNCHANGED <<queue, edited, archived, pass, handled, audited, fails>>

\* Mutant: the event is not recorded as handled.
Finish_Forgets(i) ==
  /\ handling[i] = "applied"
  /\ audited'  = audited \cup {i}
  /\ handling' = [handling EXCEPT ![i] = "no"]
  /\ UNCHANGED <<queue, deals, pass, handled, runs, fails>>

\* The audit row, the event and the commit.
Finish(i) ==
  /\ handling[i] = "applied"
  /\ audited'  = audited \cup {i}
  /\ handled'  = handled \cup EventOf(i)
  /\ handling' = [handling EXCEPT ![i] = "no"]
  /\ UNCHANGED <<queue, deals, pass, runs, fails>>

\* An error or a crash before the commit: the delivery will come again.
FailDelivery(i) ==
  /\ handling[i] # "no" /\ fails[i] < MaxFails
  /\ fails'    = [fails EXCEPT ![i] = @ + 1]
  /\ handling' = [handling EXCEPT ![i] = "no"]
  /\ UNCHANGED <<queue, deals, pass, handled, runs, audited>>

Execute(i) == Receive(i) \/ Ignore(i) \/ Apply(i) \/ Finish(i)

Next ==
  \/ \E p \in Passes : \/ \E plan \in [Deals -> Plans] : Produce(p, plan)
                       \/ \E d \in Deals : ApplyGreen(p, d)
                       \/ CommitPass(p) \/ FailPass(p)
  \/ \E i \in Items, h \in Humans :
       \/ \E end \in {"approved", "rejected"} : Decide(i, h, end)
       \/ \E e \in Effects : ModifyAtOnce(i, h, e)
       \/ \E n \in Items, e \in Effects : Restage(i, h, n, e)
  \/ \E i \in Items : Expire(i) \/ Execute(i) \/ FailDelivery(i)
  \/ \E d \in Deals : EditDeal(d) \/ ArchiveDeal(d)

Spec == Init /\ [][Next]_vars

-----------------------------------------------------------------------------
(* What holds. *)

\* A second write for an item costs a delivery that failed after the first
\* (EVT-DEL-2, with the effector's transaction outside the handler's).
RepeatNeedsFailure == \A i \in Items : runs[i].times <= 1 + fails[i]

\* A step of a pass writes no deal that somebody wrote after the pass read it.
PassSparesEdits ==
  \A p \in Passes, d \in Deals :
    d \in pass'[p].wrote \ pass[p].wrote => edited[d] <= pass[p].snap[d]

\* A pass never writes over what somebody else wrote after it read the deals
\* (closeDateBaseEffect's if_match).
PassKeepsNewerEdits == [][PassSparesEdits]_vars

\* The executor writes for no item that nobody approved or modified, writes what was staged
\* for it, and audits every write but one whose delivery still runs or failed, and nothing it
\* did not write (HandleDecided's early return, item.Payload and the audit after Apply).
OnlyDecidedRuns ==
  \A i \in Items :
    /\ runs[i].times > 0 => /\ state[i] \in {"approved", "modified"}
                            /\ runs[i].with = payload[i]
                            /\ i \in audited \/ handling[i] = "applied" \/ fails[i] > 0
    /\ i \in audited => runs[i].times > 0

\* Passes, decisions and the executor, however they overlap, use the queue only as it lets
\* itself be used: a pass that commits opens items nobody else has, and settles none.
KeepsToQueue == Queue!Spec

-----------------------------------------------------------------------------
(* What the repository says and the code does not do. *)

\* docs/subsystems/overnight-agent.md:319 (OVN-AC-7): "on edit-then-approve the
\* edited version sends".
EditedVersionRuns ==
  \A i \in Items : runs[i].times > 0 => runs[i].with = edit[i]

\* docs/subsystems/overnight-agent.md:320 (OVN-AC-8): "Every action taken or
\* proposed has an audit trail".
PassWritesAreAudited == \A p \in Passes : pass[p].pc = "failed" => pass[p].wrote = {}
=============================================================================
