---------------------------- MODULE OutboxRelay ----------------------------
(***************************************************************************)
(* The transactional outbox and its relay: writers insert event_outbox rows *)
(* in the transaction of their mutation (EmitAuditAppended and every store's *)
(* INSERT INTO event_outbox); StartOutboxRelay, one goroutine per server      *)
(* process, moves committed rows to a Redis stream (platform/events).         *)
(*                                                                            *)
(* created_at DEFAULT now() is the START of the inserting transaction, and    *)
(* the relay orders by it.                                                    *)
(***************************************************************************)
EXTENDS Naturals, Sequences, FiniteSets, FiniteSetsExt

CONSTANTS
  Events,     \* rows of event_outbox, one per transaction, numbered by created_at
  Entities,   \* rows the transactions update
  Relays,     \* server processes with a relay
  BatchSize,  \* LIMIT of RelayBatch, 100 in the code
  MaxFails,   \* bound: failed or crashed batches of all relays together
  None

ASSUME RelayAssumption ==
  /\ BatchSize \in Nat \ {0} /\ MaxFails \in Nat
  /\ Events \subseteq Nat /\ None \notin Entities \cup Events

VARIABLES
  tx,         \* state of the transaction that writes an event
  entity,     \* the row it updates
  commits,    \* events in commit order
  causes,     \* what had committed when an event's transaction began
  published,  \* rows with published_at set
  stream,     \* the Redis stream, with the relay that added each entry
  batch,      \* rows a relay read and has not handled
  sent,       \* whether its next row is in the stream but not marked
  fails       \* failed batches

writing  == <<tx, entity, commits, causes>>
relaying == <<published, stream, batch, sent, fails>>
vars     == <<writing, relaying>>

\* Among the types: every stream entry carries the id of an event (event_id).
TypeOK ==
  /\ tx        \in [Events -> {"idle", "open", "wrote", "committed", "aborted"}]
  /\ entity    \in [Events -> Entities \cup {None}]
  /\ commits   \in Seq(Events)
  /\ causes    \in [Events -> SUBSET Events]
  /\ published \subseteq Events
  /\ stream    \in Seq([event : Events, by : Relays])
  /\ batch     \in [Relays -> SUBSET Events]
  /\ sent      \in [Relays -> BOOLEAN]
  /\ fails     \in [Relays -> 0 .. MaxFails]

Init ==
  /\ tx        = [e \in Events |-> "idle"]
  /\ entity    = [e \in Events |-> None]
  /\ commits   = <<>>
  /\ causes    = [e \in Events |-> {}]
  /\ published = {}
  /\ stream    = <<>>
  /\ batch     = [r \in Relays |-> {}]
  /\ sent      = [r \in Relays |-> FALSE]
  /\ fails     = [r \in Relays |-> 0]

Committed == {e \in Events : tx[e] = "committed"}

-----------------------------------------------------------------------------
(* Writers. *)

\* BEGIN: now() is fixed here for everything the transaction inserts, so rows get
\* their numbers in the order in which transactions begin.
Begin(e, k) ==
  /\ tx[e] = "idle"
  /\ \A f \in Events : f < e => tx[f] # "idle"
  /\ tx'      = [tx EXCEPT ![e] = "open"]
  /\ entity'  = [entity EXCEPT ![e] = k]
  /\ causes'  = [causes EXCEPT ![e] = Committed]
  /\ UNCHANGED <<commits, relaying>>

\* The mutation, which locks the entity's row, and the outbox INSERT.
Write(e) ==
  /\ tx[e] = "open"
  /\ \A f \in Events : tx[f] = "wrote" => entity[f] # entity[e]
  /\ tx' = [tx EXCEPT ![e] = "wrote"]
  /\ UNCHANGED <<entity, commits, causes, relaying>>

CommitTx(e) ==
  /\ tx[e] = "wrote"
  /\ tx'      = [tx EXCEPT ![e] = "committed"]
  /\ commits' = Append(commits, e)
  /\ UNCHANGED <<entity, causes, relaying>>

AbortTx(e) ==
  /\ tx[e] \in {"open", "wrote"}
  /\ tx' = [tx EXCEPT ![e] = "aborted"]
  /\ UNCHANGED <<entity, commits, causes, relaying>>

-----------------------------------------------------------------------------
(* The relay. *)

\* Mutant: a watermark in place of the column.
Unpublished_Watermark ==
  {e \in Committed : \A f \in published : f < e}

\* WHERE published_at IS NULL, of the rows a snapshot shows.
Unpublished == Committed \ published

\* Mutant: ORDER BY created_at DESC.
Older_Newer(e, f) == e > f

\* ORDER BY created_at.
Older(e, f) == e < f

\* Mutant: a relay claims its rows by stamping them as it reads them.
Poll_Stamps(r) ==
  /\ batch[r] = {}
  /\ batch' = [batch EXCEPT ![r] =
       {e \in Unpublished : Cardinality({f \in Unpublished : Older(f, e)}) < BatchSize}]
  /\ published' = published \cup batch'[r]
  /\ UNCHANGED <<writing, stream, sent, fails>>

Poll(r) ==
  /\ batch[r] = {}
  /\ batch' = [batch EXCEPT ![r] =
       {e \in Unpublished : Cardinality({f \in Unpublished : Older(f, e)}) < BatchSize}]
  /\ UNCHANGED <<writing, published, stream, sent, fails>>

IsNext(r, e) == e \in batch[r] /\ \A f \in batch[r] \ {e} : Older(e, f)

XAdd(r) ==
  /\ ~sent[r]
  /\ \E e \in Events :
       /\ IsNext(r, e)
       /\ stream' = Append(stream, [event |-> e, by |-> r])
  /\ sent' = [sent EXCEPT ![r] = TRUE]
  /\ UNCHANGED <<writing, published, batch, fails>>

\* Mutant: the row is never stamped.
Mark_Forgets(r) ==
  /\ sent[r]
  /\ \E e \in Events : IsNext(r, e) /\ batch' = [batch EXCEPT ![r] = @ \ {e}]
  /\ sent' = [sent EXCEPT ![r] = FALSE]
  /\ UNCHANGED <<writing, published, stream, fails>>

\* UPDATE event_outbox SET published_at = now().
Mark(r) ==
  /\ sent[r]
  /\ \E e \in Events :
       /\ IsNext(r, e)
       /\ published' = published \cup {e}
       /\ batch'     = [batch EXCEPT ![r] = @ \ {e}]
  /\ sent' = [sent EXCEPT ![r] = FALSE]
  /\ UNCHANGED <<writing, stream, fails>>

\* XADD or the UPDATE returns an error, or the process dies: the rest of the batch
\* is dropped and read again by a later poll.  After XAdd the entry stays.
Fail(r) ==
  /\ batch[r] # {}
  /\ MapThenSumSet(LAMBDA q : fails[q], Relays) < MaxFails
  /\ batch' = [batch EXCEPT ![r] = {}]
  /\ sent'  = [sent EXCEPT ![r] = FALSE]
  /\ fails' = [fails EXCEPT ![r] = @ + 1]
  /\ UNCHANGED <<writing, published, stream>>

Relay(r) == Poll(r) \/ XAdd(r) \/ Mark(r)

Next ==
  \/ \E e \in Events, k \in Entities : Begin(e, k)
  \/ \E e \in Events : Write(e) \/ CommitTx(e) \/ AbortTx(e)
  \/ \E r \in Relays : Relay(r) \/ Fail(r)

Spec == Init /\ [][Next]_vars

\* The ticker keeps polling, and a batch goes on unless it fails.
FairSpec == Spec /\ \A r \in Relays : WF_vars(Relay(r))

-----------------------------------------------------------------------------
(* What the stream promises. *)

Entries(e)   == {n \in 1 .. Len(stream) : stream[n].event = e}
InStream     == {stream[n].event : n \in 1 .. Len(stream)}
Precedes(e, f) == \E n \in Entries(e) : \A m \in Entries(f) : n < m

\* A duplicate costs a failure: a relay repeats an entry of its own only after a
\* batch of it failed between XADD and the stamp (EVT-DEL-1; RelayBatch).
RepeatsNeedFailure ==
  \A r \in Relays, e \in Events :
    Cardinality({n \in Entries(e) : stream[n].by = r}) <= 1 + fails[r]

\* An event whose transaction began after another had committed never overtakes
\* it in the stream, whichever relays carry the two and whatever fails.
CausesComeFirst ==
  \A f \in InStream : \A e \in causes[f] : Precedes(e, f)

\* Every committed event is delivered and stamped in the end, if each relay fails
\* finitely often (EVT-DEL-5, "no write lost if the broker is briefly down").
CommittedIsPublished == \A e \in Events : tx[e] = "committed" ~> e \in published

\* docs/architecture/event-bus.md:229 (EVT-DEL-3): "All events for a given
\* entity_id append to the same per-type stream in commit order".
EntityInCommitOrder ==
  \A m, n \in 1 .. Len(commits) :
    LET e == commits[m]
        f == commits[n]
    IN  m < n /\ entity[e] = entity[f] /\ f \in InStream => Precedes(e, f)

\* Consumers see no event of a transaction that rolled back and none before what its
\* writer could have seen; and a row is stamped only once it is in the stream, so
\* that a failure repeats an event and never loses it (EVT-DEL-1, EVT-DEL-5).
Delivery == INSTANCE EventDelivery WITH
  committed <- Committed,
  causes    <- causes,
  delivered <- [n \in DOMAIN stream |-> stream[n].event],
  done      <- published

ImplementsDelivery == Delivery!Spec
=============================================================================
