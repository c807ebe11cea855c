------------------------- MODULE OutboxRelayProofs -------------------------
(***************************************************************************)
(* Proofs about the outbox and its relays, for any number of events,       *)
(* relays, failures and any batch size.  The bound on failures plays no    *)
(* part in them.                                                           *)
(***************************************************************************)
EXTENDS OutboxRelay, FiniteSetTheorems, SequenceTheorems, TLAPS

Entry == [event : Events, by : Relays]

TypeInv ==
  /\ tx        \in [Events -> {"idle", "open", "wrote", "committed", "aborted"}]
  /\ causes    \in [Events -> SUBSET Events]
  /\ published \subseteq Events
  /\ stream    \in Seq(Entry)
  /\ batch     \in [Relays -> SUBSET Events]
  /\ sent      \in [Relays -> BOOLEAN]
  /\ fails     \in [Relays -> Nat]

\* The entries one relay added for an event.
Mine(r, e) == {n \in Entries(e) : stream[n].by = r}

\* Transactions begin in the order of their numbers, so what had committed when
\* one began is older than it.
Began ==
  /\ \A e, f \in Events : f < e /\ tx[e] # "idle" => tx[f] # "idle"
  /\ \A f \in Events : \A e \in causes[f] : e < f /\ tx[e] = "committed"

\* What relays hold and have done is committed; what is stamped is in the stream.
Carried ==
  /\ \A r \in Relays : batch[r] \subseteq Committed
  /\ published \subseteq InStream
  /\ InStream \subseteq Committed

\* A relay that has added an entry and not stamped it holds the event first.
Halfway == \A r \in Relays : sent[r] => \E e \in Events : IsNext(r, e) /\ e \in InStream

\* The cause of an event in hand is in hand as well, unless it is in the stream.
CausesInHand ==
  \A r \in Relays : \A f \in batch[r] : \A e \in causes[f] : e \in batch[r] \/ e \in InStream

\* Before it adds an event, a relay has added it at most once per failure of its own.
Counted ==
  \A r \in Relays, e \in Events :
    /\ Cardinality(Mine(r, e)) <= 1 + fails[r]
    /\ (e \in batch[r] \/ e \notin published) /\ ~(sent[r] /\ IsNext(r, e)) =>
         Cardinality(Mine(r, e)) <= fails[r]

IInv == TypeInv /\ Began /\ Carried /\ Halfway /\ CausesInHand /\ CausesComeFirst /\ Counted

-----------------------------------------------------------------------------
(* The stream as a sequence. *)

LEMMA EventsAreNumbers == Events \subseteq Nat
  BY RelayAssumption

LEMMA FunctionIsSeq ==
  ASSUME NEW S, NEW n \in Nat, NEW s \in [1 .. n -> S]
  PROVE  s \in Seq(S) /\ Len(s) = n
<1>1. s \in UNION {[1 .. m -> S] : m \in Nat}
  OBVIOUS
<1>2. s \in Seq(S)
  BY <1>1, SeqDef, Zenon
<1>3. DOMAIN s = 1 .. n
  OBVIOUS
<1> QED BY <1>2, <1>3

LEMMA StreamEntries ==
  ASSUME TypeInv
  PROVE  /\ Len(stream) \in Nat
         /\ \A n \in 1 .. Len(stream) : stream[n] \in Entry
         /\ \A e : e \in InStream <=> \E n \in 1 .. Len(stream) : stream[n].event = e
         /\ InStream \subseteq Events
<1>1. stream \in Seq(Entry)
  BY DEF TypeInv
<1>2. Len(stream) \in Nat /\ \A n \in 1 .. Len(stream) : stream[n] \in Entry
  BY <1>1, LenProperties
<1>3. \A e : e \in InStream <=> \E n \in 1 .. Len(stream) : stream[n].event = e
  BY DEF InStream
<1>4. InStream \subseteq Events
  BY <1>2, <1>3 DEF Entry
<1> QED BY <1>2, <1>3, <1>4

LEMMA MineFinite ==
  ASSUME TypeInv, NEW r, NEW e
  PROVE  IsFiniteSet(Mine(r, e)) /\ Cardinality(Mine(r, e)) \in Nat
<1>1. Len(stream) \in Nat
  BY StreamEntries
<1>2. IsFiniteSet(1 .. Len(stream))
  BY <1>1, FS_Interval
<1>3. Mine(r, e) \subseteq 1 .. Len(stream)
  BY DEF Mine, Entries
<1> QED BY <1>2, <1>3, FS_Subset, FS_CardinalityType

\* One more entry adds one position, to its event and to its relay.
LEMMA Appending ==
  ASSUME TypeInv, NEW r \in Relays, NEW e \in Events,
         stream' = Append(stream, [event |-> e, by |-> r])
  PROVE  /\ \A f : Entries(f)' = IF f = e THEN Entries(f) \cup {Len(stream) + 1} ELSE Entries(f)
         /\ InStream' = InStream \cup {e}
         /\ \A q, f : q # r \/ f # e => Mine(q, f)' = Mine(q, f)
         /\ Mine(r, e)' = Mine(r, e) \cup {Len(stream) + 1}
         /\ Len(stream) + 1 \notin Mine(r, e)
<1> DEFINE x == [event |-> e, by |-> r]
           N == Len(stream)
<1>1. x \in Entry /\ stream \in Seq(Entry) /\ x.event = e /\ x.by = r
  BY DEF Entry, TypeInv
<1>2. N \in Nat /\ Len(stream') = N + 1
  BY <1>1 DEF TypeInv
<1>3. \A n \in 1 .. N : stream'[n] = stream[n]
  BY <1>1, <1>2 DEF TypeInv
<1>4. stream'[N + 1] = x
  BY <1>1, <1>2 DEF TypeInv
<1>5. 1 .. (N + 1) = (1 .. N) \cup {N + 1} /\ N + 1 \notin 1 .. N
  BY <1>2
<1> HIDE DEF x, N
<1>6. \A f : Entries(f) = {n \in 1 .. N : stream[n].event = f}
  BY DEF Entries, N
<1>7. \A f : Entries(f)' = {n \in 1 .. (N + 1) : stream'[n].event = f}
  BY <1>2 DEF Entries
<1>8. \A f : Entries(f)' = IF f = e THEN Entries(f) \cup {N + 1} ELSE Entries(f)
  BY <1>1, <1>3, <1>4, <1>5, <1>6, <1>7
<1>10. InStream' = InStream \cup {e}
  <2>1. \A f : f \in InStream <=> \E n \in 1 .. N : stream[n].event = f
    BY DEF InStream, N
  <2>2. \A f : f \in InStream' <=> \E n \in 1 .. (N + 1) : stream'[n].event = f
    BY <1>2 DEF InStream
  <2>3. \A f : f \in InStream' <=> f \in InStream \/ f = e
    BY <1>1, <1>3, <1>4, <1>5, <2>1, <2>2
  <2> QED BY <2>3
<1>11. \A q, f : Mine(q, f) = {n \in 1 .. N : stream[n].event = f /\ stream[n].by = q}
  BY <1>6 DEF Mine
<1>12. \A q, f : Mine(q, f)' = {n \in 1 .. (N + 1) : stream'[n].event = f /\ stream'[n].by = q}
  BY <1>7 DEF Mine
<1>13. \A q, f : q # r \/ f # e => Mine(q, f)' = Mine(q, f)
  BY <1>1, <1>3, <1>4, <1>5, <1>11, <1>12
<1>14. Mine(r, e)' = Mine(r, e) \cup {N + 1} /\ N + 1 \notin Mine(r, e)
  BY <1>1, <1>3, <1>4, <1>5, <1>11, <1>12
<1> QED BY <1>8, <1>10, <1>13, <1>14 DEF N

\* Of a relay's batch one event is next.
LEMMA NextIsUnique ==
  ASSUME NEW r, NEW e \in Events, NEW f \in Events, IsNext(r, e), IsNext(r, f)
  PROVE  e = f
  BY EventsAreNumbers DEF IsNext, Older

-----------------------------------------------------------------------------
(* The inductive invariant. *)

LEMMA InitIInv == Init => IInv
<1> SUFFICES ASSUME Init PROVE IInv
  OBVIOUS
<1>1. TypeInv
  BY DEF Init, TypeInv
<1>2. InStream = {} /\ \A e : Entries(e) = {}
  BY DEF Init, InStream, Entries
<1>3. Began /\ Carried /\ Halfway /\ CausesInHand /\ CausesComeFirst
  BY <1>2 DEF Init, Began, Carried, Halfway, CausesInHand, CausesComeFirst
<1>4. \A r, e : Mine(r, e) = {}
  BY <1>2 DEF Mine
<1>5. Counted
  <2>1. \A r, e : Cardinality(Mine(r, e)) = 0
    BY <1>4, FS_EmptySet
  <2>2. \A r \in Relays : fails[r] = 0
    BY DEF Init
  <2> QED BY <2>1, <2>2 DEF Counted
<1> QED BY <1>1, <1>3, <1>5 DEF IInv

LEMMA NextTypeInv == TypeInv /\ [Next]_vars => TypeInv'
<1> SUFFICES ASSUME TypeInv, [Next]_vars PROVE TypeInv'
  OBVIOUS
<1>1. ASSUME NEW e \in Events, NEW k \in Entities, Begin(e, k) PROVE TypeInv'
  BY <1>1 DEF Begin, TypeInv, relaying, Committed
<1>2. ASSUME NEW e \in Events, Write(e) \/ CommitTx(e) \/ AbortTx(e) PROVE TypeInv'
  BY <1>2 DEF Write, CommitTx, AbortTx, TypeInv, relaying
<1>3. ASSUME NEW r \in Relays, Poll(r) PROVE TypeInv'
  BY <1>3 DEF Poll, TypeInv, writing, Unpublished, Committed
<1>4. ASSUME NEW r \in Relays, XAdd(r) PROVE TypeInv'
  <2>1. PICK e \in Events : stream' = Append(stream, [event |-> e, by |-> r])
    BY <1>4 DEF XAdd
  <2>2. stream' \in Seq(Entry)
    BY <2>1 DEF TypeInv, Entry
  <2> QED BY <1>4, <2>2 DEF XAdd, TypeInv, writing
<1>5. ASSUME NEW r \in Relays, Mark(r) PROVE TypeInv'
  BY <1>5 DEF Mark, TypeInv, writing
<1>6. ASSUME NEW r \in Relays, Fail(r) PROVE TypeInv'
  BY <1>6 DEF Fail, TypeInv, writing
<1>7. CASE UNCHANGED vars
  BY <1>7 DEF vars, writing, relaying, TypeInv
<1> QED BY <1>1, <1>2, <1>3, <1>4, <1>5, <1>6, <1>7 DEF Next, Relay

\* Steps of a transaction, and those of the relay that add no entry, leave the
\* order of the stream alone.
LEMMA SameStream ==
  ASSUME stream' = stream
  PROVE  /\ InStream' = InStream
         /\ \A e : Entries(e)' = Entries(e)
         /\ \A r, e : Mine(r, e)' = Mine(r, e)
         /\ \A e, f : Precedes(e, f)' <=> Precedes(e, f)
  BY DEF InStream, Entries, Mine, Precedes

LEMMA BeginIInv ==
  ASSUME IInv, TypeInv', NEW e \in Events, NEW k \in Entities, Begin(e, k)
  PROVE  IInv'
<1> USE DEF IInv, TypeInv
<1>1. /\ tx[e] = "idle" /\ tx' = [tx EXCEPT ![e] = "open"]
      /\ causes' = [causes EXCEPT ![e] = Committed]
      /\ UNCHANGED <<published, stream, batch, sent, fails>>
      /\ \A f \in Events : f < e => tx[f] # "idle"
  BY DEF Begin, relaying
<1>2. Committed' = Committed
  BY <1>1 DEF Committed
<1>3. e \notin Committed
  BY <1>1 DEF Committed
<1>4. \A f \in Committed : f < e
  BY <1>1, EventsAreNumbers DEF Began, Committed
<1>5. Began'
  BY <1>1, <1>4, EventsAreNumbers DEF Began, Committed
<1>6. Carried'
  BY <1>1, <1>2, SameStream DEF Carried
<1>7. Halfway'
  BY <1>1, SameStream DEF Halfway, IsNext
<1>8. \A r \in Relays : e \notin batch[r]
  BY <1>3 DEF Carried
<1>9. CausesInHand'
  BY <1>1, <1>8, SameStream DEF CausesInHand
<1>10. CausesComeFirst'
  <2>1. e \notin InStream
    BY <1>3 DEF Carried
  <2>2. \A f \in InStream : causes'[f] = causes[f]
    BY <1>1, <2>1, StreamEntries
  <2> QED BY <1>1, <2>2, SameStream DEF CausesComeFirst
<1>11. Counted'
  BY <1>1, SameStream DEF Counted, IsNext
<1> QED BY <1>5, <1>6, <1>7, <1>9, <1>10, <1>11

LEMMA WriterIInv ==
  ASSUME IInv, TypeInv', NEW e \in Events, Write(e) \/ CommitTx(e) \/ AbortTx(e)
  PROVE  IInv'
<1> USE DEF IInv, TypeInv
<1>1. /\ UNCHANGED <<causes, published, stream, batch, sent, fails>>
      /\ tx[e] \notin {"idle", "committed"} /\ tx'[e] # "idle"
      /\ \A f \in Events : f # e => tx'[f] = tx[f]
  BY DEF Write, CommitTx, AbortTx, relaying
<1>2. Committed \subseteq Committed'
  BY <1>1 DEF Committed
<1>3. Began'
  BY <1>1 DEF Began
<1>4. Carried'
  BY <1>1, <1>2, SameStream DEF Carried
<1>5. Halfway'
  BY <1>1, SameStream DEF Halfway, IsNext
<1>6. CausesInHand' /\ CausesComeFirst'
  BY <1>1, SameStream DEF CausesInHand, CausesComeFirst
<1>7. Counted'
  BY <1>1, SameStream DEF Counted, IsNext
<1> QED BY <1>3, <1>4, <1>5, <1>6, <1>7

LEMMA PollIInv ==
  ASSUME IInv, TypeInv', NEW r \in Relays, Poll(r)
  PROVE  IInv'
<1> USE DEF IInv, TypeInv
<1> DEFINE taken == {e \in Unpublished : Cardinality({f \in Unpublished : Older(f, e)}) < BatchSize}
<1>1. /\ UNCHANGED <<tx, causes, published, stream, sent, fails>>
      /\ batch[r] = {} /\ batch' = [batch EXCEPT ![r] = taken]
  BY DEF Poll, writing
<1>2. ~sent[r]
  BY <1>1 DEF Halfway, IsNext
<1>3. taken \subseteq Committed \ published
  BY DEF Unpublished
\* The batch is a first part of the backlog.
<1>4. ASSUME NEW f \in taken, NEW e \in Unpublished, e < f
      PROVE  e \in taken
  <2> DEFINE belowE == {h \in Unpublished : Older(h, e)}
             belowF == {h \in Unpublished : Older(h, f)}
  <2>1. e \in Nat /\ f \in Nat /\ \A h \in Unpublished : h \in Nat
    BY EventsAreNumbers DEF Unpublished, Committed
  <2>2. belowE \subseteq belowF
    <3>1. \A h \in Nat : h < e => h < f
      BY <1>4, <2>1
    <3> QED BY <2>1, <3>1 DEF Older
  <2>3. IsFiniteSet(belowF)
    <3>1. belowF \subseteq 0 .. f
      <4>1. \A h \in Nat : h < f => h \in 0 .. f
        BY <2>1
      <4> QED BY <2>1, <4>1 DEF Older
    <3>2. IsFiniteSet(0 .. f)
      BY <2>1, FS_Interval
    <3> QED BY <3>1, <3>2, FS_Subset
  <2>4. /\ Cardinality(belowE) \in Nat /\ Cardinality(belowF) \in Nat
        /\ Cardinality(belowE) <= Cardinality(belowF)
    BY <2>2, <2>3, FS_Subset, FS_CardinalityType
  <2>5. Cardinality(belowF) < BatchSize
    BY <1>4
  <2>6. Cardinality(belowE) < BatchSize
    <3> HIDE DEF belowE, belowF
    <3> QED BY <2>4, <2>5, RelayAssumption
  <2> QED BY <2>6
<1> HIDE DEF taken
<1>5. Committed' = Committed
  BY <1>1 DEF Committed
<1>6. Began'
  BY <1>1 DEF Began
<1>7. Carried'
  BY <1>1, <1>3, <1>5, SameStream DEF Carried
<1>8. Halfway'
  <2>1. \A q \in Relays : sent[q] => q # r /\ batch'[q] = batch[q]
    BY <1>1, <1>2
  <2> QED BY <1>1, <2>1, SameStream DEF Halfway, IsNext
<1>9. CausesInHand'
  <2>1. ASSUME NEW f \in taken, NEW e \in causes[f]
        PROVE  e \in taken \/ e \in InStream
    <3>1. f \in Events
      BY <1>3 DEF Committed
    <3>2. e \in Events /\ e < f /\ tx[e] = "committed"
      BY <2>1, <3>1 DEF Began
    <3>3. CASE e \in published
      BY <3>3 DEF Carried
    <3>4. CASE e \notin published
      BY <1>4, <3>2, <3>4 DEF Unpublished, Committed
    <3> QED BY <3>3, <3>4
  <2> QED BY <1>1, <2>1, SameStream DEF CausesInHand
<1>10. CausesComeFirst'
  BY <1>1, SameStream DEF CausesComeFirst
<1>11. Counted'
  <2>1. \A e \in Events : e \in taken => e \notin published
    BY <1>3
  <2>2. \A q \in Relays : q # r => batch'[q] = batch[q]
    BY <1>1
  <2>3. batch'[r] = taken
    BY <1>1
  <2>4. ASSUME NEW e \in Events
        PROVE  /\ Cardinality(Mine(r, e)) <= 1 + fails[r]
               /\ e \in taken \/ e \notin published => Cardinality(Mine(r, e)) <= fails[r]
    BY <1>1, <1>2, <2>1 DEF Counted, IsNext
  <2>5. ASSUME NEW q \in Relays, NEW e \in Events, q # r
        PROVE  /\ Cardinality(Mine(q, e)) <= 1 + fails[q]
               /\ (e \in batch'[q] \/ e \notin published) /\ ~(sent[q] /\ IsNext(q, e)') =>
                    Cardinality(Mine(q, e)) <= fails[q]
    BY <2>2, <2>5 DEF Counted, IsNext
  <2> QED BY <1>1, <2>3, <2>4, <2>5, SameStream DEF Counted
<1> QED BY <1>6, <1>7, <1>8, <1>9, <1>10, <1>11

\* What is next has its causes behind it: they are older, so no part of the rest of
\* the batch.
LEMMA CausesAreBehind ==
  ASSUME IInv, NEW r \in Relays, NEW e \in Events, IsNext(r, e)
  PROVE  \A g \in causes[e] : g \in Events /\ g \in InStream /\ g # e
<1> USE DEF IInv, TypeInv
<1>1. \A g \in causes[e] : g \in Events /\ g < e
  BY DEF Began
<1>2. \A g \in causes[e] : g \notin batch[r]
  BY <1>1, EventsAreNumbers DEF IsNext, Older
<1>3. \A g \in causes[e] : g \in InStream
  BY <1>2 DEF CausesInHand, IsNext
<1> QED BY <1>1, <1>3, EventsAreNumbers

LEMMA XAddIInv ==
  ASSUME IInv, TypeInv', NEW r \in Relays, XAdd(r)
  PROVE  IInv'
<1> USE DEF IInv, TypeInv
<1>1. PICK e \in Events : IsNext(r, e) /\ stream' = Append(stream, [event |-> e, by |-> r])
  BY DEF XAdd
<1>2. /\ UNCHANGED <<tx, causes, published, batch, fails>>
      /\ ~sent[r] /\ sent' = [sent EXCEPT ![r] = TRUE]
  BY DEF XAdd, writing
<1>3. /\ \A f : Entries(f)' = IF f = e THEN Entries(f) \cup {Len(stream) + 1} ELSE Entries(f)
      /\ InStream' = InStream \cup {e}
      /\ \A q, f : q # r \/ f # e => Mine(q, f)' = Mine(q, f)
      /\ Mine(r, e)' = Mine(r, e) \cup {Len(stream) + 1}
      /\ Len(stream) + 1 \notin Mine(r, e)
  BY <1>1, Appending
<1>4. Committed' = Committed /\ e \in Committed /\ e \in batch[r]
  BY <1>1, <1>2 DEF Committed, Carried, IsNext
<1>5. \A q \in Relays, f \in Events : IsNext(q, f)' <=> IsNext(q, f)
  BY <1>2 DEF IsNext
<1>6. Began'
  BY <1>2 DEF Began
<1>7. Carried'
  BY <1>2, <1>3, <1>4 DEF Carried
<1>8. Halfway'
  BY <1>1, <1>2, <1>3, <1>5 DEF Halfway
<1>9. CausesInHand'
  BY <1>2, <1>3 DEF CausesInHand
<1>10. CausesComeFirst'
  <2>1. Len(stream) \in Nat /\ \A f : Entries(f) \subseteq 1 .. Len(stream)
    BY StreamEntries DEF Entries
  <2>2. \A g \in causes[e] : g \in InStream /\ g # e
    BY <1>1, CausesAreBehind
  <2>3. \A g \in InStream : Entries(g) # {}
    BY StreamEntries DEF Entries
  <2>4. ASSUME NEW f \in InStream, NEW g \in causes[f]
        PROVE  Precedes(g, f)'
    <3>1. PICK n \in Entries(g) : \A m \in Entries(f) : n < m
      BY <2>4 DEF CausesComeFirst, Precedes
    <3>2. n \in Entries(g)'
      BY <1>3
    <3>3. \A m \in Entries(f)' : m \in Entries(f) \/ m = Len(stream) + 1
      BY <1>3
    <3>4. n \in 1 .. Len(stream)
      BY <2>1
    <3>5. ASSUME NEW m \in Entries(f)'
          PROVE  n < m
      <4>1. CASE m \in Entries(f)
        BY <3>1, <4>1
      <4>2. CASE m = Len(stream) + 1
        <5> n \in 1 .. Len(stream) /\ Len(stream) \in Nat
          BY <2>1, <3>4
        <5> QED BY <4>2
      <4> QED BY <3>3, <4>1, <4>2
    <3> QED BY <3>2, <3>5 DEF Precedes
  <2>5. ASSUME e \notin InStream, NEW g \in causes[e]
        PROVE  Precedes(g, e)'
    <3>1. Entries(e) = {}
      BY <2>5 DEF InStream, Entries
    <3>2. PICK n \in Entries(g) : TRUE
      BY <2>2, <2>3
    <3>3. n \in Entries(g)' /\ n \in 1 .. Len(stream)
      BY <1>3, <2>1
    <3>4. \A m \in Entries(e)' : m = Len(stream) + 1
      BY <1>3, <3>1
    <3> QED BY <2>1, <3>3, <3>4 DEF Precedes
  <2> QED BY <1>2, <1>3, <2>4, <2>5 DEF CausesComeFirst
<1>11. Counted'
  <2>1. ASSUME NEW q \in Relays, NEW f \in Events, q # r \/ f # e
        PROVE  /\ Cardinality(Mine(q, f)') <= 1 + fails[q]
               /\ (f \in batch[q] \/ f \notin published) /\ ~(sent'[q] /\ IsNext(q, f)) =>
                    Cardinality(Mine(q, f)') <= fails[q]
    <3>1. Mine(q, f)' = Mine(q, f)
      BY <1>3, <2>1
    <3>2. sent[q] /\ IsNext(q, f) => sent'[q] /\ IsNext(q, f)
      BY <1>2
    <3> QED BY <3>1, <3>2 DEF Counted
  <2>2. /\ Cardinality(Mine(r, e)') <= 1 + fails[r]
        /\ sent'[r] /\ IsNext(r, e)
    <3>1. Cardinality(Mine(r, e)) <= fails[r]
      BY <1>1, <1>2, <1>4 DEF Counted
    <3>2. IsFiniteSet(Mine(r, e)) /\ Cardinality(Mine(r, e)) \in Nat
      BY MineFinite
    <3>3. Cardinality(Mine(r, e)') = Cardinality(Mine(r, e)) + 1
      <4>1. Cardinality(Mine(r, e) \cup {Len(stream) + 1}) = Cardinality(Mine(r, e)) + 1
        BY <1>3, <3>2, FS_AddElement
      <4> QED BY <1>3, <4>1
    <3>4. sent'[r]
      BY <1>2
    <3> QED BY <1>1, <3>1, <3>2, <3>3, <3>4
  <2> QED BY <1>2, <1>5, <2>1, <2>2 DEF Counted
<1> QED BY <1>6, <1>7, <1>8, <1>9, <1>10, <1>11

LEMMA MarkIInv ==
  ASSUME IInv, TypeInv', NEW r \in Relays, Mark(r)
  PROVE  IInv'
<1> USE DEF IInv, TypeInv
<1>1. PICK e \in Events : /\ IsNext(r, e)
                          /\ published' = published \cup {e}
                          /\ batch' = [batch EXCEPT ![r] = @ \ {e}]
  BY DEF Mark
<1>2. /\ UNCHANGED <<tx, causes, stream, fails>>
      /\ sent[r] /\ sent' = [sent EXCEPT ![r] = FALSE]
  BY DEF Mark, writing
<1>3. e \in InStream
  BY <1>1, <1>2, NextIsUnique DEF Halfway
<1>4. Committed' = Committed
  BY <1>2 DEF Committed
<1>5. Began'
  BY <1>2 DEF Began
<1>6. Carried'
  BY <1>1, <1>2, <1>3, <1>4, SameStream DEF Carried
<1>7. \A q \in Relays : q # r => batch'[q] = batch[q] /\ sent'[q] = sent[q]
  BY <1>1, <1>2
<1>8. batch'[r] = batch[r] \ {e} /\ ~sent'[r]
  BY <1>1, <1>2
<1>9. Halfway'
  <2>1. \A q \in Relays : sent'[q] => q # r
    BY <1>8
  <2> QED BY <1>2, <1>7, <2>1, SameStream DEF Halfway, IsNext
<1>10. CausesInHand'
  BY <1>2, <1>3, <1>7, <1>8, SameStream DEF CausesInHand
<1>11. CausesComeFirst'
  BY <1>2, SameStream DEF CausesComeFirst
<1>12. Counted'
  <2>1. ASSUME NEW f \in Events
        PROVE  /\ Cardinality(Mine(r, f)) <= 1 + fails[r]
               /\ f \in batch'[r] \/ f \notin published' => Cardinality(Mine(r, f)) <= fails[r]
    <3>1. f # e => ~IsNext(r, f)
      BY <1>1, NextIsUnique
    <3> QED BY <1>1, <1>8, <3>1 DEF Counted
  <2>2. ASSUME NEW q \in Relays, NEW f \in Events, q # r
        PROVE  /\ Cardinality(Mine(q, f)) <= 1 + fails[q]
               /\ (f \in batch'[q] \/ f \notin published') /\ ~(sent'[q] /\ IsNext(q, f)') =>
                    Cardinality(Mine(q, f)) <= fails[q]
    BY <1>1, <1>7, <2>2 DEF Counted, IsNext
  <2> QED BY <1>2, <2>1, <2>2, SameStream DEF Counted
<1> QED BY <1>5, <1>6, <1>9, <1>10, <1>11, <1>12

LEMMA FailIInv ==
  ASSUME IInv, TypeInv', NEW r \in Relays, Fail(r)
  PROVE  IInv'
<1> USE DEF IInv, TypeInv
<1>1. /\ UNCHANGED <<tx, causes, published, stream>>
      /\ batch' = [batch EXCEPT ![r] = {}]
      /\ sent' = [sent EXCEPT ![r] = FALSE]
      /\ fails' = [fails EXCEPT ![r] = @ + 1]
  BY DEF Fail, writing
<1>2. Committed' = Committed
  BY <1>1 DEF Committed
<1>3. Began'
  BY <1>1 DEF Began
<1>4. Carried'
  BY <1>1, <1>2, SameStream DEF Carried
<1>5. \A q \in Relays : q # r => batch'[q] = batch[q] /\ sent'[q] = sent[q] /\ fails'[q] = fails[q]
  BY <1>1
<1>6. batch'[r] = {} /\ ~sent'[r] /\ fails'[r] = fails[r] + 1 /\ fails[r] \in Nat
  BY <1>1
<1>7. Halfway'
  <2>1. \A q \in Relays : sent'[q] => q # r
    BY <1>6
  <2> QED BY <1>1, <1>5, <2>1, SameStream DEF Halfway, IsNext
<1>8. CausesInHand' /\ CausesComeFirst'
  BY <1>1, <1>5, <1>6, SameStream DEF CausesInHand, CausesComeFirst
<1>9. Counted'
  <2>1. ASSUME NEW e \in Events
        PROVE  Cardinality(Mine(r, e)) <= fails'[r] /\ Cardinality(Mine(r, e)) <= 1 + fails'[r]
    BY <1>6, MineFinite DEF Counted
  <2>2. ASSUME NEW q \in Relays, NEW e \in Events, q # r
        PROVE  /\ Cardinality(Mine(q, e)) <= 1 + fails'[q]
               /\ (e \in batch'[q] \/ e \notin published) /\ ~(sent'[q] /\ IsNext(q, e)') =>
                    Cardinality(Mine(q, e)) <= fails'[q]
    BY <1>5, <2>2 DEF Counted, IsNext
  <2> QED BY <1>1, <2>1, <2>2, SameStream DEF Counted
<1> QED BY <1>3, <1>4, <1>7, <1>8, <1>9

LEMMA NextIInv == IInv /\ [Next]_vars => IInv'
<1> SUFFICES ASSUME IInv, [Next]_vars PROVE IInv'
  OBVIOUS
<1>1. TypeInv'
  BY NextTypeInv DEF IInv
<1>2. CASE UNCHANGED vars
  <2>1. UNCHANGED <<tx, causes, published, stream, batch, sent, fails>>
    BY <1>2 DEF vars, writing, relaying
  <2> QED
    BY <1>1, <2>1, SameStream
    DEF IInv, Began, Carried, Halfway, CausesInHand, CausesComeFirst, Counted, IsNext, Committed
<1> QED
  BY <1>1, <1>2, BeginIInv, WriterIInv, PollIInv, XAddIInv, MarkIInv, FailIInv DEF Next, Relay

LEMMA Invariance == Spec => []IInv
  BY InitIInv, NextIInv, PTL DEF Spec

-----------------------------------------------------------------------------
(* What follows from it. *)

\* However many relays run and however often each fails, an event that began after
\* another had committed is never ahead of it in the stream.
THEOREM CausesAreNeverOvertaken == Spec => []CausesComeFirst
  BY Invariance, PTL DEF IInv

\* A relay repeats an entry of its own at most once per batch of it that failed.
THEOREM RepeatsAreFailures == Spec => []RepeatsNeedFailure
<1>1. IInv => RepeatsNeedFailure
  BY DEF IInv, Counted, Mine, RepeatsNeedFailure
<1> QED BY <1>1, Invariance, PTL

-----------------------------------------------------------------------------
(* The relays implement causal at-least-once delivery. *)

Delivered == [n \in DOMAIN stream |-> stream[n].event]

LEMMA ReachedIsInStream ==
  ASSUME TypeInv, NEW e \in InStream
  PROVE  \E n \in 1 .. Len(Delivered) : Delivered[n] = e
<1>1. Len(stream) \in Nat /\ DOMAIN stream = 1 .. Len(stream)
  BY StreamEntries DEF TypeInv
<1>2. \A n \in 1 .. Len(stream) : stream[n].event \in Events
  BY StreamEntries DEF Entry
<1>3. Delivered \in [1 .. Len(stream) -> Events]
  BY <1>1, <1>2 DEF Delivered
<1>4. Len(Delivered) = Len(stream)
  BY <1>1, <1>3, FunctionIsSeq
<1>5. PICK n \in 1 .. Len(stream) : stream[n].event = e
  BY StreamEntries
<1>6. Delivered[n] = e
  BY <1>1, <1>5 DEF Delivered
<1> QED BY <1>4, <1>5, <1>6

\* Every step is a beginning, a commit, a delivery, an acknowledgement or nothing to
\* a consumer.
LEMMA StepsDeliver ==
  ASSUME IInv, [Next]_vars
  PROVE  [Delivery!Next]_<<Committed, causes, Delivered, published>>
<1> USE DEF IInv, TypeInv
<1>1. ASSUME NEW e \in Events, NEW k \in Entities, Begin(e, k)
      PROVE  Delivery!BeginEvent(e)
  BY <1>1 DEF Begin, relaying, Committed, Delivered, Delivery!BeginEvent
<1>2. ASSUME NEW e \in Events, Write(e) \/ AbortTx(e)
      PROVE  UNCHANGED <<Committed, causes, Delivered, published>>
  BY <1>2 DEF Write, AbortTx, relaying, Committed, Delivered
<1>3. ASSUME NEW e \in Events, CommitTx(e)
      PROVE  Delivery!CommitEvent(e)
  BY <1>3 DEF CommitTx, relaying, Committed, Delivered, Delivery!CommitEvent
<1>4. ASSUME NEW r \in Relays, Poll(r) \/ Fail(r)
      PROVE  UNCHANGED <<Committed, causes, Delivered, published>>
  BY <1>4 DEF Poll, Fail, writing, Committed, Delivered
<1>5. ASSUME NEW r \in Relays, XAdd(r)
      PROVE  \E e \in Events : Delivery!Deliver(e)
  <2>1. PICK e \in Events : IsNext(r, e) /\ stream' = Append(stream, [event |-> e, by |-> r])
    BY <1>5 DEF XAdd
  <2>2. /\ e \in Committed /\ Committed' = Committed
        /\ causes' = causes /\ published' = published
    BY <1>5, <2>1 DEF XAdd, writing, Carried, IsNext, Committed
  <2>4. \A c \in causes[e] : \E n \in 1 .. Len(Delivered) : Delivered[n] = c
    BY <2>1, CausesAreBehind, ReachedIsInStream
  <2>3. Delivered' = Append(Delivered, e)
    <3> DEFINE x == [event |-> e, by |-> r]
               N == Len(stream)
    <3>1. x \in Entry /\ stream \in Seq(Entry) /\ N \in Nat /\ x.event = e
      BY DEF Entry
    <3>2. DOMAIN stream = 1 .. N /\ DOMAIN stream' = 1 .. (N + 1)
      BY <2>1, <3>1
    <3>3. Delivered = [n \in 1 .. N |-> stream[n].event]
      BY <3>2 DEF Delivered
    <3>4. Delivered' = [n \in 1 .. (N + 1) |-> stream'[n].event]
      BY <3>2 DEF Delivered
    <3>5. stream'[N + 1] = x /\ \A n \in 1 .. N : stream'[n] = stream[n]
      BY <2>1, <3>1
    <3>6. Delivered \in Seq(Events) /\ Len(Delivered) = N
      <4>1. \A n \in 1 .. N : stream[n].event \in Events
        BY StreamEntries DEF Entry
      <4>2. Delivered \in [1 .. N -> Events]
        BY <3>3, <4>1
      <4> QED BY <3>1, <4>2, FunctionIsSeq
    <3>7. /\ Append(Delivered, e) \in Seq(Events) /\ Len(Append(Delivered, e)) = N + 1
          /\ Append(Delivered, e)[N + 1] = e
          /\ \A n \in 1 .. N : Append(Delivered, e)[n] = Delivered[n]
      BY <3>6
    <3>8. Delivered' \in Seq(Events) /\ Len(Delivered') = N + 1
      <4>1. \A n \in 1 .. N : stream[n].event \in Events
        BY StreamEntries DEF Entry
      <4>2. \A n \in 1 .. (N + 1) : n \in 1 .. N \/ n = N + 1
        BY <3>1
      <4>3. \A n \in 1 .. (N + 1) : stream'[n].event \in Events
        BY <3>1, <3>5, <4>1, <4>2
      <4>4. Delivered' \in [1 .. (N + 1) -> Events]
        BY <3>4, <4>3
      <4>5. N + 1 \in Nat
        BY <3>1
      <4> QED BY <4>4, <4>5, FunctionIsSeq
    <3>9. \A n \in 1 .. (N + 1) : Delivered'[n] = Append(Delivered, e)[n]
      <4> HIDE DEF x
      <4>1. Delivered'[N + 1] = e
        BY <3>1, <3>4, <3>5
      <4>2. \A n \in 1 .. N : Delivered'[n] = Delivered[n]
        BY <3>1, <3>3, <3>4, <3>5
      <4> QED BY <3>1, <3>7, <4>1, <4>2
    <3> HIDE DEF N
    <3> QED BY <3>7, <3>8, <3>9, SeqEqual
  <2> QED BY <2>2, <2>3, <2>4 DEF Delivery!Deliver, Delivery!HasReached, Delivered
<1>6. ASSUME NEW r \in Relays, Mark(r)
      PROVE  \E e \in Events : Delivery!Acknowledge(e)
  <2>1. PICK e \in Events : IsNext(r, e) /\ published' = published \cup {e}
    BY <1>6 DEF Mark
  <2>2. e \in InStream
    BY <1>6, <2>1, NextIsUnique DEF Halfway, Mark
  <2>3. \E n \in 1 .. Len(Delivered) : Delivered[n] = e
    BY <2>2, ReachedIsInStream
  <2>4. Committed' = Committed /\ causes' = causes /\ Delivered' = Delivered
    BY <1>6 DEF Mark, writing, Committed, Delivered
  <2> QED BY <2>1, <2>3, <2>4 DEF Delivery!Acknowledge, Delivery!HasReached, Delivered
<1>7. CASE UNCHANGED vars
  BY <1>7 DEF vars, writing, relaying, Committed, Delivered
<1> QED BY <1>1, <1>2, <1>3, <1>4, <1>5, <1>6, <1>7 DEF Next, Relay, Delivery!Next

\* Consumers are promised what committed, after its causes, and nothing else, and what
\* is stamped was delivered, by any number of relays and through any failures of theirs.
THEOREM DeliversAtLeastOnce == Spec => ImplementsDelivery
<1>1. Init => Delivery!Init
  BY DEF Init, Delivery!Init, Committed
<1>2. IInv /\ [Next]_vars => [Delivery!Next]_<<Committed, causes, [n \in DOMAIN stream |-> stream[n].event], published>>
  BY StepsDeliver DEF Delivered
<1> QED BY <1>1, <1>2, Invariance, PTL DEF Spec, ImplementsDelivery, Delivery!Spec
=============================================================================
