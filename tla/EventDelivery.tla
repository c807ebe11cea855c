--------------------------- MODULE EventDelivery ---------------------------
(***************************************************************************)
(* Causal at-least-once delivery, as consumers of the event stream see it: *)
(* an event may be delivered any number of times once it is committed and  *)
(* everything its writer could have seen has been delivered before it; it  *)
(* is acknowledged to the writer's side only when delivered.  There are no *)
(* relays, batches or failures here.                                       *)
(***************************************************************************)
EXTENDS Naturals, Sequences

CONSTANTS Events

VARIABLES
  committed,   \* events whose transaction committed
  causes,      \* what had committed when an event's transaction began
  delivered,   \* the stream consumers read
  done         \* events that will not be delivered again by a fresh read

Init ==
  /\ committed = {} /\ done = {}
  /\ causes = [e \in Events |-> {}]
  /\ delivered = <<>>

HasReached(e) == \E n \in 1 .. Len(delivered) : delivered[n] = e

BeginEvent(e) ==
  /\ e \notin committed
  /\ causes' = [causes EXCEPT ![e] = committed]
  /\ UNCHANGED <<committed, delivered, done>>

CommitEvent(e) ==
  /\ e \notin committed
  /\ committed' = committed \cup {e}
  /\ UNCHANGED <<causes, delivered, done>>

Deliver(e) ==
  /\ e \in committed
  /\ \A c \in causes[e] : HasReached(c)
  /\ delivered' = Append(delivered, e)
  /\ UNCHANGED <<committed, causes, done>>

Acknowledge(e) ==
  /\ HasReached(e)
  /\ done' = done \cup {e}
  /\ UNCHANGED <<committed, causes, delivered>>

Next ==
  \E e \in Events : BeginEvent(e) \/ CommitEvent(e) \/ Deliver(e) \/ Acknowledge(e)

Spec == Init /\ [][Next]_<<committed, causes, delivered, done>>
=============================================================================
