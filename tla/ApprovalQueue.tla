--------------------------- MODULE ApprovalQueue ---------------------------
(***************************************************************************)
(* What the approval queue promises, without transactions, locks, sweeps   *)
(* or events: an item is opened once and settled once.                     *)
(***************************************************************************)
CONSTANTS Items, Requests, None

VARIABLES
  state,     \* absent, pending or how the item was settled
  decider    \* the request that settled it, None for nobody

Ends == {"approved", "rejected", "modified", "expired"}

Init ==
  /\ state   = [i \in Items |-> "absent"]
  /\ decider = [i \in Items |-> None]

\* The items a transaction has staged are opened together when it commits.
OpenItems(new) ==
  /\ \A i \in new : state[i] = "absent"
  /\ state' = [i \in Items |-> IF i \in new THEN "pending" ELSE state[i]]
  /\ UNCHANGED decider

\* A request that has settled an item settles no other one.
Settle(i, r, end) ==
  /\ state[i] = "pending"
  /\ \A j \in Items : decider[j] # r
  /\ state'   = [state EXCEPT ![i] = end]
  /\ decider' = [decider EXCEPT ![i] = r]

\* The edited action takes item n's place in the queue as i leaves it.
Replace(i, r, n) ==
  /\ state[i] = "pending" /\ state[n] = "absent"
  /\ \A j \in Items : decider[j] # r
  /\ state'   = [state EXCEPT ![i] = "modified", ![n] = "pending"]
  /\ decider' = [decider EXCEPT ![i] = r]

Expire(i) ==
  /\ state[i] = "pending"
  /\ state' = [state EXCEPT ![i] = "expired"]
  /\ UNCHANGED decider

Next ==
  \/ \E new \in SUBSET Items : OpenItems(new)
  \/ \E i \in Items : Expire(i)
  \/ \E i \in Items, r \in Requests, end \in Ends \ {"expired"} : Settle(i, r, end)
  \/ \E i, n \in Items, r \in Requests : Replace(i, r, n)

Spec == Init /\ [][Next]_<<state, decider>>
=============================================================================
