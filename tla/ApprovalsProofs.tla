--------------------------- MODULE ApprovalsProofs ---------------------------
(***************************************************************************)
(* Proofs about the approval queue, for any number of items, overlapping   *)
(* requests and sweeps, and any payloads.                                  *)
(***************************************************************************)
EXTENDS Approvals, TLAPS

-----------------------------------------------------------------------------
(* Type correctness. *)

LEMMA OutcomeType == \A v \in Verbs : Outcome(v) \in {"approved", "rejected", "modified"}
  BY DEF Outcome, Verbs

LEMMA DecisionRulesType ==
  \A c \in Calls : DecisionRules(c) \subseteq Rules \ {"pending_approval", "expiry"}
  BY DEF DecisionRules, Rules, Calls, Verbs

\* Requests past Get know what they were asked, and it is about a row that exists.
Asked ==
  \A r \in Requests : pc[r] # "new" =>
    /\ call[r] \in Calls
    /\ status[Target(r)] # "absent"
    /\ (call[r].verb = "modify") <=> (call[r].edited # None)
    
\* Rows that exist are complete.
Complete ==
  \A i \in Items : status[i] # "absent" => kind[i] \in Kinds /\ payload[i] \in Payloads

TypeInv == TypeOK /\ Asked /\ Complete

LEMMA InitTypeInv == Init => TypeInv
  BY DEF Init, TypeInv, TypeOK, Asked, Complete, Statuses, PCs

LEMMA NextTypeInv == TypeInv /\ [Next]_vars => TypeInv'
<1> USE ConstantsAssumption DEF TypeInv
<1> SUFFICES ASSUME TypeInv, [Next]_vars PROVE TypeInv'
  OBVIOUS
<1>1. ASSUME NEW i \in Items, NEW k \in Kinds, NEW p \in Payloads, Stage(i, k, p)
      PROVE  TypeInv'
  <2>1. TypeOK'
    BY <1>1 DEF Stage, TypeOK, clock, Statuses, AuditRows, Rules
  <2>2. Asked'
    BY <1>1 DEF Stage, TypeOK, Asked, Target, Calls
  <2>3. Complete'
    BY <1>1 DEF Stage, TypeOK, Complete
  <2> QED BY <2>1, <2>2, <2>3
<1>2. ASSUME NEW r \in Requests, NEW v \in Verbs, NEW i \in Items,
             NEW e \in Payloads \cup {None}, Get(r, v, i, e)
      PROVE  TypeInv'
  <2>1. TypeOK'
    BY <1>2 DEF Get, TypeOK, rows, trail, clock, PCs, Calls
  <2>2. Asked'
    BY <1>2 DEF Get, TypeOK, Asked, Target, Calls, rows
  <2>3. Complete'
    BY <1>2 DEF Get, Complete, rows
  <2> QED BY <2>1, <2>2, <2>3
<1>3. ASSUME NEW r \in Requests, Claim(r)
      PROVE  TypeInv'
  <2>0. Target(r) \in Items
    BY <1>3 DEF Claim, Asked, Target, Calls
  <2>1. TypeOK'
    BY <1>3, <2>0 DEF Claim, TypeOK, rows, trail, clock, PCs
  <2>2. Asked'
    BY <1>3 DEF Claim, TypeOK, Asked, Target, rows
  <2>3. Complete'
    BY <1>3 DEF Claim, Complete, rows
  <2> QED BY <2>1, <2>2, <2>3
<1>4. ASSUME NEW r \in Requests, Exec(r)
      PROVE  TypeInv'
  <2>0. call[r] \in Calls /\ Target(r) \in Items /\ call[r].item \in Items
    BY <1>4 DEF Exec, Asked, Target, Calls
  <2>1. Executed(call[r]) \in Payloads
    BY <1>4, <2>0 DEF Exec, Executed, Asked, Complete, Target, Calls
  <2>2. TypeOK'
    BY <1>4, <2>0, <2>1 DEF Exec, TargetOf, TypeOK, rows, clock, PCs, Effects
  <2>3. Asked'
    BY <1>4 DEF Exec, TypeOK, Asked, Target, rows
  <2>4. Complete'
    BY <1>4 DEF Exec, Complete, rows
  <2> QED BY <2>2, <2>3, <2>4
<1>5. ASSUME NEW r \in Requests, NEW n \in Items \cup {None}, CommitWith(r, n),
             pc[r] \in {"claimed", "executed"}, n \in Items => Restages(call[r])
      PROVE  TypeInv'
  <2>0. call[r] \in Calls /\ call[r].item \in Items /\ status[call[r].item] # "absent"
    BY <1>5 DEF Asked, Target, Calls
  <2>1. Outcome(call[r].verb) \in Decisions
    BY <2>0, OutcomeType DEF Decisions, Calls
  <2>2. [item : {call[r].item}, rule : DecisionRules(call[r]), by : {r}] \subseteq AuditRows
    BY <2>0, DecisionRulesType DEF AuditRows
  <2>3. n \in Items => RestagedPayload(call[r]) \in Payloads
    BY <1>5, <2>0 DEF RestagedPayload, Restages
  <2>4. status' \in [Items -> Statuses]
    BY <1>5, <2>1 DEF CommitWith, TypeOK, Statuses
  <2>5. kind' \in [Items -> Kinds \cup {None}] /\ payload' \in [Items -> Payloads \cup {None}]
    BY <1>5, <2>0, <2>3 DEF CommitWith, TypeOK
  <2>6. outbox' \subseteq Events
    BY <1>5, <2>0, <2>1 DEF CommitWith, TypeOK, Events
  <2>7. audit' \subseteq AuditRows
    BY <1>5, <2>2 DEF CommitWith, TypeOK
  <2>8. TypeOK'
    BY <1>5, <2>0, <2>4, <2>5, <2>6, <2>7 DEF CommitWith, TypeOK, clock, PCs
  <2>9. Asked'
    BY <1>5, <2>0, <2>1, <2>8 DEF CommitWith, TypeOK, Asked, Target, Decisions, Calls
  <2>10. Complete'
    BY <1>5, <2>0, <2>3, <2>4, <2>5 DEF CommitWith, TypeOK, Complete
  <2> QED BY <2>8, <2>9, <2>10
<1>6. ASSUME NEW r \in Requests, Commit(r)
      PROVE  TypeInv'
  BY <1>5, <1>6 DEF Commit
<1>7. ASSUME NEW r \in Requests, Rollback(r)
      PROVE  TypeInv'
  BY <1>7 DEF Rollback, TypeOK, Asked, Complete, Target, rows, trail, clock, PCs
<1>8. ASSUME NEW s \in Sweepers, SweepRead(s) \/ SweepFail(s)
      PROVE  TypeInv'
  BY <1>8 DEF SweepRead, SweepFail, PastDue, TypeOK, Asked, Complete, Target, rows, trail, clock
<1>9. ASSUME NEW s \in Sweepers, NEW i \in Items, ExpireOne(s, i)
      PROVE  TypeInv'
  <2>1. TypeOK'
    BY <1>9 DEF ExpireOne, StillPending, TypeOK, clock, Statuses, Decisions, AuditRows, Rules, Events
  <2>2. Asked'
    BY <1>9 DEF ExpireOne, StillPending, TypeOK, Asked, Target, Calls
  <2>3. Complete'
    BY <1>9 DEF ExpireOne, StillPending, TypeOK, Complete
  <2> QED BY <2>1, <2>2, <2>3
<1>10. ASSUME NEW i \in Items, BecomesOverdue(i) \/ TargetChanges(i)
      PROVE  TypeInv'
  BY <1>10 DEF BecomesOverdue, TargetChanges, TypeOK, Asked, Complete, Target, rows, trail
<1>11. CASE UNCHANGED vars
  BY <1>11 DEF vars, rows, trail, clock, TypeOK, Asked, Complete, Target
<1> QED
  BY <1>1, <1>2, <1>3, <1>4, <1>6, <1>7, <1>8, <1>9, <1>10, <1>11 DEF Next, Decide

LEMMA TypeInvariant == Spec => []TypeInv
  BY InitTypeInv, NextTypeInv, PTL DEF Spec

\* Every reachable state of the queue has the declared types, for all constants.
THEOREM TypeCorrect == Spec => []TypeOK
  BY TypeInvariant, PTL DEF TypeInv

-----------------------------------------------------------------------------
(* The inductive invariant: what the row lock protects, what a commit leaves *)
(* behind, and what an effect remembers of the request that caused it.       *)

\* A row's lock is held by the open request about it, and by nobody else.
Locked ==
  /\ \A i \in Items, r \in Requests : lock[i] = r <=> Open(r) /\ Target(r) = i
  /\ \A i \in Items : lock[i] # None => status[i] = "pending"

\* A committed request left its outcome and its audit rows.
Settled ==
  \A r \in Requests : IsCommitted(r) =>
    /\ status[Target(r)] = Outcome(call[r].verb)
    /\ \A x \in DecisionRules(call[r]) : [item |-> Target(r), rule |-> x, by |-> r] \in audit

OneWinner ==
  \A q, r \in Requests : IsCommitted(q) /\ IsCommitted(r) /\ Target(q) = Target(r) => q = r

\* An audit row about a decision is true of the row and of the request.
AuditTrue ==
  \A a \in audit :
    \/ a.rule = "pending_approval"
    \/ a.rule = "expiry" /\ a.by = None /\ status[a.item] = "expired"
    \/ a.rule # "expiry" /\ a.by \in Requests /\ IsCommitted(a.by) /\ Target(a.by) = a.item

\* An effect is what its request was to execute, and the only one it caused.
EffectsTrue ==
  \A e \in effects :
    /\ pc[e.by] \in {"executed", "committed", "aborted"}
    /\ e.item = Target(e.by)
    /\ Executes(call[e.by])
    /\ e.payload = Executed(call[e.by])
    /\ \A f \in effects : f.by = e.by => f = e

IInv == TypeInv /\ Locked /\ Settled /\ OneWinner /\ AuditTrue /\ EffectsTrue

LEMMA InitIInv == Init => IInv
<1> SUFFICES ASSUME Init PROVE IInv
  OBVIOUS
<1>1. TypeInv
  BY InitTypeInv
<1>2. Locked /\ Settled /\ OneWinner /\ AuditTrue /\ EffectsTrue
  BY ConstantsAssumption
  DEF Init, Locked, Settled, OneWinner, AuditTrue, EffectsTrue, Open, IsCommitted
<1> QED BY <1>1, <1>2 DEF IInv

\* Steps that write neither a row nor what requests and effects are known by.
LEMMA QuietStep ==
  ASSUME IInv, TypeInv', UNCHANGED <<rows, lock, pc, call, trail>>
  PROVE  IInv'
BY DEF IInv, Locked, Settled, OneWinner, AuditTrue, EffectsTrue, Open, IsCommitted, Target,
       Executed, rows, trail

LEMMA StageIInv ==
  ASSUME IInv, TypeInv', NEW i \in Items, NEW k \in Kinds, NEW p \in Payloads, Stage(i, k, p)
  PROVE  IInv'
<1> USE DEF IInv, TypeInv, Stage
<1>1. Locked'
  BY DEF TypeOK, Locked, Open, Target
<1>2. Settled'
  BY DEF TypeOK, Settled, IsCommitted, Target, Asked
<1>3. OneWinner'
  BY DEF OneWinner, IsCommitted, Target
<1>4. AuditTrue'
  BY DEF TypeOK, AuditTrue, IsCommitted, Target, AuditRows
<1>5. EffectsTrue'
  BY DEF TypeOK, EffectsTrue, Executed, Target, Asked, Effects, Calls
<1> QED BY <1>1, <1>2, <1>3, <1>4, <1>5

LEMMA GetIInv ==
  ASSUME IInv, TypeInv', NEW r \in Requests, NEW v \in Verbs, NEW i \in Items,
         NEW e \in Payloads \cup {None}, Get(r, v, i, e)
  PROVE  IInv'
<1> USE DEF IInv, TypeInv, Get, rows, trail
<1>0. \A q \in Requests : q # r => call'[q] = call[q] /\ pc'[q] = pc[q]
  BY DEF TypeOK
<1>00. pc'[r] \in {"read", "aborted"} /\ pc[r] = "new"
  BY DEF TypeOK
<1>1. Locked'
  BY <1>0, <1>00 DEF TypeOK, Locked, Open, Target
<1>2. Settled'
  BY <1>0, <1>00 DEF TypeOK, Settled, IsCommitted, Target
<1>3. OneWinner'
  BY <1>0, <1>00 DEF OneWinner, IsCommitted, Target
<1>4. AuditTrue'
  BY <1>0, <1>00 DEF TypeOK, AuditTrue, IsCommitted, Target, AuditRows
<1>5. EffectsTrue'
  BY <1>0, <1>00 DEF TypeOK, EffectsTrue, Executed, Target, Effects
<1> QED BY <1>1, <1>2, <1>3, <1>4, <1>5

LEMMA ClaimIInv ==
  ASSUME IInv, TypeInv', NEW r \in Requests, Claim(r)
  PROVE  IInv'
<1> USE ConstantsAssumption DEF IInv, TypeInv, Claim, rows, trail, clock
<1>0. Target(r) \in Items /\ pc'[r] \in {"claimed", "aborted"} /\ pc[r] = "read"
  BY DEF TypeOK, Asked, Target, Calls
<1>00. \A q \in Requests : q # r => pc'[q] = pc[q]
  BY DEF TypeOK
<1>1. Locked'
  BY <1>0, <1>00 DEF TypeOK, Locked, Open, Target, StillPending
<1>2. Settled'
  BY <1>0, <1>00 DEF Settled, IsCommitted, Target
<1>3. OneWinner'
  BY <1>0, <1>00 DEF OneWinner, IsCommitted, Target
<1>4. AuditTrue'
  BY <1>0, <1>00 DEF TypeOK, AuditTrue, IsCommitted, Target, AuditRows
<1>5. EffectsTrue'
  BY <1>0, <1>00 DEF TypeOK, EffectsTrue, Executed, Target, Effects
<1> QED BY <1>1, <1>2, <1>3, <1>4, <1>5

LEMMA ExecIInv ==
  ASSUME IInv, TypeInv', NEW r \in Requests, Exec(r)
  PROVE  IInv'
<1> USE DEF IInv, TypeInv, Exec, rows, clock
<1>00. \A q \in Requests : q # r => pc'[q] = pc[q]
  BY DEF TypeOK
<1>0. pc[r] = "claimed" /\ pc'[r] = "executed"
  BY DEF TypeOK
<1>1. Locked'
  BY <1>0, <1>00 DEF TypeOK, Locked, Open, Target
<1>2. Settled'
  BY <1>0, <1>00 DEF Settled, IsCommitted, Target
<1>3. OneWinner'
  BY <1>0, <1>00 DEF OneWinner, IsCommitted, Target
<1>4. AuditTrue'
  BY <1>0, <1>00 DEF TypeOK, AuditTrue, IsCommitted, Target, AuditRows
<1>5. EffectsTrue'
  <2>1. \A e \in effects : e.by \in Requests /\ e.by # r
    BY <1>0 DEF EffectsTrue, TypeOK, Effects
  <2> QED
    BY <1>0, <1>00, <2>1 DEF EffectsTrue, NeedsDatasource, Executed, Target
<1> QED BY <1>1, <1>2, <1>3, <1>4, <1>5

\* The claim still stands when its transaction commits.
LEMMA CommitFromPending ==
  ASSUME IInv, NEW r \in Requests, pc[r] \in {"claimed", "executed"}
  PROVE  /\ call[r] \in Calls /\ Target(r) \in Items
         /\ lock[Target(r)] = r /\ status[Target(r)] = "pending"
<1>1. call[r] \in Calls /\ Target(r) \in Items
  BY DEF IInv, TypeInv, Asked, Target, Calls
<1>2. lock[Target(r)] = r
  BY <1>1 DEF IInv, Locked, Open
<1>3. r # None
  BY ConstantsAssumption
<1> QED BY <1>1, <1>2, <1>3 DEF IInv, Locked

LEMMA CommitIInv ==
  ASSUME IInv, TypeInv', NEW r \in Requests, pc[r] \in {"claimed", "executed"},
         NEW n \in Items \cup {None}, CommitWith(r, n), n \in Items => status[n] = "absent"
  PROVE  IInv'
<1> USE ConstantsAssumption DEF IInv, TypeInv
<1> DEFINE i == Target(r)
<1>0. call[r] \in Calls /\ i \in Items /\ lock[i] = r /\ status[i] = "pending" /\ i # n
  BY CommitFromPending
<1>1. /\ status'[i] = Outcome(call[r].verb) /\ status'[i] \notin {"pending", "absent", "expired"}
      /\ \A j \in Items : j # i /\ j # n => status'[j] = status[j]
      /\ n \in Items => status'[n] = "pending"
  BY <1>0, OutcomeType DEF CommitWith, Target, Calls
<1>2. /\ call' = call /\ effects' = effects
      /\ pc'[r] = "committed" /\ \A q \in Requests : q # r => pc'[q] = pc[q]
      /\ lock'[i] = None /\ \A j \in Items : j # i => lock'[j] = lock[j]
      /\ audit' = audit \cup [item : {i}, rule : DecisionRules(call[r]), by : {r}]
  BY <1>0 DEF CommitWith, TypeOK, Target
<1>3. ASSUME NEW q \in Requests, IsCommitted(q)
      PROVE  Target(q) # i /\ Target(q) # n /\ q # r
  <2>1. call[q] \in Calls /\ status[Target(q)] = Outcome(call[q].verb) /\ status[Target(q)] # "absent"
    BY <1>3 DEF Settled, IsCommitted, Asked
  <2>2. status[Target(q)] \in {"approved", "rejected", "modified"}
    BY <2>1, OutcomeType DEF Calls
  <2>3. Target(q) # i /\ (n \in Items => Target(q) # n)
    BY <1>0, <2>2
  <2>4. Target(q) \in Items
    BY <2>1 DEF Target, Calls
  <2> QED BY <1>3, <2>3, <2>4 DEF IsCommitted
<1>4. Locked'
  <2>1. \A j \in Items, q \in Requests : lock'[j] = q <=> (pc'[q] \in {"claimed", "executed"} /\ Target(q) = j)
    BY <1>0, <1>2 DEF Locked, Open
  <2>2. \A j \in Items : lock'[j] # None => status'[j] = "pending"
    BY <1>0, <1>1, <1>2 DEF Locked
  <2> QED BY <1>2, <2>1, <2>2 DEF Locked, Open, Target
<1>5. Settled'
  <2>1. ASSUME NEW q \in Requests, pc'[q] = "committed", q # r
        PROVE  /\ status'[Target(q)] = Outcome(call[q].verb)
               /\ \A x \in DecisionRules(call[q]) : [item |-> Target(q), rule |-> x, by |-> q] \in audit'
    <3>1. IsCommitted(q) /\ Target(q) \in Items
      BY <1>2, <2>1 DEF IsCommitted, Asked, Target, Calls
    <3> QED BY <1>1, <1>2, <1>3, <3>1 DEF Settled
  <2>2. \A x \in DecisionRules(call[r]) : [item |-> i, rule |-> x, by |-> r] \in audit'
    BY <1>2
  <2> QED BY <1>1, <1>2, <2>1, <2>2 DEF Settled, IsCommitted, Target, DecisionRules, Restages
<1>6. OneWinner'
  <2>1. \A q \in Requests : pc'[q] = "committed" /\ q # r => IsCommitted(q)
    BY <1>2 DEF IsCommitted
  <2> QED BY <1>2, <1>3, <2>1 DEF OneWinner, IsCommitted, Target
<1>7. AuditTrue'
  <2>1. ASSUME NEW a \in audit
        PROVE  \/ a.rule = "pending_approval"
               \/ a.rule = "expiry" /\ a.by = None /\ status'[a.item] = "expired"
               \/ a.rule # "expiry" /\ a.by \in Requests /\ pc'[a.by] = "committed" /\ Target(a.by) = a.item
    <3>1. a.item \in Items
      BY DEF TypeOK, AuditRows
    <3>2. n \in Items => status[n] # "expired"
      OBVIOUS
    <3> QED BY <1>0, <1>1, <1>2, <3>1, <3>2 DEF AuditTrue, IsCommitted
  <2>2. ASSUME NEW a \in [item : {i}, rule : DecisionRules(call[r]), by : {r}]
        PROVE  a.rule # "expiry" /\ a.by \in Requests /\ pc'[a.by] = "committed" /\ Target(a.by) = a.item
    BY <1>0, <1>2, DecisionRulesType
  <2> QED BY <1>2, <2>1, <2>2 DEF AuditTrue, IsCommitted, Target
<1>8. EffectsTrue'
  <2>1. ASSUME NEW e \in effects
        PROVE  e.by \in Requests /\ call[e.by] \in Calls /\ call[e.by].item \in Items
               /\ status[call[e.by].item] # "absent"
    BY DEF EffectsTrue, Asked, Target, TypeOK, Effects, Calls
  <2>2. \A j \in Items : status[j] # "absent" => payload'[j] = payload[j]
    BY <1>0 DEF CommitWith, TypeOK
  <2>3. \A e \in effects : Executed(call[e.by])' = Executed(call[e.by])
    BY <1>2, <2>1, <2>2 DEF Executed
  <2> QED BY <1>2, <2>1, <2>3 DEF EffectsTrue, Target, Executes, Restages
<1> QED BY <1>4, <1>5, <1>6, <1>7, <1>8

LEMMA RollbackIInv ==
  ASSUME IInv, TypeInv', NEW r \in Requests, Rollback(r)
  PROVE  IInv'
<1> USE ConstantsAssumption DEF IInv, TypeInv, Rollback, rows, trail, clock
<1>0. /\ pc[r] \in {"read", "claimed", "executed"} /\ pc'[r] = "aborted"
      /\ \A q \in Requests : q # r => pc'[q] = pc[q]
      /\ \A j \in Items : lock'[j] = IF lock[j] = r THEN None ELSE lock[j]
  BY DEF TypeOK
<1>1. Locked'
  BY <1>0 DEF Locked, Open, Target
<1>2. Settled'
  BY <1>0 DEF Settled, IsCommitted, Target
<1>3. OneWinner'
  BY <1>0 DEF OneWinner, IsCommitted, Target
<1>4. AuditTrue'
  BY <1>0 DEF TypeOK, AuditTrue, IsCommitted, Target, AuditRows
<1>5. EffectsTrue'
  BY <1>0 DEF TypeOK, EffectsTrue, Executed, Target, Effects
<1> QED BY <1>1, <1>2, <1>3, <1>4, <1>5

LEMMA ExpireOneIInv ==
  ASSUME IInv, TypeInv', NEW s \in Sweepers, NEW i \in Items, ExpireOne(s, i)
  PROVE  IInv'
<1> USE ConstantsAssumption DEF IInv, TypeInv, ExpireOne, StillPending, clock
<1>0. CASE status[i] # "pending"
  BY <1>0, QuietStep DEF rows, trail
<1>00. CASE status[i] = "pending"
  <2>1. /\ status'[i] = "expired" /\ \A j \in Items : j # i => status'[j] = status[j]
        /\ pc' = pc /\ call' = call /\ lock' = lock /\ effects' = effects /\ payload' = payload
        /\ audit' = audit \cup {[item |-> i, rule |-> "expiry", by |-> None]}
    BY <1>00 DEF TypeOK
  <2>2. Locked'
    BY <2>1 DEF Locked, Open, Target
  <2>3. Settled'
    <3>1. ASSUME NEW q \in Requests, IsCommitted(q)
          PROVE  Target(q) \in Items /\ Target(q) # i
      BY <1>00, <3>1, OutcomeType DEF Settled, IsCommitted, Asked, Target, Calls
    <3> QED BY <2>1, <3>1 DEF Settled, IsCommitted, Target
  <2>4. OneWinner'
    BY <2>1 DEF OneWinner, IsCommitted, Target
  <2>5. AuditTrue'
    BY <1>00, <2>1 DEF TypeOK, AuditTrue, IsCommitted, Target, AuditRows
  <2>6. EffectsTrue'
    BY <2>1 DEF EffectsTrue, Executed, Target
  <2> QED BY <2>2, <2>3, <2>4, <2>5, <2>6
<1> QED BY <1>0, <1>00

LEMMA NextIInv == IInv /\ [Next]_vars => IInv'
<1> SUFFICES ASSUME IInv, [Next]_vars PROVE IInv'
  OBVIOUS
<1>0. TypeInv'
  BY NextTypeInv DEF IInv
<1>1. ASSUME NEW r \in Requests, Commit(r)
      PROVE  IInv'
  <2>1. pc[r] \in {"claimed", "executed"}
    BY <1>1 DEF Commit
  <2>2. CASE Restages(call[r])
    BY <1>0, <1>1, <2>1, <2>2, CommitIInv DEF Commit
  <2>3. CASE ~Restages(call[r])
    BY <1>0, <1>1, <2>1, <2>3, CommitIInv, ConstantsAssumption DEF Commit
  <2> QED BY <2>2, <2>3
<1>2. ASSUME NEW s \in Sweepers, SweepRead(s) \/ SweepFail(s)
      PROVE  IInv'
  BY <1>0, <1>2, QuietStep DEF SweepRead, SweepFail
<1>3. ASSUME NEW i \in Items, BecomesOverdue(i) \/ TargetChanges(i)
      PROVE  IInv'
  BY <1>0, <1>3, QuietStep DEF BecomesOverdue, TargetChanges
<1>4. CASE UNCHANGED vars
  BY <1>0, <1>4, QuietStep DEF vars
<1> QED
  BY <1>0, <1>1, <1>2, <1>3, <1>4, StageIInv, GetIInv, ClaimIInv, ExecIInv, RollbackIInv,
     ExpireOneIInv
  DEF Next, Decide

LEMMA Invariance == Spec => []IInv
  BY InitIInv, NextIInv, PTL DEF Spec

-----------------------------------------------------------------------------
(* What follows from it. *)

\* Of concurrent decisions and sweeps exactly one takes the row, however many
\* run: the audit trail never shows two deciders.
THEOREM OnlyOneDecides == Spec => []OneDecider
<1>1. IInv => OneDecider
  <2> SUFFICES ASSUME IInv, NEW a \in audit, NEW b \in audit, a.item = b.item,
                      "pending_approval" \notin {a.rule, b.rule}
               PROVE  a.by = b.by /\ ((a.rule = "expiry") <=> (b.rule = "expiry"))
    BY DEF OneDecider
  <2> USE DEF IInv, TypeInv
  <2>1. CASE a.rule = "expiry" /\ b.rule = "expiry"
    BY <2>1, ConstantsAssumption DEF AuditTrue
  <2>2. CASE a.rule # "expiry" /\ b.rule # "expiry"
    BY <2>2 DEF AuditTrue, OneWinner
  <2>3. ASSUME NEW x \in audit, NEW y \in audit, x.item = y.item, x.rule = "expiry",
               y.rule \notin {"expiry", "pending_approval"}
        PROVE  FALSE
    <3>1. status[x.item] = "expired" /\ y.by \in Requests /\ IsCommitted(y.by) /\ Target(y.by) = y.item
      BY <2>3 DEF AuditTrue
    <3>2. call[y.by] \in Calls /\ status[y.item] = Outcome(call[y.by].verb)
      BY <3>1 DEF Settled, Asked, IsCommitted
    <3> QED BY <2>3, <3>1, <3>2, OutcomeType DEF Calls
  <2> QED BY <2>1, <2>2, <2>3
<1> QED BY <1>1, Invariance, PTL

\* For any number of requests, a second write for an item means a rollback of a
\* request that had already written.
THEOREM SecondWriteNeedsRollback == Spec => []SecondEffectFollowsRollback
<1>1. IInv => SecondEffectFollowsRollback
  <2> SUFFICES ASSUME IInv, NEW e \in effects, NEW f \in effects, e.item = f.item, e # f,
                      pc[e.by] # "aborted", pc[f.by] # "aborted"
               PROVE  FALSE
    BY DEF SecondEffectFollowsRollback
  <2> USE DEF IInv, TypeInv
  <2>1. e.by \in Requests /\ f.by \in Requests /\ e.by # f.by /\ e.item \in Items
    BY DEF TypeOK, Effects, EffectsTrue
  <2>2. /\ pc[e.by] \in {"executed", "committed"} /\ pc[f.by] \in {"executed", "committed"}
        /\ Target(e.by) = e.item /\ Target(f.by) = e.item
    BY DEF EffectsTrue
  <2>3. ASSUME NEW p \in Requests, NEW q \in Requests, pc[p] = "executed", pc[q] = "committed"
        PROVE  Target(p) # Target(q)
    <3>1. Target(p) \in Items /\ lock[Target(p)] = p
      BY <2>3, CommitFromPending
    <3>2. status[Target(p)] = "pending"
      BY <2>3, CommitFromPending
    <3>3. call[q] \in Calls /\ status[Target(q)] = Outcome(call[q].verb)
      BY <2>3 DEF Settled, Asked, IsCommitted
    <3> QED BY <3>2, <3>3, OutcomeType DEF Calls
  <2>4. CASE pc[e.by] = "executed" /\ pc[f.by] = "executed"
    BY <2>1, <2>2, <2>4 DEF Locked, Open
  <2>5. CASE pc[e.by] = "committed" /\ pc[f.by] = "committed"
    BY <2>1, <2>2, <2>5 DEF OneWinner, IsCommitted
  <2> QED BY <2>1, <2>2, <2>3, <2>4, <2>5
<1> QED BY <1>1, Invariance, PTL

\* A write that was not rolled back is covered by an open claim or by the decision
\* that stands, and that decision is in the audit trail.
THEOREM WritesAreAuthorized == Spec => []EffectIsAuthorized
<1>1. IInv => EffectIsAuthorized
  <2> SUFFICES ASSUME IInv, NEW e \in effects, pc[e.by] # "aborted"
               PROVE  \/ lock[e.item] = e.by /\ status[e.item] = "pending"
                      \/ /\ status[e.item] \in {"approved", "modified"}
                         /\ [item |-> e.item, by |-> e.by,
                             rule |-> IF status[e.item] = "approved" THEN "approve"
                                      ELSE "modify.human_delta"] \in audit
    BY DEF EffectIsAuthorized
  <2> USE DEF IInv, TypeInv
  <2>1. /\ e.by \in Requests /\ pc[e.by] \in {"executed", "committed"} /\ e.item = Target(e.by)
        /\ Executes(call[e.by]) /\ call[e.by] \in Calls
    BY DEF TypeOK, Effects, EffectsTrue, Asked
  <2>2. CASE pc[e.by] = "executed"
    BY <2>1, <2>2, CommitFromPending
  <2>3. CASE pc[e.by] = "committed"
    <3> DEFINE c == call[e.by]
    <3>1. /\ status[e.item] = Outcome(c.verb)
          /\ \A x \in DecisionRules(c) : [item |-> e.item, rule |-> x, by |-> e.by] \in audit
      BY <2>1, <2>3 DEF Settled, IsCommitted
    <3>2. CASE c.verb = "approve"
      <4>1. Outcome(c.verb) = "approved" /\ "approve" \in DecisionRules(c)
        BY <3>2 DEF Outcome, DecisionRules, Restages
      <4> QED BY <3>1, <4>1
    <3>3. CASE c.verb = "modify"
      BY <2>1, <3>1, <3>3 DEF Outcome, DecisionRules, Executes
    <3> QED BY <2>1, <3>2, <3>3 DEF Executes
  <2> QED BY <2>1, <2>2, <2>3
<1> QED BY <1>1, Invariance, PTL

\* No edit, and no edit of an edit, carries a confirm-first payload past the queue.
THEOREM EditsNeverEscalate == Spec => []YellowOnlyAsStaged
<1>1. IInv => YellowOnlyAsStaged
  BY DEF IInv, TypeInv, YellowOnlyAsStaged, EffectsTrue, Executes, Restages, Executed, Target,
         TypeOK, Effects, Asked
<1> QED BY <1>1, Invariance, PTL

\* Only the holder of a claim writes, and no step undoes a decision.
THEOREM DecisionsAreFinal == Spec => DecidedIsFinal
<1>1. IInv /\ [Next]_vars =>
        [/\ \A e \in effects' \ effects : status[e.item] = "pending" /\ lock[e.item] = e.by
         /\ \A i \in Items : status[i] \in Decisions => status'[i] = status[i]]_vars
  <2> SUFFICES ASSUME IInv, Next
               PROVE  /\ \A e \in effects' \ effects : status[e.item] = "pending" /\ lock[e.item] = e.by
                      /\ \A i \in Items : status[i] \in Decisions => status'[i] = status[i]
    OBVIOUS
  <2> USE DEF IInv, TypeInv
  <2>1. ASSUME NEW i \in Items, NEW k \in Kinds, NEW p \in Payloads, Stage(i, k, p)
        PROVE  effects' = effects /\ \A j \in Items : status[j] \in Decisions => status'[j] = status[j]
    BY <2>1 DEF Stage, TypeOK, Decisions
  <2>2. ASSUME NEW r \in Requests, Exec(r)
        PROVE  /\ \A e \in effects' \ effects : status[e.item] = "pending" /\ lock[e.item] = e.by
               /\ status' = status
    <3>1. lock[Target(r)] = r /\ status[Target(r)] = "pending"
      BY <2>2, CommitFromPending DEF Exec
    <3> QED BY <2>2, <3>1 DEF Exec, rows
  <2>3. ASSUME NEW r \in Requests, Commit(r)
        PROVE  effects' = effects /\ \A j \in Items : status[j] \in Decisions => status'[j] = status[j]
    <3>1. status[Target(r)] = "pending"
      BY <2>3, CommitFromPending DEF Commit
    <3>2. PICK n \in Items \cup {None} : CommitWith(r, n) /\ (n \in Items => status[n] = "absent")
      BY <2>3, ConstantsAssumption DEF Commit
    <3>3. effects' = effects
      BY <3>2 DEF CommitWith
    <3>4. \A j \in Items : j # Target(r) /\ j # n => status'[j] = status[j]
      BY <3>2 DEF CommitWith, Target
    <3> QED BY <3>1, <3>2, <3>3, <3>4 DEF Decisions
  <2>4. ASSUME NEW s \in Sweepers, NEW i \in Items, ExpireOne(s, i)
        PROVE  effects' = effects /\ \A j \in Items : status[j] \in Decisions => status'[j] = status[j]
    BY <2>4 DEF ExpireOne, StillPending, Decisions, TypeOK
  <2>5. ASSUME effects' = effects, status' = status
        PROVE  /\ \A e \in effects' \ effects : status[e.item] = "pending" /\ lock[e.item] = e.by
               /\ \A i \in Items : status[i] \in Decisions => status'[i] = status[i]
    BY <2>5
  <2> QED
    BY <2>1, <2>2, <2>3, <2>4, <2>5
    DEF Next, Decide, Get, Claim, Rollback, SweepRead, SweepFail, BecomesOverdue, TargetChanges,
        rows, trail
<1> QED BY <1>1, Invariance, PTL DEF Spec, DecidedIsFinal

-----------------------------------------------------------------------------
(* What the outbox says of the rows. *)

\* An event is about an expired row, or about the row of a committed request that
\* announces; the item a restaging opened is one of the same kind, confirm-first.
EventsTrue ==
  \A v \in outbox :
    \/ status[v.item] = "expired" /\ v.decision = "expired" /\ v.restagedAs = None
    \/ \E r \in Requests :
         /\ IsCommitted(r) /\ Target(r) = v.item
         /\ v.decision = Outcome(call[r].verb)
         /\ v.restagedAs # None =>
              /\ Restages(call[r])
              /\ status[v.restagedAs] # "absent"
              /\ kind[v.restagedAs] = kind[v.item]
              /\ payload[v.restagedAs] \in Yellow

EventsUnique ==
  \A v, w \in outbox :
    v.item = w.item \/ (v.restagedAs # None /\ v.restagedAs = w.restagedAs) => v = w

Accounted(i) ==
  \/ \E v \in outbox : v.item = i
  \/ \E a \in audit : a.item = i /\ a.rule = "modify.human_delta"
  \/ IF status[i] = "expired" THEN ~SweepEmits ELSE ~DeciderEmits

EventInv == EventsTrue /\ EventsUnique /\ \A i \in Items : status[i] \in Decisions => Accounted(i)

LEMMA InitEventInv == Init => EventInv
  BY DEF Init, EventInv, EventsTrue, EventsUnique, Decisions

\* The row of a committed request is decided, and so is the row of an event.
LEMMA EventRows ==
  ASSUME IInv, EventInv, NEW v \in outbox
  PROVE  /\ v.item \in Items /\ v.restagedAs \in Items \cup {None}
         /\ status[v.item] = v.decision
         /\ status[v.item] \in Decisions
         /\ v.restagedAs # None => status[v.item] = "modified" /\ status[v.restagedAs] # "absent"
<1> USE DEF IInv, TypeInv
<1>1. v.item \in Items /\ v.restagedAs \in Items \cup {None} /\ v.decision \in Decisions
  BY DEF TypeOK, Events
<1>2. CASE status[v.item] = "expired" /\ v.decision = "expired" /\ v.restagedAs = None
  BY <1>1, <1>2
<1>3. ASSUME NEW r \in Requests, IsCommitted(r), Target(r) = v.item,
             v.decision = Outcome(call[r].verb),
             v.restagedAs # None => Restages(call[r]) /\ status[v.restagedAs] # "absent"
      PROVE  /\ status[v.item] = v.decision
             /\ v.restagedAs # None => status[v.item] = "modified" /\ status[v.restagedAs] # "absent"
  <2>1. status[v.item] = v.decision
    BY <1>3 DEF Settled
  <2>2. v.restagedAs # None => Outcome(call[r].verb) = "modified"
    BY <1>3 DEF Restages, Outcome
  <2> QED BY <1>3, <2>1, <2>2
<1> QED BY <1>1, <1>2, <1>3 DEF EventInv, EventsTrue

\* Steps that write no row, event or audit row and leave committed requests alone.
LEMMA CalmStep ==
  ASSUME EventInv, UNCHANGED <<rows, outbox, audit>>,
         \A q \in Requests : IsCommitted(q) => pc'[q] = pc[q] /\ call'[q] = call[q]
  PROVE  EventInv'
<1>1. EventsTrue'
  BY DEF EventInv, EventsTrue, IsCommitted, Target, rows, Restages
<1>2. EventsUnique'
  BY DEF EventInv, EventsUnique
<1>3. \A i \in Items : status'[i] \in Decisions => Accounted(i)'
  BY DEF EventInv, Accounted, rows
<1> QED BY <1>1, <1>2, <1>3 DEF EventInv

LEMMA StageEvents ==
  ASSUME IInv, EventInv, NEW i \in Items, NEW k \in Kinds, NEW p \in Payloads, Stage(i, k, p)
  PROVE  EventInv'
<1> USE DEF IInv, TypeInv
<1>1. /\ outbox' = outbox /\ audit \subseteq audit' /\ pc' = pc /\ call' = call
      /\ \A j \in Items : status[j] # "absent" =>
           status'[j] = status[j] /\ kind'[j] = kind[j] /\ payload'[j] = payload[j]
      /\ status'[i] = "pending" /\ \A j \in Items : j # i => status'[j] = status[j]
  BY DEF Stage, TypeOK
<1>2. EventsTrue'
  <2>1. \A v \in outbox : /\ v.item \in Items /\ status[v.item] # "absent"
                          /\ v.restagedAs # None => v.restagedAs \in Items /\ status[v.restagedAs] # "absent"
    BY EventRows DEF Decisions
  <2>2. ASSUME NEW v \in outbox, NEW r \in Requests,
               IsCommitted(r), Target(r) = v.item, v.decision = Outcome(call[r].verb),
               v.restagedAs # None => /\ Restages(call[r])
                                      /\ status[v.restagedAs] # "absent"
                                      /\ kind[v.restagedAs] = kind[v.item]
                                      /\ payload[v.restagedAs] \in Yellow
        PROVE  /\ pc'[r] = "committed" /\ call'[r].item = v.item
               /\ v.decision = Outcome(call'[r].verb)
               /\ v.restagedAs # None => /\ Restages(call'[r])
                                         /\ status'[v.restagedAs] # "absent"
                                         /\ kind'[v.restagedAs] = kind'[v.item]
                                         /\ payload'[v.restagedAs] \in Yellow
    BY <1>1, <2>1, <2>2 DEF IsCommitted, Target
  <2>3. ASSUME NEW v \in outbox, status[v.item] = "expired"
        PROVE  status'[v.item] = "expired"
    BY <1>1, <2>1, <2>3
  <2> QED BY <1>1, <2>2, <2>3 DEF EventInv, EventsTrue, IsCommitted, Target
<1>3. EventsUnique'
  BY <1>1 DEF EventInv, EventsUnique
<1>4. \A j \in Items : status'[j] \in Decisions => Accounted(j)'
  BY <1>1 DEF EventInv, Accounted, Decisions
<1> QED BY <1>2, <1>3, <1>4 DEF EventInv

LEMMA CommitEvents ==
  ASSUME IInv, EventInv, NEW r \in Requests, pc[r] \in {"claimed", "executed"},
         NEW n \in Items \cup {None}, CommitWith(r, n),
         IF Restages(call[r]) THEN n \in Items /\ status[n] = "absent" ELSE n = None
  PROVE  EventInv'
<1> USE ConstantsAssumption DEF IInv, TypeInv
<1> DEFINE i == Target(r)
           c == call[r]
           new == [item |-> i, decision |-> Outcome(c.verb), restagedAs |-> n]
<1>0. c \in Calls /\ i \in Items /\ status[i] = "pending" /\ i # n /\ i = c.item
  BY CommitFromPending DEF Target
<1>1. /\ status'[i] = Outcome(c.verb)
      /\ \A j \in Items : j # i /\ j # n =>
           status'[j] = status[j] /\ kind'[j] = kind[j] /\ payload'[j] = payload[j]
      /\ kind'[i] = kind[i] /\ payload'[i] = payload[i]
      /\ n \in Items => status'[n] = "pending" /\ kind'[n] = kind[i] /\ payload'[n] = c.edited
  BY <1>0 DEF CommitWith, TypeOK, RestagedPayload
<1>2. /\ call' = call
      /\ pc'[r] = "committed" /\ \A q \in Requests : q # r => pc'[q] = pc[q]
      /\ audit' = audit \cup [item : {i}, rule : DecisionRules(c), by : {r}]
      /\ outbox' = IF Announces(c) THEN outbox \cup {new} ELSE outbox
  BY <1>0 DEF CommitWith, TypeOK
<1>3. \A v \in outbox : /\ v.item \in Items /\ v.item # i /\ v.item # n
                        /\ v.restagedAs # None =>
                             v.restagedAs \in Items /\ v.restagedAs # n /\ status[v.restagedAs] # "absent"
  BY <1>0, EventRows DEF Decisions
<1>4. EventsTrue'
  <2>1. ASSUME NEW v \in outbox, NEW q \in Requests,
               IsCommitted(q), Target(q) = v.item, v.decision = Outcome(call[q].verb),
               v.restagedAs # None => /\ Restages(call[q])
                                      /\ status[v.restagedAs] # "absent"
                                      /\ kind[v.restagedAs] = kind[v.item]
                                      /\ payload[v.restagedAs] \in Yellow
        PROVE  /\ pc'[q] = "committed" /\ call'[q].item = v.item
               /\ v.decision = Outcome(call'[q].verb)
               /\ v.restagedAs # None => /\ Restages(call'[q])
                                         /\ status'[v.restagedAs] # "absent"
                                         /\ kind'[v.restagedAs] = kind'[v.item]
                                         /\ payload'[v.restagedAs] \in Yellow
    <3>1. q # r
      BY <2>1 DEF IsCommitted
    <3>2. pc'[q] = "committed" /\ call'[q].item = v.item /\ call'[q] = call[q]
      BY <1>2, <2>1, <3>1 DEF IsCommitted, Target
    <3>3. kind'[v.item] = kind[v.item]
      BY <1>1, <1>3
    <3>4. ASSUME v.restagedAs # None
          PROVE  /\ status'[v.restagedAs] # "absent"
                 /\ kind'[v.restagedAs] = kind[v.restagedAs]
                 /\ payload'[v.restagedAs] = payload[v.restagedAs]
      <4>1. v.restagedAs \in Items /\ v.restagedAs # n
        BY <1>3, <3>4
      <4>2. CASE v.restagedAs = i
        BY <1>0, <1>1, <4>2, OutcomeType DEF Calls
      <4>3. CASE v.restagedAs # i
        BY <1>1, <1>3, <3>4, <4>1, <4>3
      <4> QED BY <4>2, <4>3
    <3> QED BY <2>1, <3>2, <3>3, <3>4
  <2>2. ASSUME NEW v \in outbox, status[v.item] = "expired"
        PROVE  status'[v.item] = "expired"
    BY <1>1, <1>3, <2>2
  <2>3. /\ pc'[r] = "committed" /\ call'[r].item = new.item
        /\ new.decision = Outcome(call'[r].verb)
        /\ new.restagedAs # None => /\ Restages(call'[r])
                                    /\ status'[new.restagedAs] # "absent"
                                    /\ kind'[new.restagedAs] = kind'[new.item]
                                    /\ payload'[new.restagedAs] \in Yellow
    <3>1. new.item = i /\ new.restagedAs = n /\ new.decision = Outcome(c.verb)
      OBVIOUS
    <3>2. n # None => Restages(c) /\ n \in Items
      OBVIOUS
    <3>3. n # None => c.edited \in Yellow
      BY <3>2 DEF Restages
    <3> HIDE DEF new
    <3> QED BY <1>0, <1>1, <1>2, <3>1, <3>2, <3>3
  <2> HIDE DEF new
  <2> QED BY <1>2, <2>1, <2>2, <2>3 DEF EventInv, EventsTrue, IsCommitted, Target
<1>5. EventsUnique'
  <2>1. \A v \in outbox : /\ v.item # new.item
                          /\ ~ (v.restagedAs # None /\ v.restagedAs = new.restagedAs)
                          /\ ~ (new.restagedAs # None /\ new.restagedAs = v.restagedAs)
    BY <1>3
  <2> HIDE DEF new
  <2> QED BY <1>2, <2>1 DEF EventInv, EventsUnique
<1>6. \A j \in Items : status'[j] \in Decisions => Accounted(j)'
  <2>1. ASSUME NEW j \in Items, j # i, status'[j] \in Decisions
        PROVE  Accounted(j)'
    <3>1. j # n
      BY <1>1, <2>1 DEF Decisions
    <3>2. status'[j] = status[j] /\ Accounted(j)
      BY <1>1, <2>1, <3>1 DEF EventInv
    <3>3. outbox \subseteq outbox' /\ audit \subseteq audit'
      BY <1>2
    <3> QED BY <3>2, <3>3 DEF Accounted
  <2>2. CASE Announces(c)
    <3>1. new \in outbox' /\ new.item = i
      BY <1>2, <2>2
    <3> HIDE DEF new, i
    <3>2. \E v \in outbox' : v.item = i
      BY <3>1
    <3> QED BY <2>1, <3>2 DEF Accounted
  <2>3. CASE ~DeciderEmits
    <3>1. status'[i] # "expired"
      BY <1>0, <1>1, OutcomeType DEF Calls
    <3> HIDE DEF new, i
    <3> QED BY <2>1, <2>3, <3>1 DEF Accounted
  <2>4. CASE DeciderEmits /\ ~Announces(c)
    <3>1. "modify.human_delta" \in DecisionRules(c)
      BY <2>4 DEF Announces, DecisionRules
    <3>2. [item |-> i, rule |-> "modify.human_delta", by |-> r] \in audit'
      BY <1>2, <3>1
    <3>3. \E a \in audit' : a.item = i /\ a.rule = "modify.human_delta"
      BY <3>2
    <3> HIDE DEF new, i
    <3> QED BY <2>1, <3>3 DEF Accounted
  <2> QED BY <2>2, <2>3, <2>4
<1> QED BY <1>4, <1>5, <1>6 DEF EventInv

LEMMA ExpireOneEvents ==
  ASSUME IInv, EventInv, NEW s \in Sweepers, NEW i \in Items, ExpireOne(s, i)
  PROVE  EventInv'
<1> USE ConstantsAssumption DEF IInv, TypeInv
<1>1. CASE status[i] # "pending"
  BY <1>1, CalmStep DEF ExpireOne, StillPending, rows
<1>2. CASE status[i] = "pending"
  <2> DEFINE new == [item |-> i, decision |-> "expired", restagedAs |-> None]
  <2>1. /\ status'[i] = "expired" /\ \A j \in Items : j # i => status'[j] = status[j]
        /\ kind' = kind /\ payload' = payload /\ pc' = pc /\ call' = call
        /\ audit \subseteq audit'
        /\ outbox' = IF SweepEmits THEN outbox \cup {new} ELSE outbox
    BY <1>2 DEF ExpireOne, StillPending, TypeOK
  <2>2. \A v \in outbox : /\ v.item \in Items /\ v.item # i
                          /\ v.restagedAs # None => v.restagedAs \in Items
    BY <1>2, EventRows DEF Decisions
  <2>3. new.item = i /\ new.decision = "expired" /\ new.restagedAs = None
    OBVIOUS
  <2> HIDE DEF new
  <2>4. EventsTrue'
    <3>1. ASSUME NEW v \in outbox, NEW q \in Requests,
                 IsCommitted(q), Target(q) = v.item, v.decision = Outcome(call[q].verb),
                 v.restagedAs # None => /\ Restages(call[q])
                                        /\ status[v.restagedAs] # "absent"
                                        /\ kind[v.restagedAs] = kind[v.item]
                                        /\ payload[v.restagedAs] \in Yellow
          PROVE  /\ pc'[q] = "committed" /\ call'[q].item = v.item
                 /\ v.decision = Outcome(call'[q].verb)
                 /\ v.restagedAs # None => /\ Restages(call'[q])
                                           /\ status'[v.restagedAs] # "absent"
                                           /\ kind'[v.restagedAs] = kind'[v.item]
                                           /\ payload'[v.restagedAs] \in Yellow
      BY <2>1, <2>2, <3>1 DEF IsCommitted, Target
    <3>2. ASSUME NEW v \in outbox, status[v.item] = "expired"
          PROVE  status'[v.item] = "expired"
      BY <2>1, <2>2, <3>2
    <3> QED BY <2>1, <2>3, <3>1, <3>2 DEF EventInv, EventsTrue, IsCommitted, Target
  <2>5. EventsUnique'
    BY <2>1, <2>2, <2>3 DEF EventInv, EventsUnique
  <2>6. \A j \in Items : status'[j] \in Decisions => Accounted(j)'
    BY <2>1, <2>3 DEF EventInv, Accounted
  <2> QED BY <2>4, <2>5, <2>6 DEF EventInv
<1> QED BY <1>1, <1>2

LEMMA NextEventInv == IInv /\ EventInv /\ [Next]_vars => EventInv'
<1> SUFFICES ASSUME IInv, EventInv, [Next]_vars PROVE EventInv'
  OBVIOUS
<1> USE DEF IInv, TypeInv
<1>1. ASSUME NEW r \in Requests, Commit(r)
      PROVE  EventInv'
  BY <1>1, CommitEvents, ConstantsAssumption DEF Commit
<1>2. ASSUME NEW r \in Requests, Claim(r) \/ Exec(r) \/ Rollback(r)
      PROVE  EventInv'
  <2>1. pc[r] \in {"read", "claimed", "executed"}
    BY <1>2 DEF Claim, Exec, Rollback
  <2>2. /\ UNCHANGED <<rows, outbox, audit>>
        /\ \A q \in Requests : q # r => pc'[q] = pc[q]
        /\ call' = call
    BY <1>2 DEF Claim, Exec, Rollback, rows, trail, TypeOK
  <2> QED BY <2>1, <2>2, CalmStep DEF IsCommitted
<1>3. ASSUME NEW r \in Requests, NEW v \in Verbs, NEW i \in Items, NEW e \in Payloads \cup {None},
             Get(r, v, i, e)
      PROVE  EventInv'
  <2>1. /\ pc[r] = "new" /\ UNCHANGED <<rows, outbox, audit>>
        /\ \A q \in Requests : q # r => pc'[q] = pc[q] /\ call'[q] = call[q]
    BY <1>3 DEF Get, rows, trail, TypeOK
  <2> QED BY <2>1, CalmStep DEF IsCommitted
<1>4. ASSUME UNCHANGED <<rows, outbox, audit, pc, call>>
      PROVE  EventInv'
  BY <1>4, CalmStep
<1> QED
  BY <1>1, <1>2, <1>3, <1>4, StageEvents, ExpireOneEvents
  DEF Next, Decide, SweepRead, SweepFail, BecomesOverdue, TargetChanges, vars, rows, trail

LEMMA EventInvariance == Spec => []EventInv
  BY InitEventInv, NextEventInv, Invariance, PTL DEF Spec

\* A restaged item is spent without a write of its own, and exactly one item of
\* the same kind and still confirm-first replaces it.
THEOREM RestagingSpends == Spec => []RestageSpends
<1>1. IInv /\ EventInv => RestageSpends
  <2> SUFFICES ASSUME IInv, EventInv, NEW v \in outbox, v.restagedAs # None
               PROVE  /\ status[v.item] = "modified"
                      /\ kind[v.restagedAs] = kind[v.item] /\ payload[v.restagedAs] \in Yellow
                      /\ \A e \in effects : e.item = v.item => pc[e.by] = "aborted"
                      /\ \A w \in outbox : w.restagedAs = v.restagedAs => w = v
    BY DEF RestageSpends
  <2> USE DEF IInv, TypeInv
  <2>1. status[v.item] = "modified"
    BY EventRows
  <2>2. PICK r \in Requests :
          /\ IsCommitted(r) /\ Target(r) = v.item /\ Restages(call[r])
          /\ kind[v.restagedAs] = kind[v.item] /\ payload[v.restagedAs] \in Yellow
    BY DEF EventInv, EventsTrue
  <2>3. ASSUME NEW e \in effects, e.item = v.item, pc[e.by] # "aborted"
        PROVE  FALSE
    <3>1. /\ e.by \in Requests /\ pc[e.by] \in {"executed", "committed"}
          /\ Target(e.by) = v.item /\ Executes(call[e.by])
      BY <2>3 DEF TypeOK, Effects, EffectsTrue
    <3>2. CASE pc[e.by] = "executed"
      BY <2>1, <3>1, <3>2, CommitFromPending
    <3>3. CASE pc[e.by] = "committed"
      BY <2>2, <3>1, <3>3 DEF OneWinner, IsCommitted, Executes
    <3> QED BY <3>1, <3>2, <3>3
  <2>4. \A w \in outbox : w.restagedAs = v.restagedAs => w = v
    BY DEF EventInv, EventsUnique
  <2> QED BY <2>1, <2>2, <2>3, <2>4
<1> QED BY <1>1, Invariance, EventInvariance, PTL

\* No ghost and no double event, and no decision without one but a modify that
\* executed and an expiry by a worker that has no Emitter.
THEOREM OutboxTellsTheRows == Spec => []EventsMatchRows
<1>1. IInv /\ EventInv => EventsMatchRows
  <2> SUFFICES ASSUME IInv, EventInv PROVE EventsMatchRows
    OBVIOUS
  <2>1. \A v, w \in outbox : v.item = w.item => v = w
    BY DEF EventInv, EventsUnique
  <2>2. \A v \in outbox : status[v.item] = v.decision
    BY EventRows
  <2>3. \A i \in Items : status[i] \in Decisions => Accounted(i)
    BY DEF EventInv
  <2> QED BY <2>1, <2>2, <2>3 DEF EventsMatchRows, Accounted
<1> QED BY <1>1, Invariance, EventInvariance, PTL

-----------------------------------------------------------------------------
(* The step simulation of the abstract queue. *)

Deciders == [i \in Items |-> Decider(i)]

\* A committed request is the decider of its row, before and after a step.
LEMMA DeciderIsWinner ==
  ASSUME OneWinner, NEW i \in Items
  PROVE  /\ \A r \in Requests : IsCommitted(r) /\ Target(r) = i => Decider(i) = r
         /\ (\A r \in Requests : ~(IsCommitted(r) /\ Target(r) = i)) => Decider(i) = None
<1>1. ASSUME NEW r \in Requests, IsCommitted(r), Target(r) = i
      PROVE  Decider(i) = r
  <2>1. Decider(i) = CHOOSE q \in Requests : IsCommitted(q) /\ Target(q) = i
    BY <1>1 DEF Decider
  <2>2. Decider(i) \in Requests /\ IsCommitted(Decider(i)) /\ Target(Decider(i)) = i
    BY <1>1, <2>1
  <2> QED BY <1>1, <2>2 DEF OneWinner
<1>2. (\A r \in Requests : ~(IsCommitted(r) /\ Target(r) = i)) => Decider(i) = None
  BY DEF Decider
<1> QED BY <1>1, <1>2

LEMMA DeciderIsWinnerNext ==
  ASSUME OneWinner', NEW i \in Items
  PROVE  /\ \A r \in Requests : pc'[r] = "committed" /\ call'[r].item = i => Decider(i)' = r
         /\ (\A r \in Requests : ~(pc'[r] = "committed" /\ call'[r].item = i)) => Decider(i)' = None
<1> DEFINE won(r) == pc'[r] = "committed" /\ call'[r].item = i
<1>0. \A q, r \in Requests : won(q) /\ won(r) => q = r
  BY DEF OneWinner, IsCommitted, Target
<1>1. Decider(i)' = IF \E r \in Requests : won(r) THEN CHOOSE r \in Requests : won(r) ELSE None
  BY DEF Decider, IsCommitted, Target
<1>2. ASSUME NEW r \in Requests, won(r)
      PROVE  Decider(i)' = r
  <2>1. Decider(i)' = CHOOSE q \in Requests : won(q)
    BY <1>1, <1>2
  <2>2. Decider(i)' \in Requests /\ won(Decider(i)')
    BY <1>2, <2>1
  <2> QED BY <1>0, <1>2, <2>2
<1>3. (\A r \in Requests : ~won(r)) => Decider(i)' = None
  BY <1>1
<1> QED BY <1>2, <1>3

\* As long as nobody commits, nobody becomes or ceases to be a decider.
LEMMA DecidersStay ==
  ASSUME IInv, IInv',
         \A q \in Requests : /\ pc'[q] = "committed" <=> pc[q] = "committed"
                             /\ pc[q] = "committed" => call'[q] = call[q]
  PROVE  Deciders' = Deciders
<1>1. ASSUME NEW i \in Items
      PROVE  Decider(i)' = Decider(i)
  <2>1. CASE \E r \in Requests : IsCommitted(r) /\ Target(r) = i
    <3>1. PICK r \in Requests : IsCommitted(r) /\ Target(r) = i
      BY <2>1
    <3>2. Decider(i) = r
      BY <3>1, DeciderIsWinner DEF IInv
    <3>3. pc'[r] = "committed" /\ call'[r].item = i
      BY <3>1 DEF IsCommitted, Target
    <3>4. Decider(i)' = r
      BY <3>3, DeciderIsWinnerNext DEF IInv
    <3> QED BY <3>2, <3>4
  <2>2. CASE \A r \in Requests : ~(IsCommitted(r) /\ Target(r) = i)
    <3>1. Decider(i) = None
      BY <2>2, DeciderIsWinner DEF IInv
    <3>2. \A r \in Requests : ~(pc'[r] = "committed" /\ call'[r].item = i)
      BY <2>2 DEF IsCommitted, Target
    <3>3. Decider(i)' = None
      BY <3>2, DeciderIsWinnerNext DEF IInv
    <3> QED BY <3>1, <3>3
  <2> QED BY <2>1, <2>2
<1> QED BY <1>1 DEF Deciders

\* A commit makes its request the decider of its row and of no other.
LEMMA CommitDecides ==
  ASSUME IInv, IInv', NEW r \in Requests, pc[r] \in {"claimed", "executed"},
         pc' = [pc EXCEPT ![r] = "committed"], call' = call
  PROVE  /\ Deciders' = [Deciders EXCEPT ![Target(r)] = r]
         /\ \A j \in Items : Deciders[j] # r
<1>0. PICK i \in Items : i = Target(r) /\ status[i] = "pending"
  BY CommitFromPending
<1>1. pc'[r] = "committed" /\ \A q \in Requests : q # r => pc'[q] = pc[q]
  BY DEF IInv, TypeInv, TypeOK
<1>2. call'[r].item = i /\ \A q \in Requests : call'[q].item = Target(q)
  BY <1>0 DEF Target
<1>3. Decider(i)' = r
  BY <1>0, <1>1, <1>2, DeciderIsWinnerNext DEF IInv
<1>4. ASSUME NEW j \in Items, j # i
      PROVE  Decider(j)' = Decider(j) /\ Decider(j) # r
  <2>1. CASE \E q \in Requests : IsCommitted(q) /\ Target(q) = j
    <3>1. PICK q \in Requests : IsCommitted(q) /\ Target(q) = j
      BY <2>1
    <3>2. q # r
      BY <3>1 DEF IsCommitted
    <3>3. Decider(j) = q
      BY <3>1, DeciderIsWinner DEF IInv
    <3>4. Decider(j)' = q
      BY <1>1, <1>2, <3>1, <3>2, DeciderIsWinnerNext DEF IInv, IsCommitted
    <3> QED BY <3>2, <3>3, <3>4
  <2>2. CASE \A q \in Requests : ~(IsCommitted(q) /\ Target(q) = j)
    <3>1. Decider(j) = None
      BY <2>2, DeciderIsWinner DEF IInv
    <3>2. \A q \in Requests : ~(pc'[q] = "committed" /\ call'[q].item = j)
      BY <1>1, <1>2, <1>4, <2>2 DEF IsCommitted
    <3>3. Decider(j)' = None
      BY <3>2, DeciderIsWinnerNext DEF IInv
    <3>4. r # None
      BY ConstantsAssumption
    <3> QED BY <3>1, <3>3, <3>4
  <2> QED BY <2>1, <2>2
<1>5. Decider(i) # r
  <2>1. \A q \in Requests : IsCommitted(q) => Target(q) # i
    <3>1. ASSUME NEW q \in Requests, IsCommitted(q)
          PROVE  status[Target(q)] \in {"approved", "rejected", "modified"}
      BY <3>1, OutcomeType DEF IInv, Settled, TypeInv, Asked, IsCommitted, Calls
    <3> QED BY <1>0, <3>1
  <2>2. Decider(i) = None
    BY <1>0, <2>1, DeciderIsWinner DEF IInv
  <2> QED BY <2>2, ConstantsAssumption
<1>6. Deciders' = [j \in Items |-> IF j = i THEN r ELSE Deciders[j]]
  BY <1>3, <1>4 DEF Deciders
<1>7. \A j \in Items : Deciders[j] # r
  BY <1>4, <1>5 DEF Deciders
<1>8. [Deciders EXCEPT ![i] = r] = [j \in Items |-> IF j = i THEN r ELSE Deciders[j]]
  BY DEF Deciders
<1> QED BY <1>0, <1>6, <1>7, <1>8

\* Every step opens an item, settles one, replaces one, expires one, or is
\* invisible to the abstract queue.
LEMMA StepsQueue ==
  ASSUME IInv, IInv', [Next]_vars
  PROVE  [Queue!Next]_<<status, Deciders>>
<1> USE DEF IInv, TypeInv
<1>1. ASSUME NEW i \in Items, NEW k \in Kinds, NEW p \in Payloads, Stage(i, k, p)
      PROVE  Queue!Next
  <2>1. status[i] = "absent" /\ status' = [status EXCEPT ![i] = "pending"] /\ UNCHANGED <<pc, call>>
    BY <1>1 DEF Stage
  <2>2. Deciders' = Deciders
    BY <2>1, DecidersStay
  <2>3. {i} \in SUBSET Items
        /\ status' = [j \in Items |-> IF j \in {i} THEN "pending" ELSE status[j]]
    BY <2>1 DEF TypeOK
  <2> QED BY <2>1, <2>2, <2>3 DEF Queue!Next, Queue!OpenItems, Deciders
<1>2. ASSUME NEW r \in Requests, NEW v \in Verbs, NEW i \in Items,
             NEW e \in Payloads \cup {None}, Get(r, v, i, e)
      PROVE  UNCHANGED <<status, Deciders>>
  <2>1. /\ status' = status /\ pc[r] = "new" /\ pc'[r] \in {"read", "aborted"}
        /\ \A q \in Requests : q # r => pc'[q] = pc[q] /\ call'[q] = call[q]
    BY <1>2 DEF Get, rows, TypeOK
  <2> QED BY <2>1, DecidersStay
<1>3. ASSUME NEW r \in Requests, Claim(r) \/ Exec(r) \/ Rollback(r)
      PROVE  UNCHANGED <<status, Deciders>>
  <2>1. /\ status' = status /\ call' = call
        /\ pc[r] \in {"read", "claimed", "executed"} /\ pc'[r] \in {"claimed", "executed", "aborted"}
        /\ \A q \in Requests : q # r => pc'[q] = pc[q]
    BY <1>3 DEF Claim, Exec, Rollback, rows, TypeOK
  <2> QED BY <2>1, DecidersStay
<1>4. ASSUME NEW r \in Requests, Commit(r)
      PROVE  Queue!Next
  <2> DEFINE i == Target(r)
             c == call[r]
  <2>0. pc[r] \in {"claimed", "executed"}
    BY <1>4 DEF Commit
  <2>1. c \in Calls /\ i \in Items /\ status[i] = "pending" /\ i = c.item
    BY <2>0, CommitFromPending DEF Target
  <2>2. pc' = [pc EXCEPT ![r] = "committed"] /\ call' = call
    BY <1>4 DEF Commit, CommitWith
  <2>3. /\ Deciders' = [Deciders EXCEPT ![i] = r]
        /\ \A j \in Items : Deciders[j] # r
    BY <2>0, <2>2, CommitDecides
  <2>4. Outcome(c.verb) \in {"approved", "rejected", "modified"}
    BY <2>1, OutcomeType DEF Calls
  <2>5. ASSUME NEW n \in Items, Restages(c), status[n] = "absent", CommitWith(r, n)
        PROVE  Queue!Replace(i, r, n)
    <3>1. Outcome(c.verb) = "modified" /\ i # n
      BY <2>1, <2>5 DEF Restages, Outcome
    <3>2. status' = [status EXCEPT ![i] = "modified", ![n] = "pending"]
      BY <2>1, <2>5, <3>1 DEF CommitWith, TypeOK
    <3> HIDE DEF i, c
    <3> QED BY <2>1, <2>3, <2>5, <3>2 DEF Queue!Replace, Deciders
  <2>6. ASSUME ~Restages(c), CommitWith(r, None)
        PROVE  Queue!Settle(i, r, Outcome(c.verb))
    <3>1. status' = [status EXCEPT ![i] = Outcome(c.verb)]
      BY <2>1, <2>6, ConstantsAssumption DEF CommitWith, TypeOK
    <3> HIDE DEF i, c
    <3> QED BY <2>1, <2>3, <3>1 DEF Queue!Settle, Deciders
  <2>7. CASE Restages(c)
    BY <1>4, <2>1, <2>5, <2>7 DEF Commit, Queue!Next
  <2>8. CASE ~Restages(c)
    <3>1. Queue!Settle(i, r, Outcome(c.verb)) /\ Outcome(c.verb) \in Queue!Ends \ {"expired"}
      BY <1>4, <2>4, <2>6, <2>8 DEF Commit, Queue!Ends
    <3> HIDE DEF i, c
    <3> QED BY <2>1, <3>1 DEF Queue!Next
  <2> QED BY <2>7, <2>8
<1>5. ASSUME NEW s \in Sweepers, NEW i \in Items, ExpireOne(s, i)
      PROVE  [Queue!Next]_<<status, Deciders>>
  <2>1. UNCHANGED <<pc, call>>
    BY <1>5 DEF ExpireOne
  <2>2. Deciders' = Deciders
    BY <2>1, DecidersStay
  <2>3. CASE status[i] = "pending"
    BY <1>5, <2>2, <2>3 DEF ExpireOne, StillPending, Queue!Next, Queue!Expire, Deciders
  <2>4. CASE status[i] # "pending"
    BY <1>5, <2>2, <2>4 DEF ExpireOne, StillPending
  <2> QED BY <2>3, <2>4
<1>6. ASSUME UNCHANGED <<status, pc, call>>
      PROVE  UNCHANGED <<status, Deciders>>
  BY <1>6, DecidersStay
<1> QED
  BY <1>1, <1>2, <1>3, <1>4, <1>5, <1>6
  DEF Next, Decide, SweepRead, SweepFail, BecomesOverdue, TargetChanges, vars, rows

\* Seen from outside, an item is opened once and settled once, by one request or
\* by nobody, for any number of items, requests and sweeps.
THEOREM QueueIsImplemented == Spec => ImplementsQueue
<1>1. Init => Queue!Init
  <2> SUFFICES ASSUME Init PROVE Queue!Init
    OBVIOUS
  <2>1. \A i \in Items : Decider(i) = None
    BY DEF Init, Decider, IsCommitted
  <2> QED BY <2>1 DEF Init, Queue!Init
<1>2. IInv /\ IInv' /\ [Next]_vars => [Queue!Next]_<<status, [i \in Items |-> Decider(i)]>>
  BY StepsQueue DEF Deciders
<1> QED BY <1>1, <1>2, Invariance, PTL DEF Spec, ImplementsQueue, Queue!Spec

=============================================================================
