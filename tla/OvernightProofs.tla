--------------------------- MODULE OvernightProofs ---------------------------
(***************************************************************************)
(* Proofs about Overnight, for any number of deals, items, passes, humans   *)
(* and failures: what bounds the writes of an approved item, and what a pass *)
(* may overwrite.                                                            *)
(***************************************************************************)
EXTENDS Overnight, TLAPS

Runs == [times : Nat, with : Effects \cup {None}]

TypeInv ==
  /\ state    \in [Items -> States]
  /\ payload  \in [Items -> Effects \cup {None}]
  /\ target   \in [Items -> Deals \cup {None}]
  /\ outbox   \subseteq [item : Items, decision : States]
  /\ version  \in [Deals -> Nat] /\ edited \in [Deals -> Nat]
  /\ pass     \in [Passes -> PassRows]
  /\ handling \in [Items -> {"no", "received", "applied"}]
  /\ runs     \in [Items -> Runs]
  /\ fails    \in [Items -> Nat]

\* The items of an open pass are in nobody else's hands.
StagedApart ==
  \A p \in Passes : \A i \in pass[p].staged :
    state[i] = "absent" /\ \A q \in Passes \ {p} : i \notin pass[q].staged

\* Only a settled item was announced, so an item is announced once.
AnnouncedOnce ==
  \A i \in Items : EventOf(i) # {} => state[i] \notin {"absent", "pending"}

\* The writes of an item are paid for by failures, but for one: the one of the delivery that
\* is being handled, or of the one that was.
Paid(i) ==
  /\ EventOf(i) = {} => runs[i].times = 0 /\ handling[i] = "no"
  /\ runs[i].times <= 1 + fails[i]
  /\ handling[i] = "received" => runs[i].times <= fails[i]
  /\ handling[i] = "no" /\ EventOf(i) \ handled # {} => runs[i].times <= fails[i]

\* Somebody's write left a version the deal has, or had.
EditsAreVersions == \A d \in Deals : edited[d] <= version[d]

IInv == TypeInv /\ StagedApart /\ AnnouncedOnce /\ (\A i \in Items : Paid(i)) /\ EditsAreVersions

LEMMA InitHolds == Init => IInv
<1> SUFFICES ASSUME Init PROVE IInv
  OBVIOUS
<1> USE DEF Init, Queue!Init
<1>1. TypeInv
  <2>1. /\ state \in [Items -> States] /\ payload \in [Items -> Effects \cup {None}]
        /\ target \in [Items -> Deals \cup {None}]
        /\ outbox \subseteq [item : Items, decision : States]
        /\ version \in [Deals -> Nat] /\ edited \in [Deals -> Nat]
        /\ handling \in [Items -> {"no", "received", "applied"}]
        /\ fails \in [Items -> Nat]
    BY DEF States
  <2>2. pass \in [Passes -> PassRows]
    BY DEF PassRows, Plans
  <2>3. runs \in [Items -> Runs]
    BY DEF Runs
  <2> QED BY <2>1, <2>2, <2>3 DEF TypeInv
<1>2. StagedApart /\ AnnouncedOnce
  BY DEF StagedApart, AnnouncedOnce, EventOf
<1>3. \A i \in Items : Paid(i)
  BY DEF Paid, EventOf
<1>4. EditsAreVersions
  BY DEF EditsAreVersions
<1> QED BY <1>1, <1>2, <1>3, <1>4 DEF IInv

\* A step of a pass: it takes items nobody has, gives some up, or opens those it has.
LEMMA PassHolds ==
  ASSUME IInv, NEW p \in Passes,
         \/ \E plan \in [Deals -> Plans] : Produce(p, plan)
         \/ \E d \in Deals : ApplyGreen(p, d)
         \/ CommitPass(p) \/ FailPass(p)
  PROVE  IInv'
<1> USE DEF IInv
<1>0. pass[p] \in PassRows /\ pass[p].staged \subseteq Items
  BY DEF TypeInv, PassRows
<1>1. ASSUME NEW plan \in [Deals -> Plans], Produce(p, plan) PROVE IInv'
  <2>1. /\ pass' = [pass EXCEPT ![p].pc = "running", ![p].snap = version, ![p].plan = plan]
        /\ UNCHANGED <<state, payload, target, outbox, version, edited, handling, handled, runs, fails>>
    BY <1>1 DEF Produce, queue, deals, exec
  <2>2. pass' \in [Passes -> PassRows]
    <3> DEFINE row == [pass[p] EXCEPT !.pc = "running", !.snap = version, !.plan = plan]
    <3>1. row \in PassRows
      <4>1. version \in [Deals -> Nat]
        BY DEF TypeInv
      <4> QED BY <1>0, <4>1 DEF PassRows
    <3>2. pass' = [pass EXCEPT ![p] = row]
      BY <2>1
    <3> HIDE DEF row
    <3> QED BY <3>1, <3>2 DEF TypeInv
  <2>3. TypeInv'
    BY <2>1, <2>2 DEF TypeInv
  <2>4. \A q \in Passes : pass'[q].staged = pass[q].staged
    BY <2>1 DEF TypeInv, PassRows
  <2> QED BY <2>1, <2>3, <2>4 DEF StagedApart, AnnouncedOnce, Paid, EventOf, EditsAreVersions
<1>2. ASSUME NEW d \in Deals, ApplyGreen(p, d) PROVE IInv'
  <2>1. /\ version' = [version EXCEPT ![d] = @ + 1]
        /\ UNCHANGED <<state, outbox, edited, handling, handled, runs, fails>>
    BY <1>2 DEF ApplyGreen, exec
  <2>2. version' \in [Deals -> Nat] /\ EditsAreVersions'
    BY <2>1 DEF TypeInv, EditsAreVersions
  <2>3. CASE pass[p].plan[d] = "confirm"
    <3>1. PICK i \in FreshItems, e \in Effects :
            /\ pass'    = [pass EXCEPT ![p].wrote = @ \cup {d}, ![p].staged = @ \cup {i}]
            /\ payload' = [payload EXCEPT ![i] = e]
            /\ target'  = [target EXCEPT ![i] = d]
      BY <1>2, <2>3 DEF ApplyGreen
    <3>2. i \in Items /\ state[i] = "absent" /\ \A q \in Passes : i \notin pass[q].staged
      BY DEF FreshItems
    <3>3. pass' \in [Passes -> PassRows]
      BY <1>0, <3>1, <3>2 DEF TypeInv, PassRows
    <3>4. TypeInv'
      BY <2>1, <2>2, <3>1, <3>3 DEF TypeInv
    <3>5. /\ pass'[p].staged = pass[p].staged \cup {i}
          /\ \A q \in Passes \ {p} : pass'[q] = pass[q]
      BY <3>1 DEF TypeInv, PassRows
    <3>6. StagedApart'
      BY <2>1, <3>2, <3>5 DEF StagedApart
    <3> QED BY <2>1, <2>2, <3>4, <3>6 DEF AnnouncedOnce, Paid, EventOf
  <2>4. CASE pass[p].plan[d] # "confirm"
    <3>1. pass' = [pass EXCEPT ![p].wrote = @ \cup {d}] /\ UNCHANGED <<payload, target>>
      BY <1>2, <2>4 DEF ApplyGreen
    <3>2. pass' \in [Passes -> PassRows] /\ \A q \in Passes : pass'[q].staged = pass[q].staged
      BY <1>0, <3>1 DEF TypeInv, PassRows
    <3>3. TypeInv'
      BY <2>1, <2>2, <3>1, <3>2 DEF TypeInv
    <3> QED BY <2>1, <2>2, <3>2, <3>3 DEF StagedApart, AnnouncedOnce, Paid, EventOf
  <2> QED BY <2>3, <2>4
<1>3. CASE CommitPass(p)
  <2>1. /\ state' = [i \in Items |-> IF i \in pass[p].staged THEN "pending" ELSE state[i]]
        /\ pass' = [pass EXCEPT ![p].pc = "committed", ![p].staged = {}]
        /\ UNCHANGED <<payload, target, outbox, version, edited, handling, handled, runs, fails>>
    BY <1>3 DEF CommitPass, deals, exec
  <2>0. state' \in [Items -> States]
    BY <2>1 DEF TypeInv, States
  <2>2. pass' \in [Passes -> PassRows]
    <3> DEFINE row == [pass[p] EXCEPT !.pc = "committed", !.staged = {}]
    <3>1. row \in PassRows
      BY <1>0 DEF PassRows
    <3>2. pass' = [pass EXCEPT ![p] = row]
      BY <2>1
    <3> HIDE DEF row
    <3> QED BY <3>1, <3>2 DEF TypeInv
  <2>3. TypeInv'
    BY <2>0, <2>1, <2>2 DEF TypeInv
  <2>4. pass'[p].staged = {} /\ \A q \in Passes \ {p} : pass'[q] = pass[q]
    BY <2>1 DEF TypeInv, PassRows
  <2>5. \A q \in Passes : pass[q].staged \subseteq Items
    BY DEF TypeInv, PassRows
  <2>6. StagedApart'
    BY <2>1, <2>4, <2>5 DEF StagedApart
  <2>7. AnnouncedOnce'
    BY <2>1 DEF AnnouncedOnce, EventOf, StagedApart
  <2> QED BY <2>1, <2>3, <2>6, <2>7 DEF Paid, EventOf, EditsAreVersions
<1>4. CASE FailPass(p)
  <2>1. /\ pass' = [pass EXCEPT ![p].pc = "failed", ![p].staged = {}]
        /\ payload' = [i \in Items |-> IF i \in pass[p].staged THEN None ELSE payload[i]]
        /\ target' = [i \in Items |-> IF i \in pass[p].staged THEN None ELSE target[i]]
        /\ UNCHANGED <<state, outbox, version, edited, handling, handled, runs, fails>>
    BY <1>4 DEF FailPass, deals, exec
  <2>2. pass' \in [Passes -> PassRows]
    <3> DEFINE row == [pass[p] EXCEPT !.pc = "failed", !.staged = {}]
    <3>1. row \in PassRows
      BY <1>0 DEF PassRows
    <3>2. pass' = [pass EXCEPT ![p] = row]
      BY <2>1
    <3> HIDE DEF row
    <3> QED BY <3>1, <3>2 DEF TypeInv
  <2>3. TypeInv'
    BY <2>1, <2>2 DEF TypeInv
  <2>4. pass'[p].staged = {} /\ \A q \in Passes \ {p} : pass'[q] = pass[q]
    BY <2>1 DEF TypeInv, PassRows
  <2> QED BY <2>1, <2>3, <2>4 DEF StagedApart, AnnouncedOnce, Paid, EventOf, EditsAreVersions
<1> QED BY <1>1, <1>2, <1>3, <1>4

\* An item is settled and perhaps announced; others may be opened, which nobody has.
Settles(i, new, end) ==
  /\ state[i] = "pending" /\ new \subseteq FreshItems /\ i \notin new
  /\ end \in States \ {"absent", "pending"}
  /\ state' \in [Items -> States] /\ state'[i] = end
  /\ \A j \in new : state'[j] = "pending"
  /\ \A j \in Items \ (new \cup {i}) : state'[j] = state[j]
  /\ outbox' \in {outbox, outbox \cup {[item |-> i, decision |-> end]}}
  /\ payload' \in [Items -> Effects \cup {None}] /\ target' \in [Items -> Deals \cup {None}]
  /\ UNCHANGED <<deals, pass, exec>>

LEMMA SettleHolds ==
  ASSUME IInv, NEW i \in Items, NEW new, NEW end, Settles(i, new, end)
  PROVE  IInv'
<1> USE DEF IInv, Settles
<1>1. UNCHANGED <<version, edited, pass, handling, handled, runs, fails>>
  BY DEF deals, exec
<1>2. outbox' \subseteq [item : Items, decision : States]
  BY DEF TypeInv, States
<1>3. TypeInv'
  BY <1>1, <1>2 DEF TypeInv
<1>4. StagedApart'
  <2>1. \A q \in Passes : pass[q].staged \subseteq Items
    BY DEF TypeInv, PassRows
  <2> QED BY <1>1, <2>1 DEF StagedApart, FreshItems
<1>5. EventOf(i) = {} /\ \A j \in Items \ {i} : EventOf(j)' = EventOf(j)
  BY DEF AnnouncedOnce, EventOf
<1>6. AnnouncedOnce'
  <2> SUFFICES ASSUME NEW j \in Items, EventOf(j)' # {}
               PROVE  state'[j] \notin {"absent", "pending"}
    BY DEF AnnouncedOnce
  <2>1. CASE j = i
    BY <2>1
  <2>2. CASE j # i
    BY <1>5, <2>2 DEF AnnouncedOnce, FreshItems
  <2> QED BY <2>1, <2>2
<1>7. ASSUME NEW j \in Items PROVE Paid(j)'
  <2>1. CASE j = i
    <3>1. runs[i].times = 0 /\ handling[i] = "no" /\ fails[i] \in Nat
      BY <1>5 DEF Paid, TypeInv
    <3> QED BY <1>1, <2>1, <3>1 DEF Paid
  <2>2. CASE j # i
    BY <1>1, <1>5, <2>2 DEF Paid
  <2> QED BY <2>1, <2>2
<1>8. EditsAreVersions'
  BY <1>1 DEF EditsAreVersions
<1> QED BY <1>3, <1>4, <1>6, <1>7, <1>8

\* The decisions and the expiry are such steps.
LEMMA DecisionHolds ==
  ASSUME IInv, NEW i \in Items,
         \/ \E h \in Humans : \/ \E end \in {"approved", "rejected"} : Decide(i, h, end)
                              \/ \E e \in Effects : ModifyAtOnce(i, h, e)
                              \/ \E n \in Items, e \in Effects : Restage(i, h, n, e)
         \/ Expire(i)
  PROVE  IInv'
<1>0. /\ state \in [Items -> States] /\ payload \in [Items -> Effects \cup {None}]
      /\ target \in [Items -> Deals \cup {None}]
  BY DEF IInv, TypeInv
<1>1. ASSUME NEW h \in Humans, NEW end \in {"approved", "rejected"}, Decide(i, h, end) PROVE IInv'
  <2>1. /\ state[i] = "pending" /\ state' = [state EXCEPT ![i] = end]
        /\ outbox' = outbox \cup {[item |-> i, decision |-> end]}
        /\ UNCHANGED <<payload, target>> /\ UNCHANGED <<deals, pass, exec>>
    BY <1>1 DEF Decide, Queue!Settle, Announce
  <2>2. end \in States \ {"absent", "pending"}
    BY DEF States
  <2>3. /\ state' \in [Items -> States] /\ state'[i] = end
        /\ \A j \in {} : state'[j] = "pending"
        /\ \A j \in Items \ ({} \cup {i}) : state'[j] = state[j]
    BY <1>0, <2>1, <2>2
  <2>4. Settles(i, {}, end)
    BY <1>0, <2>1, <2>2, <2>3 DEF Settles
  <2> QED BY <2>4, SettleHolds
<1>2. ASSUME NEW h \in Humans, NEW e \in Effects, ModifyAtOnce(i, h, e) PROVE IInv'
  <2>1. /\ state[i] = "pending" /\ state' = [state EXCEPT ![i] = "modified"]
        /\ outbox' = outbox /\ UNCHANGED <<payload, target>> /\ UNCHANGED <<deals, pass, exec>>
    BY <1>2 DEF ModifyAtOnce, Queue!Settle
  <2>2. "modified" \in States \ {"absent", "pending"}
    BY DEF States
  <2>3. /\ state' \in [Items -> States] /\ state'[i] = "modified"
        /\ \A j \in {} : state'[j] = "pending"
        /\ \A j \in Items \ ({} \cup {i}) : state'[j] = state[j]
    BY <1>0, <2>1, <2>2
  <2>4. Settles(i, {}, "modified")
    BY <1>0, <2>1, <2>2, <2>3 DEF Settles
  <2> QED BY <2>4, SettleHolds
<1>3. ASSUME NEW h \in Humans, NEW n \in Items, NEW e \in Effects, Restage(i, h, n, e) PROVE IInv'
  <2>1. /\ n \in FreshItems /\ state[i] = "pending" /\ state[n] = "absent"
        /\ state' = [state EXCEPT ![i] = "modified", ![n] = "pending"]
        /\ outbox' = outbox \cup {[item |-> i, decision |-> "modified"]}
        /\ payload' = [payload EXCEPT ![n] = e] /\ target' = [target EXCEPT ![n] = target[i]]
        /\ UNCHANGED <<deals, pass, exec>>
    BY <1>3 DEF Restage, Queue!Replace, Announce
  <2>2. i \notin {n} /\ {n} \in SUBSET FreshItems
    BY <2>1
  <2>3. "modified" \in States \ {"absent", "pending"} /\ "pending" \in States
    BY DEF States
  <2>4. /\ state' \in [Items -> States] /\ state'[i] = "modified"
        /\ \A j \in {n} : state'[j] = "pending"
        /\ \A j \in Items \ ({n} \cup {i}) : state'[j] = state[j]
    BY <1>0, <2>1, <2>2, <2>3 DEF FreshItems
  <2>5. payload' \in [Items -> Effects \cup {None}] /\ target' \in [Items -> Deals \cup {None}]
    BY <1>0, <2>1
  <2>6. Settles(i, {n}, "modified")
    BY <2>1, <2>2, <2>3, <2>4, <2>5 DEF Settles
  <2> QED BY <2>6, SettleHolds
<1>4. CASE Expire(i)
  <2>1. /\ state[i] = "pending" /\ state' = [state EXCEPT ![i] = "expired"]
        /\ outbox' = outbox \cup {[item |-> i, decision |-> "expired"]}
        /\ UNCHANGED <<payload, target>> /\ UNCHANGED <<deals, pass, exec>>
    BY <1>4 DEF Expire, Queue!Expire, Announce
  <2>2. "expired" \in States \ {"absent", "pending"}
    BY DEF States
  <2>3. /\ state' \in [Items -> States] /\ state'[i] = "expired"
        /\ \A j \in {} : state'[j] = "pending"
        /\ \A j \in Items \ ({} \cup {i}) : state'[j] = state[j]
    BY <1>0, <2>1, <2>2
  <2>4. Settles(i, {}, "expired")
    BY <1>0, <2>1, <2>2, <2>3 DEF Settles
  <2> QED BY <2>4, SettleHolds
<1> QED BY <1>1, <1>2, <1>3, <1>4

\* What the executor does about one item leaves the others alone.
LEMMA ExecHolds ==
  ASSUME IInv, NEW i \in Items, Execute(i) \/ FailDelivery(i)
  PROVE  IInv'
<1> USE DEF IInv
<1>0. runs[i].times \in Nat /\ fails[i] \in Nat
  BY DEF TypeInv, Runs
<1>1. ASSUME UNCHANGED <<queue, edited, pass>>, version' \in [Deals -> Nat],
             \A d \in Deals : version[d] <= version'[d],
             handling' \in [Items -> {"no", "received", "applied"}], runs' \in [Items -> Runs],
             fails' \in [Items -> Nat], handled \subseteq handled',
             \A j \in Items \ {i} : /\ handling'[j] = handling[j] /\ runs'[j] = runs[j]
                                    /\ fails'[j] = fails[j],
             EventOf(i) # {},
             runs'[i].times <= 1 + fails'[i],
             handling'[i] = "received" => runs'[i].times <= fails'[i],
             handling'[i] = "no" /\ EventOf(i) \ handled' # {} => runs'[i].times <= fails'[i]
      PROVE  IInv'
  <2>1. UNCHANGED <<state, payload, target, outbox, edited, pass>>
    BY <1>1 DEF queue
  <2>2. TypeInv'
    BY <1>1, <2>1 DEF TypeInv
  <2>3. StagedApart' /\ AnnouncedOnce'
    BY <2>1 DEF StagedApart, AnnouncedOnce, EventOf
  <2>4. ASSUME NEW j \in Items PROVE Paid(j)'
    <3>1. \A k \in Items : EventOf(k)' = EventOf(k)
      BY <2>1 DEF EventOf
    <3>2. CASE j = i
      BY <1>1, <3>1, <3>2 DEF Paid
    <3>3. CASE j # i
      BY <1>1, <3>1, <3>3 DEF Paid
    <3> QED BY <3>2, <3>3
  <2>5. EditsAreVersions'
    <3> SUFFICES ASSUME NEW d \in Deals PROVE edited[d] <= version'[d]
      BY <2>1 DEF EditsAreVersions
    <3>1. edited[d] \in Nat /\ version[d] \in Nat /\ version'[d] \in Nat
      BY <1>1 DEF TypeInv
    <3> QED BY <1>1, <3>1 DEF EditsAreVersions
  <2> QED BY <2>2, <2>3, <2>4, <2>5
<1>2. handling[i] # "no" => EventOf(i) # {}
  BY DEF Paid
<1>3. ASSUME version' = version
      PROVE  version' \in [Deals -> Nat] /\ \A d \in Deals : version[d] <= version'[d]
  BY <1>3 DEF TypeInv
<1>4. CASE Receive(i)
  <2>1. /\ EventOf(i) \ handled # {} /\ handling[i] = "no"
        /\ handling' = [handling EXCEPT ![i] = "received"]
        /\ UNCHANGED <<queue, version, edited, pass, handled, runs, fails>>
    BY <1>4 DEF Receive, deals
  <2>2. runs[i].times <= fails[i]
    BY <2>1 DEF Paid
  <2> QED BY <1>0, <1>1, <1>3, <2>1, <2>2 DEF TypeInv
<1>5. CASE Ignore(i)
  <2>1. /\ handling[i] = "received" /\ handled' = handled \cup EventOf(i)
        /\ handling' = [handling EXCEPT ![i] = "no"]
        /\ UNCHANGED <<queue, version, edited, pass, runs, fails>>
    BY <1>5 DEF Ignore, deals
  <2>2. runs[i].times <= fails[i] /\ EventOf(i) \ handled' = {} /\ EventOf(i) # {}
    BY <1>2, <2>1 DEF Paid
  <2> QED BY <1>0, <1>1, <1>3, <2>1, <2>2 DEF TypeInv
<1>6. CASE Apply(i)
  <2> DEFINE n == runs[i].times + 1
             row == [times |-> n, with |-> payload[i]]
             t == target[i]
  <2>1. /\ handling[i] = "received"
        /\ version' = [version EXCEPT ![t] = @ + 1]
        /\ runs' = [runs EXCEPT ![i] = row]
        /\ handling' = [handling EXCEPT ![i] = "applied"]
        /\ UNCHANGED <<queue, edited, pass, handled, fails>>
    BY <1>6 DEF Apply
  <2>2. version' \in [Deals -> Nat] /\ \A d \in Deals : version[d] <= version'[d]
    <3> HIDE DEF t
    <3>1. version \in [Deals -> Nat]
      BY DEF TypeInv
    <3>2. version' = [d \in Deals |-> IF d = t THEN version[d] + 1 ELSE version[d]]
      BY <2>1, <3>1
    <3> QED BY <3>1, <3>2
  <2>3. n \in Nat /\ n <= 1 + fails[i] /\ EventOf(i) # {}
    BY <1>0, <1>2, <2>1 DEF Paid
  <2>4. row \in Runs /\ row.times = n
    <3>1. payload[i] \in Effects \cup {None}
      BY DEF TypeInv
    <3> HIDE DEF n
    <3> QED BY <2>3, <3>1 DEF Runs
  <2> HIDE DEF n, row
  <2>5. runs' \in [Items -> Runs] /\ runs'[i] = row /\ \A j \in Items \ {i} : runs'[j] = runs[j]
    BY <2>1, <2>4 DEF TypeInv
  <2> QED BY <1>1, <2>1, <2>2, <2>3, <2>4, <2>5 DEF TypeInv
<1>7. CASE Finish(i)
  <2>1. /\ handling[i] = "applied" /\ handled' = handled \cup EventOf(i)
        /\ handling' = [handling EXCEPT ![i] = "no"]
        /\ UNCHANGED <<queue, version, edited, pass, runs, fails>>
    BY <1>7 DEF Finish, deals
  <2>2. runs[i].times <= 1 + fails[i] /\ EventOf(i) \ handled' = {} /\ EventOf(i) # {}
    BY <1>2, <2>1 DEF Paid
  <2> QED BY <1>1, <1>3, <2>1, <2>2 DEF TypeInv
<1>8. CASE FailDelivery(i)
  <2>1. /\ handling[i] # "no" /\ fails' = [fails EXCEPT ![i] = @ + 1]
        /\ handling' = [handling EXCEPT ![i] = "no"]
        /\ UNCHANGED <<queue, version, edited, pass, handled, runs>>
    BY <1>8 DEF FailDelivery, deals
  <2>2. /\ fails' \in [Items -> Nat] /\ fails'[i] = fails[i] + 1
        /\ \A j \in Items \ {i} : fails'[j] = fails[j]
    BY <2>1 DEF TypeInv
  <2>3. runs[i].times <= fails'[i] /\ runs[i].times <= 1 + fails'[i]
    BY <1>0, <2>2 DEF Paid
  <2> QED BY <1>1, <1>2, <1>3, <2>1, <2>2, <2>3 DEF TypeInv
<1> QED BY <1>4, <1>5, <1>6, <1>7, <1>8 DEF Execute

LEMMA StepHolds == IInv /\ [Next]_vars => IInv'
<1> SUFFICES ASSUME IInv, [Next]_vars PROVE IInv'
  OBVIOUS
<1>1. ASSUME NEW d \in Deals, EditDeal(d) PROVE IInv'
  <2>1. /\ version' = [version EXCEPT ![d] = @ + 1] /\ edited' = [edited EXCEPT ![d] = version[d] + 1]
        /\ UNCHANGED <<state, payload, target, outbox, pass, handling, handled, runs, fails>>
    BY <1>1 DEF EditDeal, queue, exec
  <2>2. version' \in [Deals -> Nat] /\ edited' \in [Deals -> Nat] /\ EditsAreVersions'
    BY <2>1 DEF IInv, TypeInv, EditsAreVersions
  <2>3. TypeInv'
    BY <2>1, <2>2 DEF IInv, TypeInv
  <2> QED BY <2>1, <2>2, <2>3 DEF IInv, StagedApart, AnnouncedOnce, Paid, EventOf
<1>2. ASSUME NEW d \in Deals, ArchiveDeal(d) PROVE IInv'
  BY <1>2 DEF ArchiveDeal, queue, exec, IInv, TypeInv, StagedApart, AnnouncedOnce, Paid, EventOf,
              EditsAreVersions
<1>3. CASE UNCHANGED vars
  BY <1>3 DEF vars, queue, deals, exec, IInv, TypeInv, StagedApart, AnnouncedOnce, Paid, EventOf,
              EditsAreVersions
<1> QED BY <1>1, <1>2, <1>3, PassHolds, DecisionHolds, ExecHolds DEF Next

LEMMA Invariance == Spec => []IInv
  BY InitHolds, StepHolds, PTL DEF Spec

\* However passes, decisions, deliveries and failures interleave, the effect of an item is
\* written once more than its deliveries failed, at the most.
THEOREM RepeatsArePaidFor == Spec => []RepeatNeedsFailure
<1>1. IInv => RepeatNeedsFailure
  BY DEF IInv, Paid, RepeatNeedsFailure
<1> QED BY <1>1, Invariance, PTL

\* A pass writes a deal only in the version it read, so nobody's later write is lost to it.
THEOREM PassesKeepEdits == Spec => PassKeepsNewerEdits
<1>1. IInv /\ [Next]_vars => [PassSparesEdits]_vars
  <2> SUFFICES ASSUME IInv, Next, NEW p \in Passes, NEW d \in Deals,
                      d \in pass'[p].wrote, d \notin pass[p].wrote
               PROVE  edited[d] <= pass[p].snap[d]
    BY DEF PassSparesEdits
  <2> USE DEF IInv
  <2>0. pass \in [Passes -> PassRows] /\ pass' # pass
    BY DEF TypeInv
  <2>1. ASSUME NEW q \in Passes, NEW c \in Deals, ApplyGreen(q, c) PROVE edited[d] <= pass[p].snap[d]
    <3>1. \A r \in Passes \ {q} : pass'[r].wrote = pass[r].wrote
      BY <2>0, <2>1 DEF ApplyGreen, PassRows
    <3>2. pass'[q].wrote = pass[q].wrote \cup {c}
      BY <2>0, <2>1 DEF ApplyGreen, PassRows
    <3>3. p = q /\ d = c /\ version[d] = pass[p].snap[d]
      BY <2>1, <3>1, <3>2 DEF ApplyGreen, Fits
    <3> QED BY <3>3 DEF EditsAreVersions
  <2>2. ASSUME NEW q \in Passes,
               CommitPass(q) \/ FailPass(q) \/ \E plan \in [Deals -> Plans] : Produce(q, plan)
        PROVE  FALSE
    <3>1. \/ pass' = [pass EXCEPT ![q].pc = "committed", ![q].staged = {}]
          \/ pass' = [pass EXCEPT ![q].pc = "failed", ![q].staged = {}]
          \/ \E plan : pass' = [pass EXCEPT ![q].pc = "running", ![q].snap = version, ![q].plan = plan]
      BY <2>2 DEF CommitPass, FailPass, Produce
    <3>2. CASE pass' = [pass EXCEPT ![q].pc = "committed", ![q].staged = {}]
      BY <2>0, <3>2 DEF PassRows
    <3>3. CASE pass' = [pass EXCEPT ![q].pc = "failed", ![q].staged = {}]
      BY <2>0, <3>3 DEF PassRows
    <3>4. ASSUME NEW plan, pass' = [pass EXCEPT ![q].pc = "running", ![q].snap = version, ![q].plan = plan]
          PROVE  FALSE
      BY <2>0, <3>4 DEF PassRows
    <3> QED BY <3>1, <3>2, <3>3, <3>4
  <2> QED
    BY <2>0, <2>1, <2>2
    DEF Next, Decide, ModifyAtOnce, Restage, Expire, EditDeal, ArchiveDeal, Execute, Receive,
        Ignore, Apply, Finish, FailDelivery
<1> QED BY <1>1, Invariance, PTL DEF Spec, PassKeepsNewerEdits

\* However passes, decisions and deliveries interleave, the queue sees only what it promises:
\* what a committing pass opens was absent until then, in its own transaction and no other's.
THEOREM QueueIsKeptTo == Spec => KeepsToQueue
<1>1. Init => Queue!Init
  BY DEF Init
<1>2. IInv /\ [Next]_vars => [Queue!Next]_<<state, decider>>
  <2> SUFFICES ASSUME IInv, [Next]_vars, ~UNCHANGED <<state, decider>> PROVE Queue!Next
    OBVIOUS
  <2>1. ASSUME NEW p \in Passes, CommitPass(p) PROVE Queue!Next
    <3>1. pass[p].staged \in SUBSET Items
      BY DEF IInv, TypeInv, PassRows
    <3>2. Queue!OpenItems(pass[p].staged)
      BY <2>1 DEF CommitPass, Queue!OpenItems, IInv, StagedApart
    <3> QED BY <3>1, <3>2 DEF Queue!Next
  <2>2. ASSUME NEW i \in Items, NEW h \in Humans, NEW end \in {"approved", "rejected"},
               Decide(i, h, end)
        PROVE  Queue!Next
    BY <2>2 DEF Decide, Queue!Next, Queue!Ends
  <2>3. ASSUME NEW i \in Items, NEW h \in Humans, NEW e \in Effects, ModifyAtOnce(i, h, e)
        PROVE  Queue!Next
    BY <2>3 DEF ModifyAtOnce, Queue!Next, Queue!Ends
  <2>4. ASSUME NEW i \in Items, NEW h \in Humans, NEW n \in Items, NEW e \in Effects,
               Restage(i, h, n, e)
        PROVE  Queue!Next
    BY <2>4 DEF Restage, Queue!Next
  <2>5. ASSUME NEW i \in Items, Expire(i) PROVE Queue!Next
    BY <2>5 DEF Expire, Queue!Next
  <2>6. ASSUME NEW p \in Passes,
               \/ \E plan \in [Deals -> Plans] : Produce(p, plan)
               \/ \E d \in Deals : ApplyGreen(p, d)
               \/ FailPass(p)
        PROVE  UNCHANGED <<state, decider>>
    BY <2>6 DEF Produce, ApplyGreen, FailPass, queue
  <2>7. ASSUME NEW i \in Items, Execute(i) \/ FailDelivery(i) PROVE UNCHANGED <<state, decider>>
    BY <2>7 DEF Execute, Receive, Ignore, Apply, Finish, FailDelivery, queue
  <2>8. ASSUME NEW d \in Deals, EditDeal(d) \/ ArchiveDeal(d) PROVE UNCHANGED <<state, decider>>
    BY <2>8 DEF EditDeal, ArchiveDeal, queue
  <2>9. CASE UNCHANGED vars
    BY <2>9 DEF vars, queue
  <2> QED BY <2>1, <2>2, <2>3, <2>4, <2>5, <2>6, <2>7, <2>8, <2>9 DEF Next
<1> QED BY <1>1, <1>2, Invariance, PTL DEF Spec, KeepsToQueue, Queue!Spec

\* What was announced is settled so for good, and only what was announced was written for.
Decided ==
  /\ \A e \in outbox : state[e.item] = e.decision /\ e.decision \notin {"absent", "pending"}
  /\ \A i \in Items : runs[i].times > 0 =>
       EventOf(i) # {} /\ state[i] \in {"approved", "modified"} /\ runs[i].with = payload[i]

\* The audit rows and the writes go together, but for a delivery that runs or failed.
Recorded ==
  \A i \in Items :
    /\ handling[i] = "applied" \/ i \in audited => runs[i].times > 0
    /\ runs[i].times > 0 => i \in audited \/ handling[i] = "applied" \/ fails[i] > 0

DecidedInv == IInv /\ Decided /\ Recorded

\* A step that writes nothing, undoes no decision and announces what it decides.
LEMMA DecidedStays ==
  ASSUME DecidedInv, runs' = runs, outbox \subseteq outbox',
         \A i \in Items : state[i] \notin {"absent", "pending"} =>
           state'[i] = state[i] /\ payload'[i] = payload[i],
         \A e \in outbox' \ outbox :
           state'[e.item] = e.decision /\ e.decision \notin {"absent", "pending"}
  PROVE  Decided'
<1>1. \A e \in outbox : e.item \in Items
  BY DEF DecidedInv, IInv, TypeInv
<1>2. \A e \in outbox' : state'[e.item] = e.decision /\ e.decision \notin {"absent", "pending"}
  BY <1>1 DEF DecidedInv, Decided
<1>3. \A i \in Items : runs[i].times > 0 => EventOf(i) # {} /\ EventOf(i)' # {}
  BY DEF DecidedInv, Decided, EventOf
<1>4. ASSUME NEW i \in Items, runs[i].times > 0
      PROVE  state'[i] \in {"approved", "modified"} /\ runs[i].with = payload'[i]
  <2>1. state[i] \in {"approved", "modified"} /\ runs[i].with = payload[i]
    BY <1>4 DEF DecidedInv, Decided
  <2> QED BY <2>1
<1> QED BY <1>2, <1>3, <1>4 DEF Decided

LEMMA DecidedStep == DecidedInv /\ [Next]_vars => Decided'
<1> SUFFICES ASSUME DecidedInv, [Next]_vars PROVE Decided'
  OBVIOUS
<1>0. /\ IInv
      /\ state \in [Items -> States] /\ payload \in [Items -> Effects \cup {None}]
      /\ target \in [Items -> Deals \cup {None}]
      /\ runs \in [Items -> Runs] /\ pass \in [Passes -> PassRows]
  BY DEF DecidedInv, IInv, TypeInv
<1>1. ASSUME NEW p \in Passes, NEW d \in Deals, ApplyGreen(p, d) PROVE Decided'
  <2>1. \A i \in Items : state[i] # "absent" => payload'[i] = payload[i]
    <3>1. CASE payload' = payload
      BY <3>1
    <3>2. ASSUME NEW i \in FreshItems, NEW e \in Effects, payload' = [payload EXCEPT ![i] = e]
          PROVE  \A j \in Items : state[j] # "absent" => payload'[j] = payload[j]
      BY <1>0, <3>2 DEF FreshItems
    <3> QED BY <1>1, <3>1, <3>2 DEF ApplyGreen
  <2> QED BY <1>1, <2>1, DecidedStays DEF ApplyGreen, exec
<1>2. ASSUME NEW p \in Passes, CommitPass(p) \/ FailPass(p) PROVE Decided'
  <2>1. \A i \in pass[p].staged : state[i] = "absent"
    BY <1>0 DEF IInv, StagedApart
  <2>2. \A i \in Items : state[i] # "absent" => state'[i] = state[i] /\ payload'[i] = payload[i]
    BY <1>0, <1>2, <2>1 DEF CommitPass, FailPass
  <2> QED BY <1>2, <2>2, DecidedStays DEF CommitPass, FailPass, exec
<1>3. ASSUME NEW i \in Items, NEW h \in Humans, NEW end \in {"approved", "rejected"},
             Decide(i, h, end)
      PROVE  Decided'
  BY <1>0, <1>3, DecidedStays DEF Decide, Announce, Queue!Settle, exec
<1>4. ASSUME NEW i \in Items, NEW h \in Humans, NEW e \in Effects, ModifyAtOnce(i, h, e)
      PROVE  Decided'
  BY <1>0, <1>4, DecidedStays DEF ModifyAtOnce, Queue!Settle, exec
<1>5. ASSUME NEW i \in Items, NEW h \in Humans, NEW n \in Items, NEW e \in Effects,
             Restage(i, h, n, e)
      PROVE  Decided'
  <2>1. /\ state[i] = "pending" /\ state[n] = "absent"
        /\ state' = [state EXCEPT ![i] = "modified", ![n] = "pending"]
        /\ payload' = [payload EXCEPT ![n] = e]
        /\ outbox' = outbox \cup {[item |-> i, decision |-> "modified"]} /\ runs' = runs
    BY <1>5 DEF Restage, Announce, Queue!Replace, exec
  <2>2. state'[i] = "modified"
    BY <1>0, <2>1
  <2> QED BY <1>0, <2>1, <2>2, DecidedStays
<1>6. ASSUME NEW i \in Items, Expire(i) PROVE Decided'
  BY <1>0, <1>6, DecidedStays DEF Expire, Announce, Queue!Expire, exec
<1>7. ASSUME NEW i \in Items, Apply(i) PROVE Decided'
  <2> DEFINE row == [times |-> runs[i].times + 1, with |-> payload[i]]
  <2>1. /\ runs' = [runs EXCEPT ![i] = row] /\ Wanted(i)
        /\ UNCHANGED <<state, payload, outbox>>
    BY <1>7 DEF Apply, queue
  <2> HIDE DEF row
  <2>2. PICK e \in EventOf(i) : e.decision \in {"approved", "modified"}
    BY <2>1 DEF Wanted
  <2>3. state[i] \in {"approved", "modified"} /\ EventOf(i) # {}
    BY <2>2 DEF EventOf, DecidedInv, Decided
  <2>4. runs'[i] = row /\ \A j \in Items \ {i} : runs'[j] = runs[j]
    BY <1>0, <2>1
  <2>5. row.with = payload[i]
    BY DEF row
  <2> QED
    BY <2>1, <2>3, <2>4, <2>5 DEF DecidedInv, Decided, EventOf
<1>8. ASSUME UNCHANGED <<state, payload, outbox, runs>> PROVE Decided'
  BY <1>8, DecidedStays
<1>9. ASSUME NEW p \in Passes, NEW plan, Produce(p, plan) PROVE Decided'
  BY <1>8, <1>9 DEF Produce, queue, exec
<1>10. ASSUME NEW i \in Items, Receive(i) \/ Ignore(i) \/ Finish(i) \/ FailDelivery(i)
       PROVE  Decided'
  BY <1>8, <1>10 DEF Receive, Ignore, Finish, FailDelivery, queue
<1>11. ASSUME NEW d \in Deals, EditDeal(d) \/ ArchiveDeal(d) PROVE Decided'
  BY <1>8, <1>11 DEF EditDeal, ArchiveDeal, queue, exec
<1>12. CASE UNCHANGED vars
  BY <1>8, <1>12 DEF vars, queue, exec
<1> QED
  BY <1>1, <1>2, <1>3, <1>4, <1>5, <1>6, <1>7, <1>9, <1>10, <1>11, <1>12 DEF Next, Execute

LEMMA RecordedStep == DecidedInv /\ [Next]_vars => Recorded'
<1> SUFFICES ASSUME DecidedInv, [Next]_vars PROVE Recorded'
  OBVIOUS
<1>0. /\ Recorded /\ runs \in [Items -> Runs]
      /\ handling \in [Items -> {"no", "received", "applied"}] /\ fails \in [Items -> Nat]
  BY DEF DecidedInv, IInv, TypeInv
<1>1. CASE UNCHANGED exec
  BY <1>0, <1>1 DEF exec, Recorded
<1>2. ASSUME NEW i \in Items, Receive(i) \/ Ignore(i) PROVE Recorded'
  BY <1>0, <1>2 DEF Receive, Ignore, Recorded
<1>3. ASSUME NEW i \in Items, Apply(i) PROVE Recorded'
  <2> DEFINE n == runs[i].times + 1
  <2>1. n > 0
    BY <1>0 DEF Runs
  <2> HIDE DEF n
  <2> DEFINE row == [times |-> n, with |-> payload[i]]
  <2>2. row.times > 0
    BY <2>1
  <2>3. runs' = [runs EXCEPT ![i] = row]
    BY <1>3 DEF Apply, n
  <2> HIDE DEF row
  <2>4. runs'[i] = row /\ \A j \in Items \ {i} : runs'[j] = runs[j]
    BY <1>0, <2>3
  <2>5. handling' = [handling EXCEPT ![i] = "applied"] /\ UNCHANGED <<audited, fails>>
    BY <1>3 DEF Apply
  <2> QED BY <1>0, <2>2, <2>4, <2>5 DEF Recorded
<1>4. ASSUME NEW i \in Items, Finish(i) PROVE Recorded'
  BY <1>0, <1>4 DEF Finish, Recorded
<1>5. ASSUME NEW i \in Items, FailDelivery(i) PROVE Recorded'
  <2>1. /\ fails' = [fails EXCEPT ![i] = fails[i] + 1] /\ fails[i] + 1 > 0
        /\ handling' = [handling EXCEPT ![i] = "no"] /\ UNCHANGED <<runs, audited>>
    BY <1>0, <1>5 DEF FailDelivery
  <2> QED BY <1>0, <2>1 DEF Recorded
<1> QED
  BY <1>1, <1>2, <1>3, <1>4, <1>5 DEF Next, Execute, vars, Produce, ApplyGreen, CommitPass,
     FailPass, Decide, ModifyAtOnce, Restage, Expire, EditDeal, ArchiveDeal

\* However passes, decisions, sweeps and deliveries interleave, nothing is written for an item
\* that is not approved or modified, what is written is the payload it was staged with, and
\* the audit rows tell of every write whose delivery neither runs nor failed.
THEOREM OnlyDecidedIsWritten == Spec => []OnlyDecidedRuns
<1>1. Init => Decided /\ Recorded
  BY DEF Init, Decided, Recorded
<1>2. DecidedInv /\ [Next]_vars => DecidedInv'
  BY StepHolds, DecidedStep, RecordedStep DEF DecidedInv
<1>3. DecidedInv => OnlyDecidedRuns
  BY DEF DecidedInv, Decided, Recorded, OnlyDecidedRuns
<1> QED BY <1>1, <1>2, <1>3, InitHolds, PTL DEF Spec, DecidedInv

\* The variables that no invariant above speaks of.
OtherTypes ==
  /\ decider \in [Items -> Humans \cup {None}] /\ edit \in [Items -> Effects \cup {None}]
  /\ archived \subseteq Deals /\ audited \subseteq Items /\ handled \subseteq outbox
  /\ fails \in [Items -> 0 .. MaxFails]

LEMMA OtherTypesHold == IInv /\ OtherTypes /\ [Next]_vars => OtherTypes'
<1> SUFFICES ASSUME IInv, OtherTypes, [Next]_vars PROVE OtherTypes'
  OBVIOUS
<1> USE DEF OtherTypes
<1>0. payload \in [Items -> Effects \cup {None}]
  BY DEF IInv, TypeInv
<1>1. ASSUME NEW i \in Items, NEW h \in Humans, NEW end \in {"approved", "rejected"},
             Decide(i, h, end)
      PROVE  OtherTypes'
  BY <1>0, <1>1 DEF Decide, Announce, Queue!Settle, exec, deals
<1>2. ASSUME NEW i \in Items, NEW h \in Humans, NEW e \in Effects, ModifyAtOnce(i, h, e)
      PROVE  OtherTypes'
  BY <1>2 DEF ModifyAtOnce, Queue!Settle, exec, deals
<1>3. ASSUME NEW i \in Items, NEW h \in Humans, NEW n \in Items, NEW e \in Effects,
             Restage(i, h, n, e)
      PROVE  OtherTypes'
  BY <1>3 DEF Restage, Announce, Queue!Replace, exec, deals
<1>4. ASSUME NEW i \in Items, Expire(i) PROVE OtherTypes'
  BY <1>4 DEF Expire, Announce, Queue!Expire, exec, deals
<1>5. ASSUME NEW i \in Items, FailDelivery(i) PROVE OtherTypes'
  <2>1. fails[i] \in 0 .. MaxFails /\ fails[i] < MaxFails /\ fails' = [fails EXCEPT ![i] = @ + 1]
    BY <1>5 DEF FailDelivery
  <2>2. fails[i] + 1 \in 0 .. MaxFails
    BY <2>1, OvernightAssumption
  <2>3. fails' \in [Items -> 0 .. MaxFails]
    BY <2>1, <2>2
  <2> QED BY <1>5, <2>3 DEF FailDelivery, queue, deals
<1>6. ASSUME NEW i \in Items, Receive(i) \/ Ignore(i) \/ Apply(i) \/ Finish(i) PROVE OtherTypes'
  BY <1>6 DEF Receive, Ignore, Apply, Finish, EventOf, queue, deals
<1>7. ASSUME NEW p \in Passes,
             \/ \E plan \in [Deals -> Plans] : Produce(p, plan)
             \/ \E d \in Deals : ApplyGreen(p, d)
             \/ CommitPass(p) \/ FailPass(p)
      PROVE  OtherTypes'
  BY <1>7 DEF Produce, ApplyGreen, CommitPass, FailPass, queue, deals, exec
<1>8. ASSUME NEW d \in Deals, EditDeal(d) \/ ArchiveDeal(d) PROVE OtherTypes'
  BY <1>8 DEF EditDeal, ArchiveDeal, queue, exec
<1>9. CASE UNCHANGED vars
  BY <1>9 DEF vars, queue, deals, exec
<1> QED BY <1>1, <1>2, <1>3, <1>4, <1>5, <1>6, <1>7, <1>8, <1>9 DEF Next, Execute

\* The queue, the passes, the executor and their bounds have the types that TypeOK declares.
THEOREM TypeCorrect == Spec => []TypeOK
<1>1. Init => OtherTypes
  BY OvernightAssumption DEF Init, Queue!Init, OtherTypes
<1>2. IInv /\ OtherTypes => TypeOK
  BY DEF IInv, TypeInv, OtherTypes, TypeOK, Runs
<1> QED BY <1>1, <1>2, Invariance, OtherTypesHold, PTL DEF Spec
=============================================================================
