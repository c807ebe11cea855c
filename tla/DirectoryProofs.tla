---------------------------- MODULE DirectoryProofs ----------------------------
(***************************************************************************)
(* People, organizations and relationships, for any number of rows, calls    *)
(* and merges: types, that a merge of people is final and its snapshot exact,  *)
(* that the tables fit together as long as no two transactions overlap, that a  *)
(* merge of organizations hands over what the loser has, that no cycle of        *)
(* parents comes about unless two changes of a parent are open at once, and that  *)
(* a merge of people keeps to the indexes of relationship unless it is crossed.    *)
(* A transaction that is alone finds at its writes what it found at its reads.      *)
(***************************************************************************)
EXTENDS PersonMerge, Organizations, Relationships, FiniteSetTheorems, WellFoundedInduction, TLAPS

-----------------------------------------------------------------------------
(* Induction, from the least-number principle. *)

LEMMA LeastOf ==
  ASSUME NEW S \in SUBSET Nat, S # {}
  PROVE  \E n \in S : \A k \in S : n <= k
<1> DEFINE R == {ss \in Nat \X Nat : ss[1] < ss[2]}
<1>1. IsWellFoundedOn(R, Nat)
  BY NatLessThanWellFounded DEF OpToRel
<1>2. \A k, n \in Nat : k < n => <<k, n>> \in R
  OBVIOUS
<1> HIDE DEF R
<1>3. PICK n \in S : \A k \in S : ~(<<k, n>> \in R)
  BY <1>1, WFMin
<1>4. ASSUME NEW k \in S PROVE n <= k
  <2>1. k \in Nat /\ n \in Nat /\ ~(k < n)
    BY <1>2, <1>3
  <2> QED
    BY <2>1
<1> QED
  BY <1>4

\* What holds of 0, and of n + 1 when it holds of n, holds up to k.
LEMMA UpTo ==
  ASSUME NEW k \in Nat, NEW S, 0 \in S, \A n \in 0..k : n \in S /\ n < k => n + 1 \in S
  PROVE  \A n \in 0..k : n \in S
<1> DEFINE T == {n \in 0..k : n \notin S}
<1>1. SUFFICES ASSUME T # {} PROVE FALSE
  OBVIOUS
<1>2. PICK n \in T : \A j \in T : n <= j
  <2>1. T \in SUBSET Nat
    OBVIOUS
  <2> HIDE DEF T
  <2> QED
    BY <1>1, <2>1, LeastOf
<1>3. n # 0 /\ n \in 0..k
  BY <1>2
<1>4. n - 1 \in 0..k /\ n - 1 \in S /\ n - 1 < k
  BY <1>2, <1>3
<1>5. (n - 1) + 1 \in S
  BY <1>4
<1> QED
  BY <1>2, <1>3, <1>5

-----------------------------------------------------------------------------
(* Walks along pointers, as the trigger on parents and followMergeChain do them: next[a] is   *)
(* where the row a points to, or none.                                                        *)

Pointers(next, none, N) == none \notin N /\ IsFiniteSet(N) /\ next \in [N -> N \cup {none}]

\* What is reached in one more step.
Above(next, none, A) == A \cup {next[a] : a \in A \ {none}}

\* f[n] is what n steps from p reach.
Climbs(next, none, p, k, f) ==
  f[0] = {p} /\ \A n \in 0..k : n < k => f[n+1] = Above(next, none, f[n])

LEMMA ClimbTyped ==
  ASSUME NEW N, NEW none, NEW next, Pointers(next, none, N), NEW p \in N, NEW k \in Nat, NEW f,
         Climbs(next, none, p, k, f)
  PROVE  \A n \in 0..k : p \in f[n] /\ f[n] \subseteq N \cup {none}
<1> DEFINE S == {n \in 0..k : p \in f[n] /\ f[n] \subseteq N \cup {none}}
<1>1. 0 \in S
  BY DEF Climbs
<1>2. ASSUME NEW n \in 0..k, n \in S, n < k PROVE n + 1 \in S
  <2>1. f[n+1] = Above(next, none, f[n]) /\ n + 1 \in 0..k
    BY <1>2 DEF Climbs
  <2>2. Above(next, none, f[n]) \subseteq N \cup {none} /\ p \in Above(next, none, f[n])
    BY <1>2 DEF Above, Pointers
  <2> QED
    BY <2>1, <2>2
<1>3. \A n \in 0..k : n \in S
  <2> HIDE DEF S
  <2> QED
    BY <1>1, <1>2, UpTo
<1> QED
  BY <1>3

\* The recursion that computes a walk.
Recursion(next, none, p, k, f) ==
  f = [n \in 0..k |-> IF n = 0 THEN {p} ELSE Above(next, none, f[n-1])]

\* It defines a function.
LEMMA ClimbExists ==
  ASSUME NEW next, NEW none, NEW p, NEW k \in Nat
  PROVE  \E f : Recursion(next, none, p, k, f)
<1> DEFINE S == {n \in Nat : \E f : Recursion(next, none, p, n, f)}
<1>1. 0 \in S
  <2>1. Recursion(next, none, p, 0, [n \in 0..0 |-> {p}])
    BY DEF Recursion
  <2> QED
    BY <2>1
<1>2. ASSUME NEW n \in S PROVE n + 1 \in S
  <2>1. PICK f : Recursion(next, none, p, n, f)
    OBVIOUS
  <2> DEFINE g == [j \in 0..(n+1) |-> IF j = n + 1 THEN Above(next, none, f[n]) ELSE f[j]]
  <2>2. \A j \in 0..n : f[j] = IF j = 0 THEN {p} ELSE Above(next, none, f[j-1])
    BY <2>1 DEF Recursion
  <2>3. \A j \in 0..(n+1) : g[j] = IF j = 0 THEN {p} ELSE Above(next, none, g[j-1])
    <3> TAKE j \in 0..(n+1)
    <3>1. n \in Nat
      OBVIOUS
    <3>2. CASE j = n + 1
      BY <3>1, <3>2
    <3>3. CASE j # n + 1 /\ j # 0
      <4>1. j \in 0..n /\ j - 1 \in 0..n /\ j - 1 # n + 1
        BY <3>1, <3>3
      <4>2. g[j] = f[j] /\ g[j-1] = f[j-1]
        BY <3>1, <3>3, <4>1
      <4> QED
        BY <2>2, <3>3, <4>1, <4>2
    <3>4. CASE j # n + 1 /\ j = 0
      BY <2>2, <3>1, <3>4
    <3> QED
      BY <3>2, <3>3, <3>4
  <2>4. Recursion(next, none, p, n + 1, g)
    <3>1. g = [j \in 0..(n+1) |-> g[j]]
      OBVIOUS
    <3> HIDE DEF g
    <3> QED
      BY <2>3, <3>1 DEF Recursion
  <2> QED
    BY <2>4
<1>3. \A n \in 0..k : n \in S
  BY <1>1, <1>2, UpTo
<1> QED
  BY <1>3

LEMMA ClimbsAgree ==
  ASSUME NEW next, NEW none, NEW p, NEW k \in Nat, NEW f, NEW g,
         Climbs(next, none, p, k, f), Climbs(next, none, p, k, g)
  PROVE  f[k] = g[k]
<1> DEFINE S == {n \in 0..k : f[n] = g[n]}
<1>1. 0 \in S
  BY DEF Climbs
<1>2. ASSUME NEW n \in 0..k, n \in S, n < k PROVE n + 1 \in S
  BY <1>2 DEF Climbs
<1>3. \A n \in 0..k : n \in S
  <2> HIDE DEF S
  <2> QED
    BY <1>1, <1>2, UpTo
<1> QED
  BY <1>3

LEMMA RecursionClimbs ==
  ASSUME NEW next, NEW none, NEW p, NEW k \in Nat, NEW f, Recursion(next, none, p, k, f)
  PROVE  Climbs(next, none, p, k, f)
<1>1. \A n \in 0..k : f[n] = IF n = 0 THEN {p} ELSE Above(next, none, f[n-1])
  BY DEF Recursion
<1>2. f[0] = {p}
  BY <1>1
<1>3. ASSUME NEW n \in 0..k, n < k PROVE f[n+1] = Above(next, none, f[n])
  <2>1. n + 1 \in 0..k /\ n + 1 # 0 /\ (n + 1) - 1 = n
    BY <1>3
  <2> QED
    BY <1>1, <2>1
<1> QED
  BY <1>2, <1>3 DEF Climbs

Closed(next, none, A) == \A a \in A \ {none} : next[a] \in A

\* Whoever points to none after as many steps as there are rows: nobody is missing.
LEMMA RootedIsClosed ==
  ASSUME NEW N, NEW none, NEW next, Pointers(next, none, N), NEW p \in N, NEW k \in Nat, NEW f,
         Climbs(next, none, p, k, f), none \in f[k]
  PROVE  Closed(next, none, f[k]) /\ p \in f[k] /\ f[k] \subseteq N \cup {none}
<1>1. \A n \in 0..k : p \in f[n] /\ f[n] \subseteq N \cup {none}
  BY ClimbTyped
<1> DEFINE Line(n) == none \notin f[n] /\ \E e \in f[n] : \A a \in f[n] \ {e} : next[a] \in f[n]
           S == {n \in 0..k : Closed(next, none, f[n]) \/ Line(n)}
<1>2. 0 \in S
  <2>1. f[0] = {p} /\ p # none
    BY DEF Climbs, Pointers
  <2>2. Line(0)
    BY <2>1
  <2> QED
    BY <2>2
<1>3. ASSUME NEW n \in 0..k, n \in S, n < k PROVE n + 1 \in S
  <2>1. f[n+1] = f[n] \cup {next[a] : a \in f[n] \ {none}} /\ n + 1 \in 0..k
    BY <1>3 DEF Climbs, Above
  <2>2. CASE Closed(next, none, f[n])
    <3>1. f[n+1] = f[n]
      BY <2>1, <2>2 DEF Closed
    <3> QED
      BY <2>1, <2>2, <3>1
  <2>3. CASE Line(n)
    <3>1. PICK e \in f[n] : \A a \in f[n] \ {e} : next[a] \in f[n]
      BY <2>3
    <3>2. f[n+1] = f[n] \cup {next[e]}
      BY <2>1, <2>3, <3>1
    <3>3. CASE next[e] = none
      <4>1. Closed(next, none, f[n+1])
        BY <3>1, <3>2, <3>3 DEF Closed
      <4> QED
        BY <2>1, <4>1
    <3>4. CASE next[e] # none
      <4>1. none \notin f[n+1]
        BY <2>3, <3>2, <3>4
      <4>2. \A a \in f[n+1] \ {next[e]} : next[a] \in f[n+1]
        BY <3>1, <3>2
      <4> QED
        BY <2>1, <3>2, <4>1, <4>2
    <3> QED
      BY <3>3, <3>4
  <2> QED
    BY <1>3, <2>2, <2>3
<1>4. k \in S
  <2>1. \A n \in 0..k : n \in S
    <3> HIDE DEF S
    <3> QED
      BY <1>2, <1>3, UpTo
  <2> QED
    BY <2>1
<1> QED
  BY <1>1, <1>4

\* A rank that falls along the pointers: there is no cycle.
Ranks(next, N, rank) == \A a \in N : next[a] \in N => rank[next[a]] < rank[a]

\* With a rank, as many steps as there are rows lead to none.
LEMMA RankedIsRooted ==
  ASSUME NEW N, NEW none, NEW next, Pointers(next, none, N), NEW p \in N,
         NEW rank \in [N -> Nat], Ranks(next, N, rank),
         NEW f, Climbs(next, none, p, Cardinality(N), f)
  PROVE  none \in f[Cardinality(N)]
<1> DEFINE k == Cardinality(N)
<1>1. k \in Nat /\ IsFiniteSet(N) /\ none \notin N
  BY FS_CardinalityType DEF Pointers
<1> HIDE DEF k
<1>2. Climbs(next, none, p, k, f)
  BY DEF k
<1>3. \A n \in 0..k : p \in f[n] /\ f[n] \subseteq N \cup {none}
  BY <1>1, <1>2, ClimbTyped
<1> DEFINE Grows(n) == IsFiniteSet(f[n]) /\ Cardinality(f[n]) > n
           S == {n \in 0..k : none \in f[n] \/ Grows(n)}
<1>4. 0 \in S
  <2>1. IsFiniteSet(f[0]) /\ Cardinality(f[0]) = 1
    BY <1>2, FS_Singleton DEF Climbs
  <2> QED
    BY <1>1, <2>1
<1>5. ASSUME NEW n \in 0..k, n \in S, n < k PROVE n + 1 \in S
  <2>1. f[n+1] = f[n] \cup {next[a] : a \in f[n] \ {none}} /\ n + 1 \in 0..k
    BY <1>1, <1>2, <1>5 DEF Climbs, Above
  <2>2. SUFFICES ASSUME none \notin f[n+1] PROVE Grows(n + 1)
    BY <2>1
  <2>3. f[n] \subseteq N /\ f[n+1] \subseteq N /\ f[n] # {} /\ Grows(n)
    BY <1>3, <1>5, <2>1, <2>2
  <2>4. PICK a \in f[n] : next[a] \notin f[n]
    <3> DEFINE R == {rank[a] : a \in f[n]}
    <3>1. R \in SUBSET Nat /\ R # {}
      BY <2>3
    <3>2. PICK i \in R : \A j \in R : i <= j
      <4> HIDE DEF R
      <4> QED
        BY <3>1, LeastOf
    <3>3. PICK a \in f[n] : rank[a] = i
      OBVIOUS
    <3>4. next[a] \notin f[n]
      <4>1. SUFFICES ASSUME next[a] \in f[n] PROVE FALSE
        OBVIOUS
      <4>2. rank[next[a]] \in R /\ rank[next[a]] < rank[a]
        BY <2>3, <4>1 DEF Ranks
      <4>3. i <= rank[next[a]] /\ i \in Nat /\ rank[next[a]] \in Nat
        <5> HIDE DEF R
        <5> QED
          BY <3>1, <3>2, <4>2
      <4> QED
        BY <3>3, <4>2, <4>3
    <3> QED
      BY <3>4
  <2>5. f[n] \cup {next[a]} \subseteq f[n+1]
    BY <1>1, <2>1, <2>2, <2>3
  <2>6. /\ IsFiniteSet(f[n] \cup {next[a]})
        /\ Cardinality(f[n] \cup {next[a]}) = Cardinality(f[n]) + 1
    BY <2>3, <2>4, FS_AddElement
  <2>7. IsFiniteSet(f[n+1])
    BY <1>1, <2>3, FS_Subset
  <2>8. Cardinality(f[n] \cup {next[a]}) <= Cardinality(f[n+1])
    BY <2>5, <2>7, FS_Subset
  <2>9. Cardinality(f[n]) \in Nat /\ Cardinality(f[n+1]) \in Nat
    BY <2>3, <2>7, FS_CardinalityType
  <2> QED
    BY <2>3, <2>6, <2>7, <2>8, <2>9
<1>6. k \in S
  <2>1. \A n \in 0..k : n \in S
    <3> HIDE DEF S
    <3> QED
      BY <1>1, <1>4, <1>5, UpTo
  <2> QED
    BY <1>1, <2>1
<1>7. ASSUME none \notin f[k] PROVE FALSE
  <2>1. f[k] \subseteq N /\ Cardinality(f[k]) > k
    BY <1>1, <1>3, <1>6, <1>7
  <2>2. Cardinality(f[k]) <= Cardinality(N)
    BY <1>1, <2>1, FS_Subset
  <2>3. Cardinality(f[k]) \in Nat
    BY <1>1, <2>1, FS_Subset, FS_CardinalityType
  <2> QED
    BY <1>1, <2>1, <2>2, <2>3 DEF k
<1> QED
  BY <1>7 DEF k

\* A new pointer to t, whose walk ends at none and does not pass o, leaves a rank.
LEMMA NewPointerRanked ==
  ASSUME NEW N, NEW none, NEW next, Pointers(next, none, N),
         NEW rank \in [N -> Nat], Ranks(next, N, rank), NEW o \in N, NEW t \in N,
         NEW k \in Nat, NEW f, Climbs(next, none, t, k, f), o \notin f[k], none \in f[k]
  PROVE  \E r \in [N -> Nat] : Ranks([next EXCEPT ![o] = t], N, r)
<1> DEFINE A == f[k]
           r == [x \in N |-> IF x \in A THEN rank[x] ELSE rank[x] + rank[t] + 1]
           new == [next EXCEPT ![o] = t]
<1>1. Closed(next, none, A) /\ t \in A /\ o \notin A /\ none \notin N
  BY RootedIsClosed DEF Pointers
<1> HIDE DEF A
<1>2. r \in [N -> Nat]
  OBVIOUS
<1>3. \A x \in N : new[x] = IF x = o THEN t ELSE next[x]
  BY DEF Pointers
<1>4. ASSUME NEW x \in N, new[x] \in N PROVE r[new[x]] < r[x]
  <2>1. CASE x = o
    <3>1. r[t] = rank[t] /\ r[o] = rank[o] + rank[t] + 1 /\ new[x] = t
      BY <1>1, <1>3, <2>1
    <3>2. rank[t] \in Nat /\ rank[o] \in Nat
      OBVIOUS
    <3> HIDE DEF r, new
    <3> QED
      BY <2>1, <3>1, <3>2
  <2>2. CASE x # o
    <3>1. PICK y \in N : y = next[x] /\ new[x] = y
      BY <1>3, <1>4, <2>2
    <3>2. rank[y] < rank[x] /\ rank[y] \in Nat /\ rank[x] \in Nat /\ rank[t] \in Nat
      BY <3>1 DEF Ranks
    <3>3. x \in A => y \in A
      BY <1>1, <3>1 DEF Closed
    <3>4. /\ r[x] = IF x \in A THEN rank[x] ELSE rank[x] + rank[t] + 1
          /\ r[y] = IF y \in A THEN rank[y] ELSE rank[y] + rank[t] + 1
      OBVIOUS
    <3> HIDE DEF r, new
    <3> QED
      BY <3>1, <3>2, <3>3, <3>4
  <2> QED
    BY <2>1, <2>2
<1> HIDE DEF r
<1> QED
  BY <1>2, <1>4 DEF Ranks

-----------------------------------------------------------------------------
(* People: types. *)

PersonRows  == [state : {"absent", "live", "archived"}, into : People \cup {NoOne}, version : Nat]
RequestRows == [pc : {"new", "validated", "relinked", "seen", "checked", "done"},
                p : People \cup {NoOne}, t : People \cup {NoOne},
                version : Nat, moved : SUBSET Rows, demoted : BOOLEAN]

\* An open request is about people of the table.
About(r) ==
  /\ req[r].pc \in {"validated", "relinked", "seen", "checked"} => req[r].p \in People
  /\ req[r].pc \in {"validated", "relinked"} => req[r].t \in People

Types == TypeOK /\ \A r \in Requests : About(r)

LEMMA InitTyped == Init => Types
<1> SUFFICES ASSUME Init PROVE Types
  OBVIOUS
<1>1. [pc |-> "new", p |-> NoOne, t |-> NoOne, version |-> 0, moved |-> {}, demoted |-> FALSE]
        \in RequestRows
  BY Zenon DEF RequestRows
<1>2. req \in [Requests -> RequestRows]
  BY <1>1 DEF Init
<1>3. person \in [People -> PersonRows]
  BY DEF Init, PersonRows
<1>4. overlapped \in BOOLEAN
  BY Zenon DEF Init
<1>5. \A r \in Requests : About(r)
  BY DEF Init, About
<1> QED
  BY <1>2, <1>3, <1>4, <1>5 DEF Init, Types, TypeOK, PersonRows, RequestRows

\* What the row of a request is after its step, one equation for each shape of step.
LEMMA RequestTyped ==
  ASSUME Types, NEW r \in Requests, NEW row \in RequestRows, req' = [req EXCEPT ![r] = row],
         row.pc \in {"validated", "relinked", "seen", "checked"} => row.p \in People,
         row.pc \in {"validated", "relinked"} => row.t \in People
  PROVE  /\ req' \in [Requests -> RequestRows] /\ \A s \in Requests : About(s)'
         /\ req'[r] = row /\ \A s \in Requests \ {r} : req'[s] = req[s]
<1>1. req \in [Requests -> RequestRows]
  BY DEF Types, TypeOK, RequestRows
<1>2. /\ req' \in [Requests -> RequestRows]
      /\ req'[r] = row /\ \A s \in Requests \ {r} : req'[s] = req[s]
  BY <1>1
<1>3. \A s \in Requests : About(s)'
  BY <1>2 DEF Types, About
<1> QED
  BY <1>2, <1>3

\* A request that moves on and keeps what it knows.
LEMMA GotoTyped ==
  ASSUME Types, NEW r \in Requests, NEW pc \in {"checked", "done"},
         pc = "checked" => req[r].p \in People, Goto(r, pc)
  PROVE  /\ req' \in [Requests -> RequestRows] /\ \A s \in Requests : About(s)'
         /\ req'[r].pc = pc /\ req'[r].p = req[r].p
         /\ \A s \in Requests \ {r} : req'[s] = req[s]
<1> DEFINE row == [req[r] EXCEPT !.pc = pc]
<1>1. req[r] \in RequestRows
  BY DEF Types, TypeOK, RequestRows
<1>2. row \in RequestRows /\ row.pc = pc /\ row.p = req[r].p
  BY <1>1, Zenon DEF RequestRows
<1>3. req' = [req EXCEPT ![r] = row]
  BY DEF Goto
<1> HIDE DEF row
<1> QED
  BY <1>2, <1>3, RequestTyped

\* A request that ends and gives up its locks.
LEMMA EndTyped ==
  ASSUME Types, NEW r \in Requests, req' = [req EXCEPT ![r].pc = "done", ![r].moved = {}]
  PROVE  /\ req' \in [Requests -> RequestRows] /\ \A s \in Requests : About(s)'
         /\ req'[r].pc = "done"
         /\ \A s \in Requests \ {r} : req'[s] = req[s]
<1> DEFINE row == [req[r] EXCEPT !.pc = "done", !.moved = {}]
<1>1. req[r] \in RequestRows /\ req \in [Requests -> RequestRows]
  BY DEF Types, TypeOK, RequestRows
<1>2. row \in RequestRows /\ row.pc = "done"
  BY <1>1, Zenon DEF RequestRows
<1>3. req' = [req EXCEPT ![r] = row]
  BY <1>1
<1> HIDE DEF row
<1> QED
  BY <1>2, <1>3, RequestTyped

\* A row of a merge keeps its origin and its liveness.
LEMMA MovedTyped ==
  ASSUME NEW r, NEW e \in Rows, e \in req[r].moved => req[r].t \in People
  PROVE  /\ Moved(r, e) \in Rows
         /\ Moved(r, e).live = e.live /\ Moved(r, e).from = e.from
         /\ Moved(r, e).owner = IF e \in req[r].moved THEN req[r].t ELSE e.owner
         /\ Moved(r, e).primary => e.primary
         /\ e \in req[r].moved /\ Moved(r, e).primary => ~req[r].demoted
<1>1. CASE e \in req[r].moved
  <2> DEFINE prim == e.primary /\ ~req[r].demoted
  <2>1. prim \in BOOLEAN
    BY Zenon
  <2>2. Moved(r, e) = [e EXCEPT !.owner = req[r].t, !.primary = prim]
    BY <1>1, Zenon DEF Moved
  <2>3. /\ Moved(r, e) \in Rows /\ Moved(r, e).live = e.live /\ Moved(r, e).from = e.from
        /\ Moved(r, e).owner = req[r].t /\ Moved(r, e).primary = prim
    <3> HIDE DEF prim
    <3> QED
      BY <1>1, <2>1, <2>2, Zenon DEF Rows
  <2> QED
    BY <1>1, <2>3, Zenon
<1>2. CASE e \notin req[r].moved
  BY <1>2, Zenon DEF Moved
<1> QED
  BY <1>1, <1>2

\* A row whose liveness is set.
LEMMA FlagTyped ==
  ASSUME NEW e \in Rows, NEW b \in BOOLEAN
  PROVE  /\ [e EXCEPT !.live = b] \in Rows /\ [e EXCEPT !.live = b].live = b
         /\ [e EXCEPT !.live = b].owner = e.owner
         /\ [e EXCEPT !.live = b].primary = e.primary
         /\ [e EXCEPT !.live = b].from = e.from
  BY Zenon DEF Rows

\* The row of the loser of a merge, of an archived person and of a restored one.
LEMMA PersonTyped ==
  ASSUME Types, NEW p \in People, NEW row \in PersonRows, person' = [person EXCEPT ![p] = row]
  PROVE  /\ person' \in [People -> PersonRows]
         /\ person'[p] = row /\ \A q \in People \ {p} : person'[q] = person[q]
  BY DEF Types, TypeOK, PersonRows

LEMMA TouchTyped ==
  ASSUME NEW row \in PersonRows
  PROVE  /\ Touch(row) \in PersonRows
         /\ Touch(row).state = row.state /\ Touch(row).into = row.into
  BY DEF Touch, PersonRows

-----------------------------------------------------------------------------
(* What each action does, types included. *)

\* The people other than p keep their rows.
OnlyPerson(p) == \A q \in People \ {p} : person'[q] = person[q]

OnlyRequest(r) == \A s \in Requests \ {r} : req'[s] = req[s]

LEMMA CreateDoes ==
  ASSUME Types, NEW p \in People, NEW given \in SUBSET Addresses, NEW main,
         Create(p, given, main)
  PROVE  /\ Types' /\ OnlyPerson(p) /\ UNCHANGED req
         /\ person[p].state = "absent" /\ person'[p].state = "live"
         /\ person'[p].into = person[p].into
         /\ \A e \in emails' \ emails : e.owner = p /\ e.from = p /\ e.live
<1> DEFINE row    == [person[p] EXCEPT !.state = "live"]
           new(a) == [address |-> a, from |-> p, owner |-> p,
                      primary |-> a \in main, live |-> TRUE]
<1>1. person[p] \in PersonRows
  BY DEF Types, TypeOK, PersonRows
<1>2. row \in PersonRows /\ row.state = "live" /\ row.into = person[p].into
  BY <1>1 DEF PersonRows
<1>3. /\ person' \in [People -> PersonRows]
      /\ person'[p] = row /\ \A q \in People \ {p} : person'[q] = person[q]
  <2>1. person' = [person EXCEPT ![p] = row]
    BY DEF Create, Types, TypeOK
  <2> HIDE DEF row
  <2> QED
    BY <1>2, <2>1, PersonTyped
<1>4. \A a \in Addresses :
        new(a) \in Rows /\ new(a).owner = p /\ new(a).from = p /\ new(a).live
  <2>1. ASSUME NEW a \in Addresses, NEW prim \in BOOLEAN,
               NEW e, e = [address |-> a, from |-> p, owner |-> p, primary |-> prim, live |-> TRUE]
        PROVE  e \in Rows /\ e.owner = p /\ e.from = p /\ e.live
    BY <2>1, Zenon DEF Rows
  <2>2. ASSUME NEW a PROVE (a \in main) \in BOOLEAN
    OBVIOUS
  <2> QED
    BY <2>1, <2>2, Zenon
<1>5. emails' = emails \cup {new(a) : a \in given} /\ UNCHANGED <<audit, req>>
  BY Zenon DEF Create
<1>6. overlapped' \in BOOLEAN
  BY Zenon DEF Create
<1>7. Types'
  BY <1>3, <1>4, <1>5, <1>6 DEF Types, TypeOK, About, PersonRows
<1> HIDE DEF row, new
<1> QED
  BY <1>2, <1>3, <1>4, <1>5, <1>7 DEF Create, OnlyPerson

LEMMA ArchiveDoes ==
  ASSUME Types, NEW r \in Requests, NEW p \in People, Archive(r, p)
  PROVE  /\ Types' /\ OnlyPerson(p) /\ OnlyRequest(r)
         /\ person[p].state = "live" /\ person'[p].state = "archived"
         /\ person'[p].into = person[p].into /\ req'[r].pc = "done"
         /\ \A e \in emails' : \E f \in emails :
              /\ e.owner = f.owner /\ e.primary = f.primary /\ e.from = f.from
              /\ e.live = (f.live /\ f.owner # p)
              /\ f.owner = p => e = [f EXCEPT !.live = FALSE]
              /\ f.owner # p => e = f
<1> DEFINE row == [Touch(person[p]) EXCEPT !.state = "archived"]
<1>1. person[p] \in PersonRows
  BY DEF Types, TypeOK, PersonRows
<1>2. row \in PersonRows /\ row.state = "archived" /\ row.into = person[p].into
  BY <1>1, TouchTyped DEF PersonRows
<1>3. /\ person' \in [People -> PersonRows]
      /\ person'[p] = row /\ \A q \in People \ {p} : person'[q] = person[q]
  <2>1. person' = [person EXCEPT ![p] = row]
    BY DEF Archive, Types, TypeOK
  <2> HIDE DEF row
  <2> QED
    BY <1>2, <2>1, PersonTyped
<1>4. /\ req' \in [Requests -> RequestRows] /\ \A s \in Requests : About(s)'
      /\ req'[r].pc = "done" /\ \A s \in Requests \ {r} : req'[s] = req[s]
  BY GotoTyped DEF Archive
<1>5. \A e \in emails' : \E f \in emails :
        /\ e \in Rows /\ e.owner = f.owner /\ e.primary = f.primary /\ e.from = f.from
        /\ e.live = (f.live /\ f.owner # p)
        /\ f.owner = p => e = [f EXCEPT !.live = FALSE]
        /\ f.owner # p => e = f
  <2> SUFFICES ASSUME NEW f \in emails
               PROVE  LET e == IF f.owner = p THEN [f EXCEPT !.live = FALSE] ELSE f IN
                        /\ e \in Rows /\ e.owner = f.owner /\ e.primary = f.primary /\ e.from = f.from
                        /\ e.live = (f.live /\ f.owner # p)
                        /\ f.owner = p => e = [f EXCEPT !.live = FALSE]
                        /\ f.owner # p => e = f
    BY Zenon DEF Archive, Cascaded
  <2>1. f \in Rows /\ f.live \in BOOLEAN
    BY Zenon DEF Types, TypeOK, Rows
  <2>2. CASE f.owner = p
    BY <2>1, <2>2, FlagTyped, Zenon
  <2>3. CASE f.owner # p
    BY <2>1, <2>3, Zenon
  <2> QED
    BY <2>2, <2>3
<1>6. overlapped' \in BOOLEAN /\ UNCHANGED audit
  BY Zenon DEF Archive, Starts
<1>7. Types'
  BY <1>3, <1>4, <1>5, <1>6 DEF Types, TypeOK, PersonRows, RequestRows
<1> HIDE DEF row
<1> QED
  BY <1>2, <1>3, <1>4, <1>5, <1>7 DEF Archive, OnlyPerson, OnlyRequest

LEMMA ReadRestoreDoes ==
  ASSUME Types, NEW r \in Requests, NEW p \in People, ReadRestore(r, p)
  PROVE  /\ Types' /\ OnlyRequest(r) /\ UNCHANGED <<person, emails, audit>>
         /\ req'[r].pc = "seen" /\ req'[r].p = p
         /\ person[p].state = "archived" /\ person[p].into = NoOne
<1> DEFINE row == [req[r] EXCEPT !.pc = "seen", !.p = p]
<1>1. req[r] \in RequestRows /\ req \in [Requests -> RequestRows]
  BY DEF Types, TypeOK, RequestRows
<1>2. row \in RequestRows /\ row.pc = "seen" /\ row.p = p
  BY <1>1, Zenon DEF RequestRows
<1>3. req' = [req EXCEPT ![r] = row]
  BY <1>1 DEF ReadRestore
<1> HIDE DEF row
<1>4. /\ req' \in [Requests -> RequestRows] /\ \A s \in Requests : About(s)'
      /\ req'[r] = row /\ \A s \in Requests \ {r} : req'[s] = req[s]
  BY <1>2, <1>3, RequestTyped
<1>5. overlapped' \in BOOLEAN
  BY Zenon DEF ReadRestore, Starts
<1> QED
  BY <1>2, <1>4, <1>5 DEF ReadRestore, Types, TypeOK, RequestRows, OnlyRequest

LEMMA CheckRestoreDoes ==
  ASSUME Types, NEW r \in Requests, CheckRestore(r)
  PROVE  /\ Types' /\ OnlyRequest(r) /\ UNCHANGED <<person, emails, audit, overlapped>>
         /\ req[r].pc = "seen" /\ req'[r].pc \in {"checked", "done"} /\ req'[r].p = req[r].p
<1>1. PICK pc \in {"checked", "done"} : Goto(r, pc)
  BY DEF CheckRestore
<1>2. req[r].p \in People
  BY DEF CheckRestore, Types, About
<1>3. /\ req' \in [Requests -> RequestRows] /\ \A s \in Requests : About(s)'
      /\ req'[r].pc = pc /\ req'[r].p = req[r].p
      /\ \A s \in Requests \ {r} : req'[s] = req[s]
  BY <1>1, <1>2, GotoTyped
<1> QED
  BY <1>3 DEF CheckRestore, Types, TypeOK, RequestRows, OnlyRequest

LEMMA CommitRestoreDoes ==
  ASSUME Types, NEW r \in Requests, CommitRestore(r)
  PROVE  /\ Types' /\ OnlyPerson(req[r].p) /\ OnlyRequest(r) /\ UNCHANGED <<audit, overlapped>>
         /\ req[r].pc = "checked" /\ req'[r].pc = "done" /\ req[r].p \in People
         /\ person'[req[r].p].into = person[req[r].p].into
         /\ person'[req[r].p].state =
              IF person[req[r].p].state = "archived" THEN "live" ELSE person[req[r].p].state
         /\ \A e \in emails' : \E f \in emails :
              /\ e.owner = f.owner /\ e.primary = f.primary /\ e.from = f.from
              /\ f.owner = req[r].p => e = [f EXCEPT !.live = TRUE] /\ e.live
              /\ f.owner # req[r].p => e = f
<1> DEFINE p   == req[r].p
           row == Restored(person[p])
<1>1. p \in People
  BY DEF CommitRestore, Types, About
<1>2. person[p] \in PersonRows
  BY <1>1 DEF Types, TypeOK, PersonRows
<1>3. /\ row \in PersonRows /\ row.into = person[p].into
      /\ row.state = IF person[p].state = "archived" THEN "live" ELSE person[p].state
  BY <1>2, TouchTyped DEF Restored, PersonRows
<1>4. /\ person' \in [People -> PersonRows]
      /\ person'[p] = row /\ \A q \in People \ {p} : person'[q] = person[q]
  <2>1. person' = [person EXCEPT ![p] = row]
    BY DEF CommitRestore
  <2> HIDE DEF row, p
  <2> QED
    BY <1>1, <1>3, <2>1, PersonTyped
<1>5. /\ req' \in [Requests -> RequestRows] /\ \A s \in Requests : About(s)'
      /\ req'[r].pc = "done" /\ \A s \in Requests \ {r} : req'[s] = req[s]
  BY GotoTyped DEF CommitRestore
<1>6. \A e \in emails' : \E f \in emails :
        /\ e \in Rows /\ e.owner = f.owner /\ e.primary = f.primary /\ e.from = f.from
        /\ f.owner = p => e = [f EXCEPT !.live = TRUE] /\ e.live
        /\ f.owner # p => e = f
  <2> SUFFICES ASSUME NEW f \in emails
               PROVE  LET e == IF f.owner = p THEN [f EXCEPT !.live = TRUE] ELSE f IN
                        /\ e \in Rows /\ e.owner = f.owner /\ e.primary = f.primary /\ e.from = f.from
                        /\ f.owner = p => e = [f EXCEPT !.live = TRUE] /\ e.live
                        /\ f.owner # p => e = f
    BY Zenon DEF CommitRestore
  <2>1. f \in Rows
    BY DEF Types, TypeOK
  <2>2. CASE f.owner = p
    BY <2>1, <2>2, FlagTyped, Zenon
  <2>3. CASE f.owner # p
    BY <2>1, <2>3, Zenon
  <2> QED
    BY <2>2, <2>3
<1>7. UNCHANGED <<audit, overlapped>> /\ req[r].pc = "checked"
  BY DEF CommitRestore
<1>8. Types'
  BY <1>4, <1>5, <1>6, <1>7 DEF Types, TypeOK, PersonRows, RequestRows
<1> HIDE DEF row
<1> QED
  BY <1>1, <1>3, <1>4, <1>5, <1>6, <1>7, <1>8 DEF OnlyPerson, OnlyRequest

LEMMA ValidateDoes ==
  ASSUME Types, NEW r \in Requests, NEW p \in People, NEW t \in People, Validate(r, p, t)
  PROVE  /\ Types' /\ OnlyRequest(r) /\ UNCHANGED <<person, emails, audit>>
         /\ req'[r].pc = "validated" /\ req'[r].p = p /\ req'[r].t = t /\ ValidPair(p, t)
<1> DEFINE row == [req[r] EXCEPT !.pc = "validated", !.p = p, !.t = t,
                                 !.version = person[p].version]
<1>1. req[r] \in RequestRows /\ req \in [Requests -> RequestRows] /\ person[p].version \in Nat
  BY DEF Types, TypeOK, RequestRows
<1>2. row \in RequestRows /\ row.pc = "validated" /\ row.p = p /\ row.t = t
  BY <1>1, Zenon DEF RequestRows
<1>3. req' = [req EXCEPT ![r] = row]
  BY <1>1 DEF Validate
<1> HIDE DEF row
<1>4. /\ req' \in [Requests -> RequestRows] /\ \A s \in Requests : About(s)'
      /\ req'[r] = row /\ \A s \in Requests \ {r} : req'[s] = req[s]
  BY <1>2, <1>3, RequestTyped
<1>5. overlapped' \in BOOLEAN
  BY Zenon DEF Validate, Starts
<1> QED
  BY <1>2, <1>4, <1>5 DEF Validate, Types, TypeOK, RequestRows, OnlyRequest

LEMMA RelinkDoes ==
  ASSUME Types, NEW r \in Requests, Relink(r)
  PROVE  /\ Types' /\ OnlyRequest(r) /\ UNCHANGED <<person, emails, audit, overlapped>>
         /\ req[r].pc = "validated" /\ req'[r].pc = "relinked"
         /\ req'[r].p = req[r].p /\ req'[r].t = req[r].t
         /\ req'[r].moved = LiveOf(req[r].p) /\ req'[r].demoted = HasPrimary(req[r].t)
<1> DEFINE row == [req[r] EXCEPT !.pc = "relinked", !.moved = LiveOf(req[r].p),
                                 !.demoted = HasPrimary(req[r].t)]
<1>1. req[r] \in RequestRows /\ req \in [Requests -> RequestRows] /\ emails \subseteq Rows
  BY DEF Types, TypeOK, RequestRows
<1>2. LiveOf(req[r].p) \in SUBSET Rows
  BY <1>1 DEF LiveOf
<1>3. HasPrimary(req[r].t) \in BOOLEAN
  BY Zenon DEF HasPrimary
<1>4. /\ row \in RequestRows /\ row.pc = "relinked" /\ row.p = req[r].p /\ row.t = req[r].t
      /\ row.moved = LiveOf(req[r].p) /\ row.demoted = HasPrimary(req[r].t)
  BY <1>1, <1>2, <1>3, Zenon DEF RequestRows
<1>5. req' = [req EXCEPT ![r] = row] /\ req[r].pc = "validated"
  BY <1>1 DEF Relink
<1>6. req[r].p \in People /\ req[r].t \in People
  BY <1>5 DEF Types, About
<1> HIDE DEF row
<1>7. /\ req' \in [Requests -> RequestRows] /\ \A s \in Requests : About(s)'
      /\ req'[r] = row /\ \A s \in Requests \ {r} : req'[s] = req[s]
  BY <1>4, <1>5, <1>6, RequestTyped
<1> QED
  BY <1>4, <1>5, <1>7 DEF Relink, Types, TypeOK, RequestRows, OnlyRequest

LEMMA CommitMergeDoes ==
  ASSUME Types, NEW r \in Requests, CommitMerge(r)
  PROVE  /\ Types' /\ OnlyPerson(req[r].p) /\ OnlyRequest(r) /\ UNCHANGED overlapped
         /\ req[r].pc = "relinked" /\ req'[r].pc = "done"
         /\ req[r].p \in People /\ req[r].t \in People
         /\ person[req[r].p].state = "live" /\ person[req[r].p].into = NoOne
         /\ person'[req[r].p].state = "archived" /\ person'[req[r].p].into = req[r].t
         /\ audit' = Append(audit, [loser |-> req[r].p, target |-> req[r].t,
                                    before |-> person[req[r].p].version])
         /\ emails' = {Moved(r, e) : e \in emails}
<1> DEFINE p   == req[r].p
           t   == req[r].t
           row == [Touch(person[p]) EXCEPT !.state = "archived", !.into = t]
<1>1. p \in People /\ t \in People /\ req[r].version \in Nat
  BY DEF CommitMerge, Types, About, TypeOK
<1>2. person[p] \in PersonRows
  BY <1>1 DEF Types, TypeOK, PersonRows
<1>3. row \in PersonRows /\ row.state = "archived" /\ row.into = t
  BY <1>1, <1>2, TouchTyped DEF PersonRows
<1>4. /\ person' \in [People -> PersonRows]
      /\ person'[p] = row /\ \A q \in People \ {p} : person'[q] = person[q]
  <2>1. person' = [person EXCEPT ![p] = row]
    BY DEF CommitMerge
  <2> HIDE DEF row, p
  <2> QED
    BY <1>1, <1>3, <2>1, PersonTyped
<1>5. /\ req' \in [Requests -> RequestRows] /\ \A s \in Requests : About(s)'
      /\ req'[r].pc = "done" /\ \A s \in Requests \ {r} : req'[s] = req[s]
  BY EndTyped DEF CommitMerge
<1>6. emails' \subseteq Rows
  BY <1>1, MovedTyped DEF CommitMerge, Types, TypeOK
<1>7. /\ person[p].version = req[r].version /\ person[p].state = "live"
      /\ person[p].into = NoOne
  BY DEF CommitMerge, StillMergeable
<1>8. audit' = Append(audit, [loser |-> p, target |-> t, before |-> person[p].version])
  BY <1>7 DEF CommitMerge
<1>9. audit' \in Seq([loser : People, target : People, before : Nat])
  BY <1>1, <1>7, <1>8 DEF Types, TypeOK
<1>10. Types'
  BY <1>4, <1>5, <1>6, <1>9 DEF CommitMerge, Types, TypeOK, PersonRows, RequestRows
<1> HIDE DEF row
<1> QED
  BY <1>1, <1>3, <1>4, <1>5, <1>7, <1>8, <1>10 DEF CommitMerge, OnlyPerson, OnlyRequest

LEMMA AbortDoes ==
  ASSUME Types, NEW r \in Requests, Abort(r)
  PROVE  /\ Types' /\ OnlyRequest(r) /\ UNCHANGED <<person, emails, audit, overlapped>>
         /\ req'[r].pc = "done"
<1>1. /\ req' \in [Requests -> RequestRows] /\ \A s \in Requests : About(s)'
      /\ req'[r].pc = "done" /\ \A s \in Requests \ {r} : req'[s] = req[s]
  BY EndTyped DEF Abort
<1> QED
  BY <1>1 DEF Abort, Types, TypeOK, RequestRows, OnlyRequest

-----------------------------------------------------------------------------
(* Types, and what a merge does for good. *)

LEMMA StepTyped == Types /\ [Next]_vars => Types'
<1> SUFFICES ASSUME Types, [Next]_vars PROVE Types'
  OBVIOUS
<1>1. CASE UNCHANGED vars
  BY <1>1 DEF vars, Types, TypeOK, About
<1> QED
  BY <1>1, CreateDoes, ArchiveDoes, ReadRestoreDoes, CheckRestoreDoes, CommitRestoreDoes,
     ValidateDoes, RelinkDoes, CommitMergeDoes, AbortDoes DEF Next

LEMMA AlwaysTyped == Spec => []Types
  BY InitTyped, StepTyped, PTL DEF Spec

\* People, e-mails, audit rows and requests have the declared types.
THEOREM TypeCorrect == Spec => []TypeOK
<1>1. Types => TypeOK
  BY DEF Types
<1> QED
  BY <1>1, AlwaysTyped, PTL

\* The only step that sets a pointer, and what it sets it from.
LEMMA OnlyMergesPoint ==
  ASSUME Types, [Next]_vars, ~\E r \in Requests : CommitMerge(r), NEW p \in People
  PROVE  person'[p].into = person[p].into
<1>1. ASSUME NEW q \in People, NEW given \in SUBSET Addresses, NEW main,
             Create(q, given, main)
      PROVE  person'[p].into = person[p].into
  BY <1>1, CreateDoes DEF OnlyPerson
<1>2. ASSUME NEW r \in Requests, NEW q \in People, Archive(r, q)
      PROVE  person'[p].into = person[p].into
  BY <1>2, ArchiveDoes DEF OnlyPerson
<1>3. ASSUME NEW r \in Requests, CommitRestore(r) PROVE person'[p].into = person[p].into
  BY <1>3, CommitRestoreDoes DEF OnlyPerson
<1>4. UNCHANGED person => person'[p].into = person[p].into
  OBVIOUS
<1> QED
  BY <1>1, <1>2, <1>3, <1>4, ReadRestoreDoes, CheckRestoreDoes, ValidateDoes,
     RelinkDoes, AbortDoes DEF Next, vars

LEMMA PointerStep ==
  ASSUME Types, [Next]_vars, NEW p \in People, person'[p].into # person[p].into
  PROVE  /\ person[p].into = NoOne
         /\ audit' = Append(audit, [loser |-> p, target |-> person'[p].into,
                                    before |-> person[p].version])
<1>1. PICK r \in Requests : CommitMerge(r)
  BY OnlyMergesPoint
<1>2. p = req[r].p
  BY <1>1, CommitMergeDoes DEF OnlyPerson
<1> QED
  BY <1>1, <1>2, CommitMergeDoes

\* A merge is final (the WHERE clause of Merge's UPDATE; PO-AC-M5).
THEOREM MergesAreFinal == Spec => MergedOnce
<1>1. Types /\ [Next]_vars =>
        [\A p \in People : person[p].into # NoOne => person'[p].into = person[p].into]_vars
  BY PointerStep
<1> QED
  BY <1>1, AlwaysTyped, PTL DEF Spec, MergedOnce

\* The audit row of a merge has the loser as the merge archived it (PO-AC-18).
THEOREM SnapshotsAreExact == Spec => SnapshotIsExact
<1>1. Types /\ [Next]_vars =>
        [\A p \in People : person'[p].into # person[p].into =>
           audit' = Append(audit, [loser |-> p, target |-> person'[p].into,
                                   before |-> person[p].version])]_vars
  BY PointerStep
<1> QED
  BY <1>1, AlwaysTyped, PTL DEF Spec, SnapshotIsExact

-----------------------------------------------------------------------------
(* One transaction at a time. *)

\* A transaction that is open is the only one.
Alone == \A r, s \in Open : r = s

\* What an open transaction has read still holds.
Fresh(r) ==
  /\ req[r].pc \in {"validated", "relinked"} => ValidPair(req[r].p, req[r].t)
  /\ req[r].pc = "relinked" => /\ req[r].moved = LiveOf(req[r].p)
                               /\ req[r].demoted = HasPrimary(req[r].t)
  /\ req[r].pc \in {"seen", "checked"} =>
       person[req[r].p].state = "archived" /\ person[req[r].p].into = NoOne

\* A merged person is archived, and its pointer is to a person of the table.
PointersFit ==
  \A p \in People :
    /\ person[p].state = "absent" => person[p].into = NoOne
    /\ person[p].into # NoOne =>
         person[p].state = "archived" /\ person[person[p].into].state # "absent"

\* The rows of a person are live exactly when the person is.
LiveFit ==
  \A e \in emails : person[e.owner].state # "absent" /\ (e.live <=> Survives(e.owner))

\* The primary rows of a person are of one Create.
OneOrigin ==
  \A e, f \in emails : e.owner = f.owner /\ e.primary /\ f.primary => e.from = f.from

Tables == PointersFit /\ LiveFit /\ OneOrigin

IInv == Types /\ (~overlapped => Alone /\ Tables /\ \A r \in Requests : Fresh(r))

LEMMA InitHolds == Init => IInv
<1> SUFFICES ASSUME Init PROVE IInv
  OBVIOUS
<1>1. Types
  BY InitTyped
<1>2. emails = {} /\ Open = {} /\ \A r \in Requests : req[r].pc = "new"
  BY DEF Init, Open
<1>3. \A p \in People : person[p].state = "absent" /\ person[p].into = NoOne
  BY DEF Init
<1> QED
  BY <1>1, <1>2, <1>3
  DEF IInv, Alone, Tables, PointersFit, LiveFit, OneOrigin, Fresh

\* A transaction that begins and overlaps nothing begins alone.
LEMMA BeginsAlone ==
  ASSUME overlapped' = (overlapped \/ Open # {}), ~overlapped'
  PROVE  ~overlapped /\ Open = {}
  BY Zenon

\* A transaction that is alone stays alone.
LEMMA StaysAlone ==
  ASSUME Alone, NEW r \in Requests, r \in Open \/ Open = {}, OnlyRequest(r), Fresh(r)'
  PROVE  Alone' /\ \A s \in Requests : Fresh(s)'
<1>1. \A s \in Requests \ {r} : req[s].pc \in {"new", "done"} /\ req'[s] = req[s]
  BY DEF Alone, Open, OnlyRequest
<1>2. Open' \subseteq {r}
  BY <1>1 DEF Open
<1>3. \A s \in Requests \ {r} : Fresh(s)'
  BY <1>1 DEF Fresh
<1> QED
  BY <1>2, <1>3 DEF Alone

LEMMA CreateTables ==
  ASSUME Types, Tables, NEW p \in People, NEW given \in SUBSET Addresses, NEW main,
         Create(p, given, main)
  PROVE  Tables'
<1>1. \A e \in emails' \ emails : e.owner = p /\ e.from = p /\ e.live
  BY CreateDoes
<1>2. /\ person[p].state = "absent" /\ person'[p].state = "live"
      /\ person'[p].into = person[p].into /\ OnlyPerson(p)
  BY CreateDoes
<1>3. person[p].into = NoOne /\ \A f \in emails : f.owner # p
  BY <1>2 DEF Tables, PointersFit, LiveFit
<1>4. \A q \in People : person[q].into # NoOne => person[q].into \in People
  BY DEF Types, TypeOK
<1>5. PointersFit'
  BY <1>2, <1>3, <1>4 DEF Tables, PointersFit, OnlyPerson
<1>6. LiveFit'
  <2>1. \A f \in emails : f.owner \in People \ {p}
    BY <1>3 DEF Types, TypeOK, Rows
  <2>2. \A f \in emails : person'[f.owner] = person[f.owner]
    BY <1>2, <2>1 DEF OnlyPerson
  <2>3. Survives(p)'
    BY <1>2, <1>3 DEF Survives
  <2> QED
    BY <1>1, <1>2, <2>2, <2>3 DEF Tables, LiveFit, Survives
<1>7. OneOrigin'
  BY <1>1, <1>3 DEF Tables, OneOrigin
<1> QED
  BY <1>5, <1>6, <1>7 DEF Tables

LEMMA ArchiveTables ==
  ASSUME Types, Tables, NEW r \in Requests, NEW p \in People, Archive(r, p)
  PROVE  Tables'
<1>1. /\ person[p].state = "live" /\ person'[p].state = "archived"
      /\ person'[p].into = person[p].into /\ OnlyPerson(p)
  BY ArchiveDoes
<1>2. \A e \in emails' : \E f \in emails :
        /\ e.owner = f.owner /\ e.primary = f.primary /\ e.from = f.from
        /\ e.live = (f.live /\ f.owner # p)
        /\ f.owner = p => e = [f EXCEPT !.live = FALSE]
        /\ f.owner # p => e = f
  BY ArchiveDoes
<1>3. \A q \in People : person[q].into # NoOne => person[q].into \in People
  BY DEF Types, TypeOK
<1>4. PointersFit'
  BY <1>1, <1>3 DEF Tables, PointersFit, OnlyPerson
<1>5. LiveFit'
  <2> SUFFICES ASSUME NEW e \in emails'
               PROVE  person'[e.owner].state # "absent" /\ (e.live <=> Survives(e.owner)')
    BY DEF LiveFit
  <2>1. PICK f \in emails : e.owner = f.owner /\ e.live = (f.live /\ f.owner # p)
    BY <1>2
  <2>2. /\ f.owner \in People /\ person[f.owner].state # "absent"
        /\ f.live <=> Survives(f.owner)
    BY DEF Types, TypeOK, Rows, Tables, LiveFit
  <2>3. CASE f.owner = p
    <3>1. ~e.live
      BY <2>1, <2>3, Zenon
    <3> QED
      BY <1>1, <2>1, <2>3, <3>1 DEF Survives
  <2>4. CASE f.owner # p
    <3>1. e.live <=> f.live
      BY <2>1, <2>4, Zenon
    <3>2. person'[f.owner] = person[f.owner]
      BY <1>1, <2>2, <2>4 DEF OnlyPerson
    <3> QED
      BY <2>1, <2>2, <3>1, <3>2 DEF Survives
  <2> QED
    BY <2>3, <2>4
<1>6. OneOrigin'
  <2> SUFFICES ASSUME NEW d \in emails', NEW e \in emails', d.owner = e.owner,
                      d.primary, e.primary
               PROVE  d.from = e.from
    BY DEF OneOrigin
  <2>1. PICK f \in emails : /\ d.owner = f.owner /\ d.primary = f.primary /\ d.from = f.from
                            /\ f.owner # p => d = f
    BY <1>2
  <2>2. PICK g \in emails : /\ e.owner = g.owner /\ e.primary = g.primary /\ e.from = g.from
                            /\ g.owner # p => e = g
    BY <1>2
  <2>3. f.primary /\ g.primary /\ f.owner = g.owner
    BY <2>1, <2>2, Zenon
  <2> QED
    BY <2>1, <2>2, <2>3 DEF Tables, OneOrigin
<1> QED
  BY <1>4, <1>5, <1>6 DEF Tables

\* The person a restore found archived and not merged away is so when it writes.
LEMMA RestoreTables ==
  ASSUME Types, Tables, NEW r \in Requests, Fresh(r), CommitRestore(r)
  PROVE  Tables'
<1> DEFINE p == req[r].p
<1>1. /\ p \in People /\ req[r].pc = "checked"
      /\ person'[p].into = person[p].into /\ OnlyPerson(p)
      /\ person'[p].state =
           IF person[p].state = "archived" THEN "live" ELSE person[p].state
  BY CommitRestoreDoes
<1>2. person[p].state = "archived" /\ person[p].into = NoOne
  BY <1>1 DEF Fresh
<1>3. \A e \in emails' : \E f \in emails :
        /\ e.owner = f.owner /\ e.primary = f.primary /\ e.from = f.from
        /\ f.owner = p => e = [f EXCEPT !.live = TRUE] /\ e.live
        /\ f.owner # p => e = f
  BY CommitRestoreDoes
<1> HIDE DEF p
<1>4. \A q \in People : person[q].into # NoOne => person[q].into \in People
  BY DEF Types, TypeOK
<1>5. PointersFit'
  BY <1>1, <1>2, <1>4 DEF Tables, PointersFit, OnlyPerson
<1>6. LiveFit'
  <2> SUFFICES ASSUME NEW e \in emails'
               PROVE  person'[e.owner].state # "absent" /\ (e.live <=> Survives(e.owner)')
    BY DEF LiveFit
  <2>1. PICK f \in emails : /\ e.owner = f.owner
                            /\ f.owner = p => e.live
                            /\ f.owner # p => e = f
    BY <1>3
  <2>2. /\ f.owner \in People /\ person[f.owner].state # "absent"
        /\ f.live <=> Survives(f.owner)
    BY DEF Types, TypeOK, Rows, Tables, LiveFit
  <2>3. CASE f.owner = p
    BY <1>1, <1>2, <2>1, <2>3 DEF Survives
  <2>4. CASE f.owner # p
    <3>1. person'[f.owner] = person[f.owner]
      BY <1>1, <2>2, <2>4 DEF OnlyPerson
    <3> QED
      BY <2>1, <2>2, <2>4, <3>1 DEF Survives
  <2> QED
    BY <2>3, <2>4
<1>7. OneOrigin'
  <2> SUFFICES ASSUME NEW d \in emails', NEW e \in emails', d.owner = e.owner,
                      d.primary, e.primary
               PROVE  d.from = e.from
    BY DEF OneOrigin
  <2>1. PICK f \in emails : d.owner = f.owner /\ d.primary = f.primary /\ d.from = f.from
    BY <1>3
  <2>2. PICK g \in emails : e.owner = g.owner /\ e.primary = g.primary /\ e.from = g.from
    BY <1>3
  <2>3. f.primary /\ g.primary /\ f.owner = g.owner
    BY <2>1, <2>2, Zenon
  <2> QED
    BY <2>1, <2>2, <2>3 DEF Tables, OneOrigin
<1> QED
  BY <1>5, <1>6, <1>7 DEF Tables

\* The rows a merge moves are all the loser has, and go to a person who is live.
LEMMA MergeTables ==
  ASSUME Types, Tables, NEW r \in Requests, Fresh(r), CommitMerge(r)
  PROVE  Tables'
<1>0. PICK p \in People, t \in People : p = req[r].p /\ t = req[r].t
  BY CommitMergeDoes
<1>1. /\ p \in People /\ t \in People /\ req[r].pc = "relinked"
      /\ person[p].state = "live" /\ person[p].into = NoOne
      /\ person'[p].state = "archived" /\ person'[p].into = t /\ OnlyPerson(p)
      /\ emails' = {Moved(r, e) : e \in emails}
  BY <1>0, CommitMergeDoes
<1>2. /\ ValidPair(p, t) /\ req[r].moved = LiveOf(p)
      /\ req[r].demoted = HasPrimary(t)
  BY <1>0, <1>1 DEF Fresh
<1>3. \A e \in emails : e \in req[r].moved <=> e.owner = p
  <2>1. Survives(p)
    BY <1>1 DEF Survives
  <2> QED
    BY <1>2, <2>1 DEF LiveOf, Tables, LiveFit
<1>4. p # t /\ person[t].state = "live" /\ person[t].into = NoOne /\ person'[t] = person[t]
  BY <1>1, <1>2 DEF ValidPair, OnlyPerson
<1>5. \A e \in emails :
        /\ e \in Rows
        /\ Moved(r, e).live = e.live /\ Moved(r, e).from = e.from
        /\ Moved(r, e).owner = IF e.owner = p THEN t ELSE e.owner
        /\ Moved(r, e).primary => e.primary
        /\ e.owner = p /\ Moved(r, e).primary => ~req[r].demoted
        /\ e.owner # p => Moved(r, e) = e
  <2> TAKE e \in emails
  <2>1. e \in Rows
    BY DEF Types, TypeOK
  <2>2. e.owner # p => Moved(r, e) = e
    BY <1>3, Zenon DEF Moved
  <2> QED
    <3>1. /\ Moved(r, e).live = e.live /\ Moved(r, e).from = e.from
          /\ Moved(r, e).owner = IF e \in req[r].moved THEN req[r].t ELSE e.owner
          /\ Moved(r, e).primary => e.primary
          /\ e \in req[r].moved /\ Moved(r, e).primary => ~req[r].demoted
      BY <1>0, <1>1, <2>1, MovedTyped
    <3> QED
      BY <1>0, <1>3, <2>1, <2>2, <3>1, Zenon
<1>6. \A q \in People : person[q].into # NoOne => person[q].into \in People
  BY DEF Types, TypeOK
<1>7. PointersFit'
  BY <1>1, <1>4, <1>6 DEF Tables, PointersFit, OnlyPerson
<1>8. LiveFit'
  <2> SUFFICES ASSUME NEW e \in emails'
               PROVE  person'[e.owner].state # "absent" /\ (e.live <=> Survives(e.owner)')
    BY DEF LiveFit
  <2>1. PICK f \in emails : e = Moved(r, f)
    BY <1>1
  <2>2. /\ f.owner \in People /\ person[f.owner].state # "absent"
        /\ f.live <=> Survives(f.owner)
    BY DEF Types, TypeOK, Rows, Tables, LiveFit
  <2>3. CASE f.owner = p
    <3>1. Survives(p) /\ Survives(t)'
      BY <1>1, <1>4 DEF Survives
    <3>2. e.owner = t /\ e.live = f.live
      BY <1>5, <2>1, <2>3
    <3>3. e.live
      BY <2>2, <2>3, <3>1, <3>2, Zenon
    <3> QED
      BY <1>4, <3>1, <3>2, <3>3
  <2>4. CASE f.owner # p
    <3>1. e = f /\ person'[f.owner] = person[f.owner]
      BY <1>1, <1>5, <2>1, <2>2, <2>4 DEF OnlyPerson
    <3> QED
      BY <2>2, <3>1 DEF Survives
  <2> QED
    BY <2>3, <2>4
<1>9. OneOrigin'
  <2> SUFFICES ASSUME NEW d \in emails', NEW g \in emails', d.owner = g.owner,
                      d.primary, g.primary
               PROVE  d.from = g.from
    BY DEF OneOrigin
  <2>0. PICK e \in emails, f \in emails : d = Moved(r, e) /\ g = Moved(r, f)
    BY <1>1
  <2>00. Moved(r, e).owner = Moved(r, f).owner /\ Moved(r, e).primary /\ Moved(r, f).primary
    BY <2>0
  <2> SUFFICES e.from = f.from
    BY <1>5, <2>0
  <2>1. e.primary /\ f.primary
    BY <1>5, <2>00, Zenon
  <2>2. CASE e.owner = f.owner
    BY <2>1, <2>2 DEF Tables, OneOrigin
  <2>3. ASSUME NEW x \in emails, NEW y \in emails, x.owner = p, y.owner # p,
               Moved(r, x).owner = Moved(r, y).owner, Moved(r, x).primary, y.primary
        PROVE  FALSE
    <3>1. y.owner = t /\ ~req[r].demoted
      BY <1>5, <2>3
    <3>2. y.live
      BY <1>4, <3>1 DEF Tables, LiveFit, Survives
    <3>3. HasPrimary(t)
      BY <2>3, <3>1, <3>2 DEF HasPrimary, LiveOf
    <3> QED
      BY <1>2, <3>1, <3>3
  <2>4. CASE e.owner = p /\ f.owner # p
    BY <2>00, <2>1, <2>3, <2>4, Zenon
  <2>5. CASE e.owner # p /\ f.owner = p
    BY <2>00, <2>1, <2>3, <2>5, Zenon
  <2>6. CASE e.owner # p /\ f.owner # p
    <3>1. Moved(r, e) = e /\ Moved(r, f) = f
      BY <1>5, <2>6
    <3>2. e.owner = f.owner
      BY <2>00, <3>1
    <3> QED
      BY <2>2, <3>2
  <2> QED
    BY <2>2, <2>4, <2>5, <2>6
<1> QED
  BY <1>7, <1>8, <1>9 DEF Tables

\* A step after which no transaction has ever overlapped another, of a request that was
\* open or that begins.
LEMMA RequestHolds ==
  ASSUME IInv, NEW r \in Requests, OnlyRequest(r), Types',
         \/ UNCHANGED overlapped /\ r \in Open
         \/ overlapped' = (overlapped \/ Open # {}),
         ~overlapped /\ Alone /\ Tables /\ Fresh(r) => Tables' /\ Fresh(r)'
  PROVE  IInv'
<1> SUFFICES ASSUME ~overlapped'
             PROVE  Alone' /\ Tables' /\ \A s \in Requests : Fresh(s)'
  BY DEF IInv
<1>1. ~overlapped /\ (r \in Open \/ Open = {})
  BY BeginsAlone
<1>2. Alone /\ Tables /\ Fresh(r)
  BY <1>1 DEF IInv
<1>3. Tables' /\ Fresh(r)'
  BY <1>1, <1>2
<1> QED
  BY <1>1, <1>2, <1>3, StaysAlone

LEMMA StepHolds == IInv /\ [Next]_vars => IInv'
<1> SUFFICES ASSUME IInv, [Next]_vars PROVE IInv'
  OBVIOUS
<1>0. Types /\ Types'
  BY StepTyped DEF IInv
<1>1. CASE UNCHANGED vars
  <2>1. UNCHANGED <<person, emails, req, overlapped>>
    BY <1>1 DEF vars
  <2>2. Alone => Alone'
    BY <2>1 DEF Alone, Open
  <2>3. Tables => Tables'
    BY <2>1 DEF Tables, PointersFit, LiveFit, Survives, OneOrigin
  <2>4. \A r \in Requests : Fresh(r) => Fresh(r)'
    BY <2>1 DEF Fresh, ValidPair, LiveOf, HasPrimary
  <2> QED
    BY <1>0, <2>1, <2>2, <2>3, <2>4 DEF IInv
<1>2. ASSUME NEW p \in People, NEW given \in SUBSET Addresses, NEW main,
             Create(p, given, main)
      PROVE  IInv'
  <2> SUFFICES ASSUME ~overlapped'
               PROVE  Alone' /\ Tables' /\ \A s \in Requests : Fresh(s)'
    BY <1>0 DEF IInv
  <2>1. ~overlapped /\ Open = {}
    BY <1>2, BeginsAlone DEF Create
  <2>2. UNCHANGED req
    BY <1>2 DEF Create
  <2>3. \A s \in Requests : req'[s].pc \in {"new", "done"}
    BY <2>1, <2>2 DEF Open
  <2>4. Alone' /\ \A s \in Requests : Fresh(s)'
    BY <2>3 DEF Alone, Open, Fresh
  <2>5. Tables'
    BY <1>0, <1>2, <2>1, CreateTables DEF IInv
  <2> QED
    BY <2>4, <2>5
<1>3. ASSUME NEW r \in Requests, NEW p \in People, Archive(r, p)
      PROVE  IInv'
  <2>1. OnlyRequest(r) /\ Fresh(r)'
    BY <1>0, <1>3, ArchiveDoes DEF Fresh
  <2>2. overlapped' = (overlapped \/ Open # {})
    BY <1>3 DEF Archive, Starts
  <2>3. Tables => Tables'
    BY <1>0, <1>3, ArchiveTables
  <2> QED
    BY <1>0, <2>1, <2>2, <2>3, RequestHolds
<1>4. ASSUME NEW r \in Requests, NEW p \in People, ReadRestore(r, p)
      PROVE  IInv'
  <2>1. /\ OnlyRequest(r) /\ UNCHANGED <<person, emails>>
        /\ req'[r].pc = "seen" /\ req'[r].p = p
        /\ person[p].state = "archived" /\ person[p].into = NoOne
    BY <1>0, <1>4, ReadRestoreDoes
  <2>2. Fresh(r)'
    BY <2>1 DEF Fresh
  <2>3. overlapped' = (overlapped \/ Open # {})
    BY <1>4 DEF ReadRestore, Starts
  <2>4. Tables => Tables'
    BY <2>1 DEF Tables, PointersFit, LiveFit, Survives, OneOrigin
  <2> QED
    BY <1>0, <2>1, <2>2, <2>3, <2>4, RequestHolds
<1>5. ASSUME NEW r \in Requests, CheckRestore(r)
      PROVE  IInv'
  <2>1. /\ OnlyRequest(r) /\ UNCHANGED <<person, emails, overlapped>> /\ req[r].pc = "seen"
        /\ req'[r].pc \in {"checked", "done"} /\ req'[r].p = req[r].p
    BY <1>0, <1>5, CheckRestoreDoes
  <2>2. r \in Open
    BY <2>1 DEF Open
  <2>3. Fresh(r) => Fresh(r)'
    BY <2>1 DEF Fresh
  <2>4. Tables => Tables'
    BY <2>1 DEF Tables, PointersFit, LiveFit, Survives, OneOrigin
  <2> QED
    BY <1>0, <2>1, <2>2, <2>3, <2>4, RequestHolds
<1>6. ASSUME NEW r \in Requests, CommitRestore(r)
      PROVE  IInv'
  <2>1. /\ OnlyRequest(r) /\ UNCHANGED overlapped
        /\ req[r].pc = "checked" /\ req'[r].pc = "done"
    BY <1>0, <1>6, CommitRestoreDoes
  <2>2. r \in Open /\ Fresh(r)'
    BY <2>1 DEF Open, Fresh
  <2>3. Tables /\ Fresh(r) => Tables'
    BY <1>0, <1>6, RestoreTables
  <2> QED
    BY <1>0, <2>1, <2>2, <2>3, RequestHolds
<1>7. ASSUME NEW r \in Requests, NEW p \in People, NEW t \in People, Validate(r, p, t)
      PROVE  IInv'
  <2>1. /\ OnlyRequest(r) /\ UNCHANGED <<person, emails>>
        /\ req'[r].pc = "validated" /\ req'[r].p = p /\ req'[r].t = t /\ ValidPair(p, t)
    BY <1>0, <1>7, ValidateDoes
  <2>2. Fresh(r)'
    BY <2>1 DEF Fresh, ValidPair
  <2>3. overlapped' = (overlapped \/ Open # {})
    BY <1>7 DEF Validate, Starts
  <2>4. Tables => Tables'
    BY <2>1 DEF Tables, PointersFit, LiveFit, Survives, OneOrigin
  <2> QED
    BY <1>0, <2>1, <2>2, <2>3, <2>4, RequestHolds
<1>8. ASSUME NEW r \in Requests, Relink(r)
      PROVE  IInv'
  <2>1. /\ OnlyRequest(r) /\ UNCHANGED <<person, emails, overlapped>>
        /\ req[r].pc = "validated" /\ req'[r].pc = "relinked"
        /\ req'[r].p = req[r].p /\ req'[r].t = req[r].t
        /\ req'[r].moved = LiveOf(req[r].p) /\ req'[r].demoted = HasPrimary(req[r].t)
    BY <1>0, <1>8, RelinkDoes
  <2>2. r \in Open
    BY <2>1 DEF Open
  <2>3. Fresh(r) => Fresh(r)'
    BY <2>1 DEF Fresh, ValidPair, LiveOf, HasPrimary
  <2>4. Tables => Tables'
    BY <2>1 DEF Tables, PointersFit, LiveFit, Survives, OneOrigin
  <2> QED
    BY <1>0, <2>1, <2>2, <2>3, <2>4, RequestHolds
<1>9. ASSUME NEW r \in Requests, CommitMerge(r)
      PROVE  IInv'
  <2>1. /\ OnlyRequest(r) /\ UNCHANGED overlapped
        /\ req[r].pc = "relinked" /\ req'[r].pc = "done"
    BY <1>0, <1>9, CommitMergeDoes
  <2>2. r \in Open /\ Fresh(r)'
    BY <2>1 DEF Open, Fresh
  <2>3. Tables /\ Fresh(r) => Tables'
    BY <1>0, <1>9, MergeTables
  <2> QED
    BY <1>0, <2>1, <2>2, <2>3, RequestHolds
<1>10. ASSUME NEW r \in Requests, Abort(r)
       PROVE  IInv'
  <2>1. /\ OnlyRequest(r) /\ UNCHANGED <<person, emails, overlapped>> /\ req'[r].pc = "done"
    BY <1>0, <1>10, AbortDoes
  <2>2. r \in Open /\ Fresh(r)'
    BY <1>10, <2>1 DEF Abort, Fresh
  <2>3. Tables => Tables'
    BY <2>1 DEF Tables, PointersFit, LiveFit, Survives, OneOrigin
  <2> QED
    BY <1>0, <2>1, <2>2, <2>3, RequestHolds
<1> QED
  BY <1>1, <1>2, <1>3, <1>4, <1>5, <1>6, <1>7, <1>8, <1>9, <1>10 DEF Next

-----------------------------------------------------------------------------
(* Chains of merge pointers. *)

IntoOf == [q \in People |-> person[q].into]

LEMMA IntoPoints == Types => Pointers(IntoOf, NoOne, People)
<1> SUFFICES ASSUME Types PROVE Pointers(IntoOf, NoOne, People)
  OBVIOUS
<1>1. ASSUME NEW q \in People PROVE person[q].into \in People \cup {NoOne}
  <2>1. person[q] \in PersonRows
    BY DEF Types, TypeOK, PersonRows
  <2> QED
    BY <2>1, Zenon DEF PersonRows
<1> QED
  BY <1>1, MergeAssumption DEF Pointers, IntoOf

\* Chain is the walk along the pointers.
LEMMA ChainClimbs ==
  ASSUME Types, NEW p \in People
  PROVE  \E f : Climbs(IntoOf, NoOne, p, Cardinality(People), f) /\ Chain(p) = f[Cardinality(People)]
<1> DEFINE k == Cardinality(People)
           Is(f) == f = [n \in 0..k |-> IF n = 0 THEN {p}
                           ELSE f[n-1] \cup {person[q].into : q \in f[n-1] \ {NoOne}}]
           reach == CHOOSE f : Is(f)
<1>1. Chain(p) = reach[k]
  BY DEF Chain
<1>2. k \in Nat
  BY MergeAssumption, FS_CardinalityType
<1> HIDE DEF k
<1>3. PICK g : Recursion(IntoOf, NoOne, p, k, g)
  BY <1>2, ClimbExists
<1>4. Climbs(IntoOf, NoOne, p, k, g)
  BY <1>2, <1>3, RecursionClimbs
<1>5. \A n \in 0..k : g[n] \subseteq People \cup {NoOne}
  BY <1>2, <1>4, IntoPoints, ClimbTyped
<1>6. ASSUME NEW A \in SUBSET (People \cup {NoOne})
      PROVE  Above(IntoOf, NoOne, A) = A \cup {person[q].into : q \in A \ {NoOne}}
  BY DEF Above, IntoOf
<1>7. Is(g)
  <2>1. \A n \in 0..k : n # 0 =>
          Above(IntoOf, NoOne, g[n-1]) = g[n-1] \cup {person[q].into : q \in g[n-1] \ {NoOne}}
    BY <1>2, <1>5, <1>6
  <2> QED
    BY <1>3, <2>1 DEF Recursion
<1>8. Is(reach)
  BY <1>7
<1> HIDE DEF reach
<1>9. reach[0] = {p} /\ \A n \in 0..k : n < k =>
        reach[n+1] = reach[n] \cup {person[q].into : q \in reach[n] \ {NoOne}}
  <2>1. \A n \in 0..k : reach[n] = IF n = 0 THEN {p}
           ELSE reach[n-1] \cup {person[q].into : q \in reach[n-1] \ {NoOne}}
    BY <1>8
  <2>2. 0 \in 0..k
    BY <1>2
  <2>3. reach[0] = {p}
    BY <2>1, <2>2
  <2>4. ASSUME NEW n \in 0..k, n < k
        PROVE  reach[n+1] = reach[n] \cup {person[q].into : q \in reach[n] \ {NoOne}}
    <3>1. n + 1 \in 0..k /\ n + 1 # 0 /\ (n + 1) - 1 = n
      BY <1>2, <2>4
    <3> QED
      BY <2>1, <3>1
  <2> QED
    BY <2>3, <2>4
<1> DEFINE S == {n \in 0..k : reach[n] = g[n]}
<1>10. 0 \in S
  <2>1. 0 \in 0..k
    BY <1>2
  <2>2. g[0] = {p}
    BY <1>4 DEF Climbs
  <2>3. reach[0] = {p}
    BY <1>9
  <2> QED
    BY <2>1, <2>2, <2>3
<1>11. ASSUME NEW n \in 0..k, n \in S, n < k PROVE n + 1 \in S
  <2>1. reach[n+1] = Above(IntoOf, NoOne, g[n])
    BY <1>5, <1>6, <1>9, <1>11
  <2> QED
    BY <1>2, <1>4, <1>11, <2>1 DEF Climbs
<1>12. k \in S
  <2>1. \A n \in 0..k : n \in S
    <3> HIDE DEF S
    <3> QED
      BY <1>2, <1>10, <1>11, UpTo
  <2> QED
    BY <1>2, <2>1
<1> QED
  BY <1>1, <1>4, <1>12 DEF k

\* As long as no two transactions have overlapped, the pointers have a rank.
ChainInvariant ==
  IInv /\ (~overlapped => \E rank \in [People -> Nat] : Ranks(IntoOf, People, rank))

LEMMA ChainInitHolds == Init => ChainInvariant
<1> SUFFICES ASSUME Init PROVE ChainInvariant
  OBVIOUS
<1> DEFINE rank == [p \in People |-> 0]
<1>1. rank \in [People -> Nat] /\ Ranks(IntoOf, People, rank)
  BY MergeAssumption DEF Init, Ranks, IntoOf
<1> QED
  BY <1>1, InitHolds DEF ChainInvariant

\* A merge that is alone points a person who is not merged to another who is not.
LEMMA MergeKeepsRank ==
  ASSUME ChainInvariant, ~overlapped, NEW r \in Requests, CommitMerge(r)
  PROVE  \E rank \in [People -> Nat] : Ranks(IntoOf, People, rank)'
<1>1. PICK p, t : p = req[r].p /\ t = req[r].t
  OBVIOUS
<1>2. Types /\ Fresh(r)
  BY DEF ChainInvariant, IInv
<1>3. /\ p \in People /\ t \in People /\ p # t /\ person[t].into = NoOne
      /\ person'[p].into = t /\ OnlyPerson(p)
  BY <1>1, <1>2, CommitMergeDoes DEF Fresh, ValidPair
<1>4. PICK rank \in [People -> Nat] : Ranks(IntoOf, People, rank)
  BY DEF ChainInvariant
<1>5. [IntoOf EXCEPT ![p] = t] = IntoOf'
  BY <1>3 DEF IntoOf, OnlyPerson
<1> DEFINE f == [n \in 0..1 |-> IF n = 0 THEN {t} ELSE {t, NoOne}]
<1>6. Climbs(IntoOf, NoOne, t, 1, f) /\ p \notin f[1] /\ NoOne \in f[1]
  <2>1. f[0] = {t} /\ f[1] = {t, NoOne} /\ NoOne \notin People
    BY MergeAssumption
  <2>2. Above(IntoOf, NoOne, {t}) = {t, NoOne}
    <3>1. {t} \ {NoOne} = {t}
      BY <1>3, <2>1
    <3>2. IntoOf[t] = NoOne
      BY <1>3 DEF IntoOf
    <3> QED
      BY <3>1, <3>2 DEF Above
  <2>3. \A n \in 0..1 : n < 1 => n = 0
    OBVIOUS
  <2> HIDE DEF f
  <2> QED
    BY <1>3, <2>1, <2>2, <2>3 DEF Climbs
<1> HIDE DEF f
<1>7. \E new \in [People -> Nat] : Ranks([IntoOf EXCEPT ![p] = t], People, new)
  BY <1>2, <1>3, <1>4, <1>6, IntoPoints, NewPointerRanked
<1> QED
  BY <1>5, <1>7 DEF Ranks

LEMMA ChainStepHolds == ChainInvariant /\ [Next]_vars => ChainInvariant'
<1> SUFFICES ASSUME ChainInvariant, [Next]_vars, ~overlapped'
             PROVE  \E rank \in [People -> Nat] : Ranks(IntoOf, People, rank)'
  BY StepHolds DEF ChainInvariant
<1>1. ~overlapped
  BY Zenon DEF Next, vars, Create, Archive, ReadRestore, CheckRestore, CommitRestore, Validate,
               Relink, CommitMerge, Abort, Starts
<1>2. CASE \E r \in Requests : CommitMerge(r)
  BY <1>1, <1>2, MergeKeepsRank
<1>3. CASE \A p \in People : person'[p].into = person[p].into
  BY <1>1, <1>3 DEF ChainInvariant, Ranks, IntoOf
<1>4. \/ \E r \in Requests : CommitMerge(r)
      \/ \A p \in People : person'[p].into = person[p].into
  BY OnlyMergesPoint DEF ChainInvariant, IInv
<1> QED
  BY <1>2, <1>3, <1>4

\* While no two transactions have overlapped, pointers, e-mails and primary flags fit
\* together, and the chains of pointers end: every write of Archive, Restore and Merge acts
\* on what its reads found.
THEOREM SequentialIsSound == Spec => []DamageNeedsOverlap
<1>1. ASSUME Tables, NEW p \in People
      PROVE  \A e, f \in LiveOf(p) : e.primary /\ f.primary => e.from = f.from
  BY <1>1 DEF Tables, OneOrigin, LiveOf
<1>2. ASSUME ChainInvariant, ~overlapped PROVE ChainsEnd
  <2>1. PICK rank \in [People -> Nat] : Ranks(IntoOf, People, rank)
    BY <1>2 DEF ChainInvariant
  <2> QED
    BY <1>2, <2>1, IntoPoints, ChainClimbs, RankedIsRooted DEF ChainInvariant, IInv, ChainsEnd
<1>3. ChainInvariant => DamageNeedsOverlap
  BY <1>1, <1>2 DEF ChainInvariant, IInv, DamageNeedsOverlap, Tables, PointersFit, LiveFit
<1>4. Spec => []ChainInvariant
  BY ChainInitHolds, ChainStepHolds, PTL DEF Spec
<1> QED
  BY <1>3, <1>4, PTL

-----------------------------------------------------------------------------
(* Organizations: types. *)

OrgRows    == [state : {"absent", "live", "archived"}, into : Orgs \cup {NoOrg},
               parent : Orgs \cup {NoOrg}, version : Nat]
DomainRows == [owner : Orgs \cup {NoOrg}, primary : BOOLEAN]
OrgReqRows == [pc : OrgPcs, o : Orgs \cup {NoOrg}, t : Orgs \cup {NoOrg}, version : Nat,
               domains : SUBSET Domains, links : SUBSET Links, demoted : BOOLEAN,
               partner : {"none", "collapsed", "moved"}]

\* An open request is about organizations of the table.
OrgAbout(r) ==
  /\ orgReq[r].pc \in {"parented", "seen", "validated", "relinked"} => orgReq[r].o \in Orgs
  /\ orgReq[r].pc \in {"parented", "validated", "relinked"} => orgReq[r].t \in Orgs

OrgTables ==
  /\ org \in [Orgs -> OrgRows] /\ domain \in [Domains -> DomainRows]
  /\ link \in [Links -> Orgs \cup {NoOrg}] /\ partner \in [Orgs -> {"none", "live", "archived"}]

OrgTypes ==
  /\ OrgTables /\ orgsOverlap \in BOOLEAN /\ parentsCross \in BOOLEAN
  /\ orgReq \in [OrgRequests -> OrgReqRows] /\ \A r \in OrgRequests : OrgAbout(r)

LEMMA NoRequestTyped == NoRequest \in OrgReqRows /\ NoRequest.pc = "new"
  BY Zenon DEF NoRequest, OrgReqRows, OrgPcs

\* A row of the table whose version counts a step, with what else the step sets.
LEMMA TouchedTyped ==
  ASSUME NEW row \in OrgRows
  PROVE  /\ OrgTouch(row) \in OrgRows /\ OrgTouch(row).state = row.state
         /\ OrgTouch(row).into = row.into /\ OrgTouch(row).parent = row.parent
  BY DEF OrgTouch, OrgRows

LEMMA OrgTyped ==
  ASSUME OrgTypes, NEW o \in Orgs, NEW row \in OrgRows, org' = [org EXCEPT ![o] = row]
  PROVE  /\ org' \in [Orgs -> OrgRows] /\ org'[o] = row
         /\ \A x \in Orgs : x # o => org'[x] = org[x]
  BY DEF OrgTypes, OrgTables

LEMMA OrgReqTyped ==
  ASSUME OrgTypes, NEW r \in OrgRequests, NEW row \in OrgReqRows,
         row.pc \in {"parented", "seen", "validated", "relinked"} => row.o \in Orgs,
         row.pc \in {"parented", "validated", "relinked"} => row.t \in Orgs,
         orgReq' = [orgReq EXCEPT ![r] = row]
  PROVE  /\ orgReq' \in [OrgRequests -> OrgReqRows] /\ \A s \in OrgRequests : OrgAbout(s)'
         /\ orgReq'[r] = row /\ \A s \in OrgRequests : s # r => orgReq'[s] = orgReq[s]
<1>1. /\ orgReq' \in [OrgRequests -> OrgReqRows]
      /\ orgReq'[r] = row /\ \A s \in OrgRequests : s # r => orgReq'[s] = orgReq[s]
  BY DEF OrgTypes
<1>2. \A s \in OrgRequests : OrgAbout(s)'
  BY <1>1 DEF OrgTypes, OrgAbout
<1> QED
  BY <1>1, <1>2

-----------------------------------------------------------------------------
(* Organizations: a transaction that is alone finds what it read. *)

Opened(r) == orgReq[r].pc \notin {"new", "done"}

OrgFresh(r) ==
  LET o == orgReq[r].o
      t == orgReq[r].t
  IN  /\ orgReq[r].pc = "seen" => org[o].into = NoOrg
      /\ orgReq[r].pc \in {"validated", "relinked"} => ValidOrgPair(o, t)
      /\ orgReq[r].pc = "relinked" =>
           /\ orgReq[r].domains = DomainsOf(o) /\ orgReq[r].links = LinksOf(o)
           /\ orgReq[r].demoted = HasPrimaryDomain(t)
           /\ orgReq[r].partner = PartnerChange(o, t)

\* Who is merged away is archived and owns nothing; who owns a domain has one primary.
OrgsFit ==
  /\ \A o \in Orgs : org[o].into # NoOrg =>
       org[o].state = "archived" /\ \A d \in Domains : domain[d].owner # o
  /\ \A d \in Domains : domain[d].owner # NoOrg =>
       /\ org[domain[d].owner].state # "absent"
       /\ \E e \in Domains : domain[e].owner = domain[d].owner /\ domain[e].primary
  /\ \A d, e \in Domains :
       domain[d].primary /\ domain[e].primary /\ domain[d].owner = domain[e].owner => d = e

OrgInvariant ==
  /\ OrgTypes
  /\ ~orgsOverlap =>
       /\ \A r, s \in OrgRequests : Opened(r) /\ Opened(s) => r = s
       /\ OrgsFit /\ \A r \in OrgRequests : OrgFresh(r)

LEMMA OrgInitHolds == OrgInit => OrgInvariant
<1> SUFFICES ASSUME OrgInit PROVE OrgInvariant
  OBVIOUS
<1> DEFINE absent == [state |-> "absent", into |-> NoOrg, parent |-> NoOrg, version |-> 1]
           none   == [owner |-> NoOrg, primary |-> FALSE]
<1>1. /\ absent \in OrgRows /\ absent.into = NoOrg
      /\ none \in DomainRows /\ none.owner = NoOrg /\ ~none.primary
  BY DEF OrgRows, DomainRows
<1>2. org = [o \in Orgs |-> absent] /\ domain = [d \in Domains |-> none]
  BY DEF OrgInit
<1>3. orgReq = [r \in OrgRequests |-> NoRequest] /\ NoRequest \in OrgReqRows /\ NoRequest.pc = "new"
  BY NoRequestTyped DEF OrgInit
<1> HIDE DEF absent, none
<1>4. OrgTypes
  BY <1>1, <1>2, <1>3 DEF OrgInit, OrgTypes, OrgTables, OrgAbout
<1>5. OrgsFit
  BY <1>1, <1>2 DEF OrgsFit
<1>6. \A r \in OrgRequests : OrgFresh(r) /\ ~Opened(r)
  BY <1>3 DEF OrgFresh, Opened
<1> QED
  BY <1>4, <1>5, <1>6 DEF OrgInvariant

\* While nothing overlaps, the others are idle before the step of a request.
Idle(r) == \A s \in OrgRequests : s # r => ~Opened(s)

LEMMA StartsAlone ==
  ASSUME OrgInvariant, NEW r \in OrgRequests, OrgStarts(r)
  PROVE  orgsOverlap' \in BOOLEAN /\ (~orgsOverlap' => ~orgsOverlap /\ Idle(r))
<1>1. orgsOverlap' \in BOOLEAN /\ (~orgsOverlap' => ~orgsOverlap /\ OpenOrg = {})
  BY Zenon DEF OrgStarts, OrgInvariant, OrgTypes
<1> QED
  BY <1>1 DEF OpenOrg, Opened, Idle

LEMMA GoesOnAlone ==
  ASSUME OrgInvariant, NEW r \in OrgRequests, Opened(r), UNCHANGED orgsOverlap
  PROVE  orgsOverlap' \in BOOLEAN /\ (~orgsOverlap' => ~orgsOverlap /\ Idle(r))
  BY DEF OrgInvariant, OrgTypes, Idle

LEMMA OrgStep ==
  ASSUME OrgInvariant, NEW r \in OrgRequests, NEW row \in OrgReqRows,
         orgReq' = [orgReq EXCEPT ![r] = row],
         row.pc \in {"parented", "seen", "validated", "relinked"} => row.o \in Orgs,
         row.pc \in {"parented", "validated", "relinked"} => row.t \in Orgs,
         orgsOverlap' \in BOOLEAN, ~orgsOverlap' => ~orgsOverlap /\ Idle(r),
         parentsCross' \in BOOLEAN, OrgTables',
         orgReq'[r] = row /\ OrgsFit /\ ~orgsOverlap => OrgsFit' /\ OrgFresh(r)'
  PROVE  OrgInvariant'
<1>1. /\ orgReq' \in [OrgRequests -> OrgReqRows] /\ \A s \in OrgRequests : OrgAbout(s)'
      /\ orgReq'[r] = row /\ \A s \in OrgRequests : s # r => orgReq'[s] = orgReq[s]
  BY OrgReqTyped DEF OrgInvariant
<1>3. OrgTypes'
  BY <1>1 DEF OrgTypes
<1>5. ASSUME ~orgsOverlap'
      PROVE  /\ \A s, q \in OrgRequests : Opened(s)' /\ Opened(q)' => s = q
             /\ OrgsFit' /\ \A s \in OrgRequests : OrgFresh(s)'
  <2>1. \A s \in OrgRequests : s # r => ~Opened(s)'
    BY <1>1, <1>5 DEF Opened, Idle
  <2>2. OrgsFit' /\ OrgFresh(r)'
    BY <1>1, <1>5 DEF OrgInvariant
  <2>3. \A s \in OrgRequests : s # r => OrgFresh(s)'
    BY <2>1 DEF Opened, OrgFresh
  <2> QED
    BY <2>1, <2>2, <2>3
<1> QED
  BY <1>3, <1>5 DEF OrgInvariant

\* A request that ends.
LEMMA OrgEnds ==
  ASSUME OrgInvariant, NEW r \in OrgRequests,
         orgReq' = [orgReq EXCEPT ![r].pc = "done"] \/ orgReq' = [orgReq EXCEPT ![r] = [NoRequest EXCEPT !.pc = "done"]],
         orgsOverlap' \in BOOLEAN, ~orgsOverlap' => ~orgsOverlap /\ Idle(r),
         UNCHANGED parentsCross, OrgTables', OrgsFit /\ ~orgsOverlap => OrgsFit'
  PROVE  OrgInvariant'
<1>1. parentsCross' \in BOOLEAN
  BY DEF OrgInvariant, OrgTypes
<1>2. ASSUME NEW row \in OrgReqRows, row.pc = "done", orgReq' = [orgReq EXCEPT ![r] = row]
      PROVE  OrgInvariant'
  <2>1. orgReq'[r] = row => OrgFresh(r)'
    BY <1>2 DEF OrgFresh
  <2> QED
    BY <1>1, <1>2, <2>1, OrgStep
<1>3. CASE orgReq' = [orgReq EXCEPT ![r].pc = "done"]
  <2> DEFINE row == [orgReq[r] EXCEPT !.pc = "done"]
  <2>1. orgReq[r] \in OrgReqRows
    BY DEF OrgInvariant, OrgTypes
  <2>2. row \in OrgReqRows /\ row.pc = "done"
    BY <2>1, Zenon DEF OrgReqRows, OrgPcs
  <2>3. orgReq' = [orgReq EXCEPT ![r] = row]
    BY <1>3
  <2> HIDE DEF row
  <2> QED
    BY <1>2, <2>2, <2>3
<1>4. CASE orgReq' = [orgReq EXCEPT ![r] = [NoRequest EXCEPT !.pc = "done"]]
  <2> DEFINE row == [NoRequest EXCEPT !.pc = "done"]
  <2>1. row \in OrgReqRows /\ row.pc = "done"
    BY NoRequestTyped, Zenon DEF OrgReqRows, OrgPcs
  <2> HIDE DEF row
  <2> QED
    BY <1>2, <1>4, <2>1 DEF row
<1> QED
  BY <1>3, <1>4

\* One row of the table changes; whether the tables still fit depends on that row alone.
LEMMA OneOrgChanges ==
  ASSUME OrgInvariant, NEW o \in Orgs, NEW row \in OrgRows, org' = [org EXCEPT ![o] = row],
         UNCHANGED <<domain, link>>, partner' \in [Orgs -> {"none", "live", "archived"}],
         row.into = org[o].into, row.state # "absent",
         ~orgsOverlap => row.into = NoOrg \/ row.state = "archived"
  PROVE  OrgTables' /\ (OrgsFit /\ ~orgsOverlap => OrgsFit')
<1>1. OrgTables /\ OrgTypes
  BY DEF OrgInvariant, OrgTypes
<1>2. /\ org' \in [Orgs -> OrgRows] /\ org'[o] = row
      /\ \A x \in Orgs : x # o => org'[x] = org[x]
  BY <1>1, OrgTyped
<1>3. OrgTables'
  BY <1>1, <1>2 DEF OrgTables
<1>4. ASSUME OrgsFit, ~orgsOverlap PROVE OrgsFit'
  <2>1. \A x \in Orgs : org'[x].into # NoOrg =>
          org'[x].state = "archived" /\ \A d \in Domains : domain'[d].owner # x
    BY <1>2, <1>4 DEF OrgsFit
  <2>2. \A d \in Domains : domain'[d].owner # NoOrg =>
          org'[domain'[d].owner].state # "absent"
    BY <1>1, <1>2, <1>4 DEF OrgsFit, OrgTables, DomainRows
  <2> QED
    BY <1>4, <2>1, <2>2 DEF OrgsFit
<1> QED
  BY <1>3, <1>4

LEMMA CreateOrgHolds ==
  ASSUME OrgInvariant, NEW o \in Orgs, NEW ds \in SUBSET Domains, CreateOrg(o, ds)
  PROVE  OrgInvariant'
<1> DEFINE row == [org[o] EXCEPT !.state = "live"]
<1>1. OrgTables /\ OrgTypes /\ org[o] \in OrgRows
  BY DEF OrgInvariant, OrgTypes, OrgTables
<1>2. row \in OrgRows /\ row.state = "live" /\ row.into = org[o].into
  BY <1>1, Zenon DEF OrgRows
<1>3. org' = [org EXCEPT ![o] = row]
  BY DEF CreateOrg
<1> HIDE DEF row
<1>4. /\ org' \in [Orgs -> OrgRows] /\ org'[o] = row
      /\ \A x \in Orgs : x # o => org'[x] = org[x]
  BY <1>1, <1>2, <1>3, OrgTyped
<1>5. PICK first \in IF ds = {} THEN {NoOrg} ELSE ds :
        domain' = [d \in Domains |-> IF d \in ds THEN [owner |-> o, primary |-> d = first]
                                                 ELSE domain[d]]
  BY DEF CreateOrg
<1>6. \A d \in Domains :
        /\ d \in ds => /\ domain'[d] \in DomainRows /\ domain'[d].owner = o
                       /\ domain'[d].primary <=> d = first
        /\ d \notin ds => domain'[d] = domain[d]
  <2> TAKE d \in Domains
  <2>1. CASE d \in ds
    <3> DEFINE prim == d = first
    <3>1. prim \in BOOLEAN
      BY Zenon
    <3>2. domain'[d] = [owner |-> o, primary |-> prim]
      BY <1>5, <2>1
    <3> HIDE DEF prim
    <3>3. [owner |-> o, primary |-> prim] \in DomainRows
      BY <3>1 DEF DomainRows
    <3>4. /\ [owner |-> o, primary |-> prim].owner = o
          /\ [owner |-> o, primary |-> prim].primary = prim
      OBVIOUS
    <3> QED
      BY <2>1, <3>2, <3>3, <3>4, Zenon DEF prim
  <2>2. CASE d \notin ds
    BY <1>5, <2>2
  <2> QED
    BY <2>1, <2>2
<1>7. domain' \in [Domains -> DomainRows]
  BY <1>1, <1>5, <1>6 DEF OrgTables
<1>8. UNCHANGED <<link, partner, orgReq, parentsCross>> /\ org[o].state = "absent"
  BY DEF CreateOrg
<1>9. orgsOverlap' \in BOOLEAN /\ (~orgsOverlap' => ~orgsOverlap /\ OpenOrg = {})
  BY <1>1, Zenon DEF CreateOrg, OrgTypes
<1>10. OrgTypes'
  BY <1>1, <1>4, <1>7, <1>8, <1>9 DEF OrgTypes, OrgTables, OrgAbout
<1>11. \A r \in OrgRequests : ~orgsOverlap' => ~Opened(r)'
  BY <1>8, <1>9 DEF OpenOrg, Opened
<1>12. ASSUME ~orgsOverlap' PROVE OrgsFit'
  <2>1. OrgsFit
    BY <1>9, <1>12 DEF OrgInvariant
  <2>2. org[o].into = NoOrg /\ \A d \in Domains : domain[d].owner # o
    BY <1>8, <2>1, OrgAssumption DEF OrgsFit
  <2>3. \A x \in Orgs : org'[x].into # NoOrg =>
          org'[x].state = "archived" /\ \A d \in Domains : domain'[d].owner # x
    BY <1>2, <1>4, <1>6, <2>1, <2>2 DEF OrgsFit
  <2>4. ASSUME NEW d \in Domains, domain'[d].owner # NoOrg
        PROVE  /\ org'[domain'[d].owner].state # "absent"
               /\ \E e \in Domains : domain'[e].owner = domain'[d].owner /\ domain'[e].primary
    <3>1. CASE d \in ds
      <4>1. first \in ds /\ domain'[first].owner = o /\ domain'[first].primary
        BY <1>6, <3>1
      <4> QED
        BY <1>2, <1>4, <1>6, <3>1, <4>1
    <3>2. CASE d \notin ds
      <4>1. domain'[d] = domain[d] /\ domain[d].owner \in Orgs
        BY <1>1, <1>6, <2>4, <3>2 DEF OrgTables, DomainRows
      <4>2. PICK e \in Domains : domain[e].owner = domain[d].owner /\ domain[e].primary
        BY <2>1, <2>4, <4>1 DEF OrgsFit
      <4>3. e \notin ds
        BY <2>4, <4>1, <4>2 DEF CreateOrg
      <4>4. org[domain[d].owner].state # "absent" /\ domain[d].owner # o
        BY <2>1, <2>2, <2>4, <4>1 DEF OrgsFit
      <4> QED
        BY <1>4, <1>6, <4>1, <4>2, <4>3, <4>4
    <3> QED
      BY <3>1, <3>2
  <2>5. \A d, e \in Domains :
          domain'[d].primary /\ domain'[e].primary /\ domain'[d].owner = domain'[e].owner
            => d = e
    BY <1>6, <2>1, <2>2 DEF OrgsFit
  <2> QED
    BY <2>3, <2>4, <2>5 DEF OrgsFit
<1>13. \A r \in OrgRequests : ~orgsOverlap' => OrgFresh(r)'
  BY <1>11 DEF OrgFresh, Opened
<1> QED
  BY <1>10, <1>11, <1>12, <1>13 DEF OrgInvariant

LEMMA LinkOrgHolds ==
  ASSUME OrgInvariant, NEW l \in Links, NEW o \in Orgs, LinkOrg(l, o)
  PROVE  OrgInvariant'
<1>1. UNCHANGED <<org, domain, partner, orgReq, parentsCross>> /\ link' = [link EXCEPT ![l] = o]
  BY DEF LinkOrg
<1>2. orgsOverlap' \in BOOLEAN /\ (~orgsOverlap' => ~orgsOverlap /\ OpenOrg = {})
  BY Zenon DEF LinkOrg, OrgInvariant, OrgTypes
<1>3. OrgTypes'
  BY <1>1, <1>2 DEF OrgInvariant, OrgTypes, OrgTables, OrgAbout
<1>4. \A r \in OrgRequests : ~orgsOverlap' => ~Opened(r)'
  BY <1>1, <1>2 DEF OpenOrg, Opened
<1>5. ~orgsOverlap' => OrgsFit'
  BY <1>1, <1>2 DEF OrgInvariant, OrgsFit
<1>6. \A r \in OrgRequests : ~orgsOverlap' => OrgFresh(r)'
  BY <1>4 DEF OrgFresh, Opened
<1> QED
  BY <1>3, <1>4, <1>5, <1>6 DEF OrgInvariant

LEMMA SetParentHolds ==
  ASSUME OrgInvariant, NEW r \in OrgRequests, NEW o \in Orgs, NEW p \in Orgs, NEW v \in 0..1,
         SetParent(r, o, p, v)
  PROVE  OrgInvariant'
<1> DEFINE row == [NoRequest EXCEPT !.pc = "parented", !.o = o, !.t = p]
<1>1. row \in OrgReqRows /\ row.pc = "parented" /\ row.o = o /\ row.t = p
  BY NoRequestTyped, Zenon DEF OrgReqRows, OrgPcs
<1>2. /\ orgReq' = [orgReq EXCEPT ![r] = row] /\ OrgStarts(r)
      /\ UNCHANGED <<org, domain, link, partner>>
  BY DEF SetParent
<1>3. parentsCross' \in BOOLEAN
  BY Zenon DEF SetParent, OrgInvariant, OrgTypes
<1>4. OrgTables' /\ (OrgsFit => OrgsFit')
  BY <1>2 DEF OrgInvariant, OrgTypes, OrgTables, OrgsFit
<1> HIDE DEF row
<1>5. orgReq'[r] = row => OrgFresh(r)'
  BY <1>1 DEF OrgFresh
<1> QED
  BY <1>1, <1>2, <1>3, <1>4, <1>5, StartsAlone, OrgStep

LEMMA CommitParentHolds ==
  ASSUME OrgInvariant, NEW r \in OrgRequests, CommitParent(r)
  PROVE  OrgInvariant'
<1> DEFINE row == [OrgTouch(org[orgReq[r].o]) EXCEPT !.parent = orgReq[r].t]
<1>1. /\ orgReq[r].o \in Orgs /\ orgReq[r].t \in Orgs /\ Opened(r)
      /\ OrgTables /\ org[orgReq[r].o] \in OrgRows
  BY DEF CommitParent, OrgInvariant, OrgTypes, OrgTables, OrgAbout, Opened
<1>2. /\ row \in OrgRows /\ row.state = org[orgReq[r].o].state
      /\ row.into = org[orgReq[r].o].into
  BY <1>1, TouchedTyped DEF OrgRows
<1>3. org' = [org EXCEPT ![orgReq[r].o] = row] /\ UNCHANGED <<domain, link, partner>>
  BY DEF CommitParent
<1> HIDE DEF row
<1>4. OrgTables' /\ (OrgsFit /\ ~orgsOverlap => OrgsFit')
  <2>1. /\ org' \in [Orgs -> OrgRows] /\ org'[orgReq[r].o] = row
        /\ \A x \in Orgs : x # orgReq[r].o => org'[x] = org[x]
    BY <1>1, <1>2, <1>3, OrgTyped DEF OrgInvariant
  <2>2. \A x \in Orgs : org'[x].into = org[x].into /\ org'[x].state = org[x].state
    BY <1>2, <2>1
  <2>3. \A d \in Domains : domain[d].owner \in Orgs \cup {NoOrg}
    BY <1>1 DEF OrgTables, DomainRows
  <2> QED
    BY <1>1, <1>3, <2>1, <2>2, <2>3 DEF OrgTables, OrgsFit
<1> QED
  BY <1>1, <1>4, GoesOnAlone, OrgEnds DEF CommitParent

LEMMA ArchiveOrgHolds ==
  ASSUME OrgInvariant, NEW r \in OrgRequests, NEW o \in Orgs, ArchiveOrg(r, o)
  PROVE  OrgInvariant'
<1> DEFINE row == [OrgTouch(org[o]) EXCEPT !.state = "archived"]
<1>1. OrgTables /\ org[o] \in OrgRows
  BY DEF OrgInvariant, OrgTypes, OrgTables
<1>2. row \in OrgRows /\ row.state = "archived" /\ row.into = org[o].into
  BY <1>1, TouchedTyped DEF OrgRows
<1>3. org' = [org EXCEPT ![o] = row] /\ UNCHANGED <<domain, link, partner>>
  BY DEF ArchiveOrg
<1> HIDE DEF row
<1>4. OrgTables' /\ (OrgsFit /\ ~orgsOverlap => OrgsFit')
  BY <1>1, <1>2, <1>3, OneOrgChanges DEF OrgTables
<1> QED
  BY <1>4, StartsAlone, OrgEnds DEF ArchiveOrg

LEMMA ReadRestoreOrgHolds ==
  ASSUME OrgInvariant, NEW r \in OrgRequests, NEW o \in Orgs, ReadRestoreOrg(r, o)
  PROVE  OrgInvariant'
<1> DEFINE row == [NoRequest EXCEPT !.pc = "seen", !.o = o]
<1>1. row \in OrgReqRows /\ row.pc = "seen" /\ row.o = o
  BY NoRequestTyped, Zenon DEF OrgReqRows, OrgPcs
<1>2. /\ orgReq' = [orgReq EXCEPT ![r] = row] /\ OrgStarts(r) /\ org[o].into = NoOrg
      /\ UNCHANGED <<org, domain, link, partner, parentsCross>>
  BY DEF ReadRestoreOrg
<1>3. OrgTables' /\ (OrgsFit => OrgsFit') /\ parentsCross' \in BOOLEAN
  BY <1>2 DEF OrgInvariant, OrgTypes, OrgTables, OrgsFit
<1> HIDE DEF row
<1>4. orgReq'[r] = row => OrgFresh(r)'
  BY <1>1, <1>2 DEF OrgFresh
<1> QED
  BY <1>1, <1>2, <1>3, <1>4, StartsAlone, OrgStep

LEMMA RestoreOrgHolds ==
  ASSUME OrgInvariant, NEW r \in OrgRequests, RestoreOrg(r)
  PROVE  OrgInvariant'
<1> DEFINE o   == orgReq[r].o
           row == IF org[o].state = "archived" THEN [OrgTouch(org[o]) EXCEPT !.state = "live"]
                  ELSE org[o]
<1>1. o \in Orgs /\ Opened(r) /\ OrgTables /\ org[o] \in OrgRows
  BY DEF RestoreOrg, OrgInvariant, OrgTypes, OrgTables, OrgAbout, Opened
<1>2. /\ row \in OrgRows /\ row.into = org[o].into
      /\ row.state = IF org[o].state = "archived" THEN "live" ELSE org[o].state
  BY <1>1, TouchedTyped DEF OrgRows
<1>3. org' = [org EXCEPT ![o] = row] /\ UNCHANGED <<domain, link, partner>>
  BY DEF RestoreOrg
<1>4. ~orgsOverlap => row.into = NoOrg
  BY <1>2 DEF OrgInvariant, OrgFresh, RestoreOrg
<1> HIDE DEF row, o
<1>5. OrgTables' /\ (OrgsFit /\ ~orgsOverlap => OrgsFit')
  <2>1. /\ org' \in [Orgs -> OrgRows] /\ org'[o] = row
        /\ \A x \in Orgs : x # o => org'[x] = org[x]
    BY <1>1, <1>2, <1>3, OrgTyped DEF OrgInvariant
  <2>2. \A x \in Orgs : /\ org'[x].into = org[x].into
                        /\ org'[x].state = "absent" <=> org[x].state = "absent"
                        /\ x # o => org'[x].state = org[x].state
    BY <1>2, <2>1
  <2>3. \A d \in Domains : domain[d].owner \in Orgs \cup {NoOrg}
    BY <1>1 DEF OrgTables, DomainRows
  <2>4. OrgTables'
    BY <1>1, <1>3, <2>1 DEF OrgTables
  <2>5. ASSUME OrgsFit, ~orgsOverlap PROVE OrgsFit'
    <3>1. \A x \in Orgs : org'[x].into # NoOrg =>
            org'[x].state = "archived" /\ \A d \in Domains : domain'[d].owner # x
      BY <1>2, <1>3, <1>4, <2>2, <2>5 DEF OrgsFit
    <3> QED
      BY <1>3, <2>2, <2>3, <2>5, <3>1 DEF OrgsFit
  <2> QED
    BY <2>4, <2>5
<1> QED
  BY <1>1, <1>5, GoesOnAlone, OrgEnds DEF RestoreOrg

LEMMA ValidateOrgMergeHolds ==
  ASSUME OrgInvariant, NEW r \in OrgRequests, NEW o \in Orgs, NEW t \in Orgs,
         ValidateOrgMerge(r, o, t)
  PROVE  OrgInvariant'
<1> DEFINE row == [NoRequest EXCEPT !.pc = "validated", !.o = o, !.t = t,
                                    !.version = org[o].version]
<1>1. org[o].version \in Nat
  BY DEF OrgInvariant, OrgTypes, OrgTables, OrgRows
<1>2. row \in OrgReqRows /\ row.pc = "validated" /\ row.o = o /\ row.t = t
  BY <1>1, NoRequestTyped, Zenon DEF OrgReqRows, OrgPcs
<1>3. /\ orgReq' = [orgReq EXCEPT ![r] = row] /\ OrgStarts(r) /\ ValidOrgPair(o, t)
      /\ UNCHANGED <<org, domain, link, partner, parentsCross>>
  BY DEF ValidateOrgMerge
<1>4. OrgTables' /\ (OrgsFit => OrgsFit') /\ parentsCross' \in BOOLEAN
  BY <1>3 DEF OrgInvariant, OrgTypes, OrgTables, OrgsFit
<1> HIDE DEF row
<1>5. orgReq'[r] = row => OrgFresh(r)'
  BY <1>2, <1>3 DEF OrgFresh, ValidOrgPair
<1> QED
  BY <1>2, <1>3, <1>4, <1>5, StartsAlone, OrgStep

LEMMA RelinkOrgHolds ==
  ASSUME OrgInvariant, NEW r \in OrgRequests, RelinkOrg(r)
  PROVE  OrgInvariant'
<1> DEFINE o   == orgReq[r].o
           t   == orgReq[r].t
           row == [orgReq[r] EXCEPT !.pc = "relinked", !.domains = DomainsOf(o),
                     !.links = LinksOf(o), !.demoted = HasPrimaryDomain(t),
                     !.partner = PartnerChange(o, t)]
<1>1. /\ o \in Orgs /\ t \in Orgs /\ Opened(r) /\ orgReq[r] \in OrgReqRows
      /\ orgReq[r].pc = "validated"
  BY DEF RelinkOrg, OrgInvariant, OrgTypes, OrgAbout, Opened
<1>2. DomainsOf(o) \in SUBSET Domains /\ LinksOf(o) \in SUBSET Links
  BY DEF DomainsOf, LinksOf
<1>3. HasPrimaryDomain(t) \in BOOLEAN /\ PartnerChange(o, t) \in {"none", "collapsed", "moved"}
  BY Zenon DEF HasPrimaryDomain, PartnerChange
<1>4. /\ row \in OrgReqRows /\ row.pc = "relinked" /\ row.o = o /\ row.t = t
      /\ row.domains = DomainsOf(o) /\ row.links = LinksOf(o)
      /\ row.demoted = HasPrimaryDomain(t) /\ row.partner = PartnerChange(o, t)
  BY <1>1, <1>2, <1>3, Zenon DEF OrgReqRows, OrgPcs
<1>5. /\ orgReq' = [orgReq EXCEPT ![r] = row]
      /\ UNCHANGED <<org, domain, link, partner, orgsOverlap, parentsCross>>
  BY Zenon DEF RelinkOrg
<1>6. OrgTables' /\ (OrgsFit => OrgsFit') /\ parentsCross' \in BOOLEAN
  BY <1>5 DEF OrgInvariant, OrgTypes, OrgTables, OrgsFit
<1>7. ~orgsOverlap => ValidOrgPair(o, t)
  BY <1>1 DEF OrgInvariant, OrgFresh
<1> HIDE DEF row, o, t
<1>8. orgReq'[r] = row /\ ~orgsOverlap => OrgFresh(r)'
  BY <1>4, <1>5, <1>7
     DEF OrgFresh, ValidOrgPair, DomainsOf, LinksOf, HasPrimaryDomain, PartnerChange
<1> QED
  BY <1>1, <1>4, <1>5, <1>6, <1>8, GoesOnAlone, OrgStep DEF o, t

LEMMA UpsertPartnerHolds ==
  ASSUME OrgInvariant, NEW r \in OrgRequests, NEW o \in Orgs, UpsertPartner(r, o)
  PROVE  OrgInvariant'
<1>1. OrgTables /\ org[o] \in OrgRows
  BY DEF OrgInvariant, OrgTypes, OrgTables
<1>2. /\ OrgTouch(org[o]) \in OrgRows /\ OrgTouch(org[o]).state = org[o].state
      /\ OrgTouch(org[o]).into = org[o].into /\ org[o].state # "absent"
  BY <1>1, TouchedTyped DEF UpsertPartner
<1>3. /\ org' = [org EXCEPT ![o] = OrgTouch(org[o])] /\ UNCHANGED <<domain, link>>
      /\ partner' = [partner EXCEPT ![o] = IF partner[o] = "none" THEN "live" ELSE partner[o]]
  BY DEF UpsertPartner
<1>4. partner' \in [Orgs -> {"none", "live", "archived"}]
  BY <1>1, <1>3 DEF OrgTables
<1>5. ~orgsOverlap => org[o].into = NoOrg \/ org[o].state = "archived"
  BY DEF OrgInvariant, OrgsFit
<1>6. OrgTables' /\ (OrgsFit /\ ~orgsOverlap => OrgsFit')
  BY <1>1, <1>2, <1>3, <1>4, <1>5, OneOrgChanges
<1> QED
  BY <1>6, StartsAlone, OrgEnds DEF UpsertPartner

LEMMA AbortOrgHolds ==
  ASSUME OrgInvariant, NEW r \in OrgRequests, AbortOrg(r) PROVE OrgInvariant'
<1>1. OrgTables' /\ (OrgsFit => OrgsFit') /\ Opened(r)
  BY DEF AbortOrg, OrgInvariant, OrgTypes, OrgTables, OrgsFit, OpenOrg, Opened
<1> QED
  BY <1>1, GoesOnAlone, OrgEnds DEF AbortOrg

\* A domain that moves is the target's, and primary only if it was and the target had none.
LEMMA MovedDomainTyped ==
  ASSUME NEW r, NEW d \in Domains, domain[d] \in DomainRows, orgReq[r].t \in Orgs
  PROVE  /\ MovedDomain(r, d) \in DomainRows
         /\ d \in orgReq[r].domains =>
              /\ MovedDomain(r, d).owner = orgReq[r].t
              /\ MovedDomain(r, d).primary <=> domain[d].primary /\ ~orgReq[r].demoted
         /\ d \notin orgReq[r].domains => MovedDomain(r, d) = domain[d]
<1> DEFINE prim == domain[d].primary /\ ~orgReq[r].demoted
           row  == [owner |-> orgReq[r].t, primary |-> prim]
<1>1. MovedDomain(r, d) = IF d \in orgReq[r].domains THEN row ELSE domain[d]
  BY DEF MovedDomain
<1>2. prim \in BOOLEAN
  BY Zenon
<1> HIDE DEF prim
<1>3. row \in DomainRows /\ row.owner = orgReq[r].t
  BY <1>2 DEF DomainRows
<1>4. row.primary = prim
  OBVIOUS
<1> HIDE DEF row
<1> QED
  BY <1>1, <1>3, <1>4, Zenon DEF prim

LEMMA CommitOrgMergeHolds ==
  ASSUME OrgInvariant, NEW r \in OrgRequests, CommitOrgMerge(r)
  PROVE  OrgInvariant'
<1> DEFINE o   == orgReq[r].o
           t   == orgReq[r].t
           row == [OrgTouch(org[o]) EXCEPT !.state = "archived", !.into = t]
<1>1. /\ o \in Orgs /\ t \in Orgs /\ Opened(r) /\ orgReq[r].pc = "relinked"
      /\ OrgTables /\ org[o] \in OrgRows /\ OrgTypes
  BY DEF CommitOrgMerge, OrgInvariant, OrgTypes, OrgTables, OrgAbout, Opened
<1>2. row \in OrgRows /\ row.state = "archived" /\ row.into = t
  BY <1>1, TouchedTyped DEF OrgRows
<1>3. org' = [org EXCEPT ![o] = row]
  BY DEF CommitOrgMerge
<1> HIDE DEF row, o, t
<1>4. /\ org' \in [Orgs -> OrgRows] /\ org'[o] = row
      /\ \A x \in Orgs : x # o => org'[x] = org[x]
  BY <1>1, <1>2, <1>3, OrgTyped
<1>5. /\ domain' \in [Domains -> DomainRows]
      /\ \A d \in Domains :
           /\ d \in orgReq[r].domains =>
                /\ domain'[d].owner = t
                /\ domain'[d].primary <=> domain[d].primary /\ ~orgReq[r].demoted
           /\ d \notin orgReq[r].domains => domain'[d] = domain[d]
  <2>1. domain' = [d \in Domains |-> MovedDomain(r, d)] /\ domain \in [Domains -> DomainRows]
    BY <1>1 DEF CommitOrgMerge, OrgTables
  <2> QED
    BY <1>1, <2>1, MovedDomainTyped DEF t
<1>6. link' \in [Links -> Orgs \cup {NoOrg}]
  BY <1>1 DEF CommitOrgMerge, OrgTables, t
<1>7. partner' \in [Orgs -> {"none", "live", "archived"}]
  BY <1>1 DEF CommitOrgMerge, OrgTables, OrgTypes, OrgReqRows
<1>8. OrgTables'
  BY <1>4, <1>5, <1>6, <1>7 DEF OrgTables
<1>9. ASSUME OrgsFit, ~orgsOverlap PROVE OrgsFit'
  <2>1. /\ o # t /\ org[t].state = "live" /\ org[t].into = NoOrg
        /\ orgReq[r].domains = DomainsOf(o) /\ orgReq[r].demoted = HasPrimaryDomain(t)
    BY <1>1, <1>9 DEF OrgInvariant, OrgFresh, ValidOrgPair, o, t
  <2>2. \A d \in Domains :
          /\ domain[d].owner = o =>
               /\ domain'[d].owner = t
               /\ domain'[d].primary <=> domain[d].primary /\ ~HasPrimaryDomain(t)
          /\ domain[d].owner # o => domain'[d] = domain[d]
    BY <1>5, <2>1 DEF DomainsOf
  <2>3. \A d \in Domains : domain[d].owner \in Orgs \cup {NoOrg}
    BY <1>1 DEF OrgTables, DomainRows
  <2>4. HasPrimaryDomain(t) <=> \E d \in Domains : domain[d].owner = t /\ domain[d].primary
    BY DEF HasPrimaryDomain, DomainsOf
  <2>5. ASSUME NEW x \in Orgs, org'[x].into # NoOrg
        PROVE  org'[x].state = "archived" /\ \A d \in Domains : domain'[d].owner # x
    <3>1. x # t
      BY <1>4, <2>1, <2>5
    <3>2. CASE x = o
      BY <1>2, <1>4, <2>1, <2>2, <3>2
    <3>3. CASE x # o
      BY <1>4, <1>9, <2>2, <2>5, <3>1, <3>3 DEF OrgsFit
    <3> QED
      BY <3>2, <3>3
  <2>6. ASSUME NEW d \in Domains, domain'[d].owner # NoOrg
        PROVE  /\ org'[domain'[d].owner].state # "absent"
               /\ \E e \in Domains : domain'[e].owner = domain'[d].owner /\ domain'[e].primary
    <3>1. PICK e \in Domains : domain[d].owner # NoOrg =>
                                 domain[e].owner = domain[d].owner /\ domain[e].primary
      BY <1>9 DEF OrgsFit
    <3>2. CASE domain'[d].owner = t
      <4>1. org'[t].state # "absent"
        BY <1>1, <1>4, <2>1
      <4>2. CASE HasPrimaryDomain(t)
        <5>1. PICK f \in Domains : domain[f].owner = t /\ domain[f].primary
          BY <2>4, <4>2
        <5>2. domain'[f] = domain[f]
          BY <2>1, <2>2, <5>1
        <5> QED
          BY <3>2, <4>1, <5>1, <5>2
      <4>3. CASE ~HasPrimaryDomain(t)
        <5>1. domain[d].owner \in {o, t} /\ domain[d].owner # NoOrg
          BY <1>1, <2>2, <3>2, OrgAssumption
        <5>2. domain[d].owner # t
          BY <2>4, <3>1, <4>3, <5>1
        <5>3. domain[e].owner = o /\ domain[e].primary
          BY <3>1, <5>1, <5>2
        <5> QED
          BY <2>2, <3>2, <4>1, <4>3, <5>3
      <4> QED
        BY <4>2, <4>3
    <3>3. CASE domain'[d].owner # t
      <4>1. domain[d].owner # o /\ domain'[d] = domain[d]
        BY <2>2, <3>3
      <4>2. domain'[e] = domain[e]
        BY <2>2, <2>6, <3>1, <4>1
      <4>3. org[domain[d].owner].state # "absent" /\ domain[d].owner \in Orgs
        BY <1>9, <2>3, <2>6, <4>1 DEF OrgsFit
      <4> QED
        BY <1>4, <2>6, <3>1, <4>1, <4>2, <4>3
    <3> QED
      BY <3>2, <3>3
  <2>7. \A d, e \in Domains :
          domain'[d].primary /\ domain'[e].primary /\ domain'[d].owner = domain'[e].owner
            => d = e
    BY DEF CommitOrgMerge
  <2> QED
    BY <2>5, <2>6, <2>7 DEF OrgsFit
<1> QED
  BY <1>1, <1>8, <1>9, GoesOnAlone, OrgEnds DEF CommitOrgMerge

LEMMA OrgStepHolds == OrgInvariant /\ [OrgNext]_orgVars => OrgInvariant'
<1> SUFFICES ASSUME OrgInvariant, [OrgNext]_orgVars PROVE OrgInvariant'
  OBVIOUS
<1>1. CASE UNCHANGED orgVars
  <2>1. UNCHANGED <<org, domain, link, partner, orgReq, orgsOverlap, parentsCross>>
    BY <1>1 DEF orgVars
  <2>2. OrgTypes'
    BY <2>1 DEF OrgInvariant, OrgTypes, OrgTables, OrgAbout
  <2>3. OrgsFit' = OrgsFit
    BY <2>1 DEF OrgsFit
  <2>4. \A r \in OrgRequests : Opened(r)' = Opened(r) /\ OrgFresh(r)' = OrgFresh(r)
    BY <2>1 DEF Opened, OrgFresh, ValidOrgPair, DomainsOf, LinksOf, HasPrimaryDomain, PartnerChange
  <2> QED
    BY <2>1, <2>2, <2>3, <2>4 DEF OrgInvariant
<1>2. CASE \E o \in Orgs, ds \in SUBSET Domains : CreateOrg(o, ds)
  BY <1>2, CreateOrgHolds
<1>3. CASE \E l \in Links, o \in Orgs : LinkOrg(l, o)
  BY <1>3, LinkOrgHolds
<1>4. ASSUME NEW r \in OrgRequests, NEW o \in Orgs, NEW t \in Orgs,
             ValidateOrgMerge(r, o, t) \/ \E v \in 0..1 : SetParent(r, o, t, v)
      PROVE  OrgInvariant'
  BY <1>4, ValidateOrgMergeHolds, SetParentHolds
<1>5. ASSUME NEW r \in OrgRequests, NEW o \in Orgs,
             ArchiveOrg(r, o) \/ ReadRestoreOrg(r, o) \/ UpsertPartner(r, o)
      PROVE  OrgInvariant'
  BY <1>5, ArchiveOrgHolds, ReadRestoreOrgHolds, UpsertPartnerHolds
<1>6. ASSUME NEW r \in OrgRequests,
             \/ CommitParent(r) \/ RestoreOrg(r) \/ RelinkOrg(r) \/ CommitOrgMerge(r)
             \/ AbortOrg(r)
      PROVE  OrgInvariant'
  BY <1>6, CommitParentHolds, RestoreOrgHolds, RelinkOrgHolds, CommitOrgMergeHolds, AbortOrgHolds
<1> QED
  BY <1>1, <1>2, <1>3, <1>4, <1>5, <1>6 DEF OrgNext

LEMMA OrgsFitSuffices == OrgInvariant => OrgDamageNeedsOverlap
<1> SUFFICES ASSUME OrgInvariant, ~orgsOverlap
             PROVE  /\ \A o \in Orgs : MergedAway(o) => org[o].state = "archived" /\ DomainsOf(o) = {}
                    /\ \A o \in Orgs : DomainsOf(o) # {} =>
                         Cardinality({d \in DomainsOf(o) : domain[d].primary}) = 1
  BY DEF OrgDamageNeedsOverlap
<1>1. OrgsFit
  BY DEF OrgInvariant
<1>2. \A o \in Orgs : MergedAway(o) => org[o].state = "archived" /\ DomainsOf(o) = {}
  BY <1>1 DEF OrgsFit, MergedAway, DomainsOf
<1>3. ASSUME NEW o \in Orgs, DomainsOf(o) # {}
      PROVE  Cardinality({d \in DomainsOf(o) : domain[d].primary}) = 1
  <2>1. PICK e \in Domains : domain[e].owner = o /\ domain[e].primary
    BY <1>1, <1>3, OrgAssumption DEF OrgsFit, DomainsOf
  <2>2. {d \in DomainsOf(o) : domain[d].primary} = {e}
    BY <1>1, <2>1 DEF OrgsFit, DomainsOf
  <2> QED
    BY <2>2, FS_Singleton
<1> QED
  BY <1>2, <1>3

\* For every number of organizations, domains, links and requests: while no two transactions
\* overlap, who is merged away owns nothing, and who owns a domain has one primary.
THEOREM SequentialOrgsAreSound == OrgSpec => []OrgDamageNeedsOverlap
<1>1. OrgInit => OrgInvariant
  BY OrgInitHolds
<1>2. OrgInvariant /\ [OrgNext]_orgVars => OrgInvariant'
  BY OrgStepHolds
<1>3. OrgInvariant => OrgDamageNeedsOverlap
  BY OrgsFitSuffices
<1> QED
  BY <1>1, <1>2, <1>3, PTL DEF OrgSpec

\* Only the commit of a merge says where an organization has gone, and only the commit of a
\* change of parent changes one.
LEMMA RowsKept ==
  ASSUME OrgInvariant, OrgNext
  PROVE  /\ (\E r \in OrgRequests : CommitOrgMerge(r)) \/ \A x \in Orgs : org'[x].into = org[x].into
         /\ (\E r \in OrgRequests : CommitParent(r)) \/ \A x \in Orgs : org'[x].parent = org[x].parent
<1> DEFINE Into   == \A x \in Orgs : org'[x].into = org[x].into
           Parent == \A x \in Orgs : org'[x].parent = org[x].parent
<1>1. \A x \in Orgs : org[x] \in OrgRows
  BY DEF OrgInvariant, OrgTypes, OrgTables
<1>2. ASSUME NEW o \in Orgs, NEW row, org' = [org EXCEPT ![o] = row]
      PROVE  (row.into = org[o].into => Into) /\ (row.parent = org[o].parent => Parent)
  <2>1. \A x \in Orgs : org'[x] = IF x = o THEN row ELSE org[x]
    BY <1>2 DEF OrgInvariant, OrgTypes, OrgTables
  <2> QED
    BY <2>1
<1>3. ASSUME NEW o \in Orgs
      PROVE  LET row == OrgTouch(org[o]) IN
             /\ row \in OrgRows /\ row.into = org[o].into /\ row.parent = org[o].parent
  BY <1>1, TouchedTyped
<1>4. ASSUME NEW o \in Orgs, NEW ds, CreateOrg(o, ds) PROVE Into /\ Parent
  <2> DEFINE row == [org[o] EXCEPT !.state = "live"]
  <2>1. org' = [org EXCEPT ![o] = row]
    BY <1>4 DEF CreateOrg
  <2>2. row.into = org[o].into /\ row.parent = org[o].parent
    BY <1>1 DEF OrgRows
  <2> HIDE DEF row, Into, Parent
  <2> QED
    BY <1>2, <2>1, <2>2
<1>5. ASSUME NEW r \in OrgRequests, CommitParent(r) \/ CommitOrgMerge(r)
      PROVE  orgReq[r].o \in Orgs
  BY <1>5 DEF OrgInvariant, OrgTypes, OrgAbout, CommitParent, CommitOrgMerge
<1>6. ASSUME NEW r \in OrgRequests, CommitParent(r) PROVE Into
  <2> DEFINE o   == orgReq[r].o
             row == [OrgTouch(org[o]) EXCEPT !.parent = orgReq[r].t]
  <2>1. org' = [org EXCEPT ![o] = row] /\ o \in Orgs
    BY <1>5, <1>6 DEF CommitParent
  <2>2. row.into = org[o].into
    BY <1>3, <2>1 DEF OrgRows
  <2> HIDE DEF row, Into
  <2> QED
    BY <1>2, <2>1, <2>2
<1>7. ASSUME NEW r \in OrgRequests, CommitOrgMerge(r) PROVE Parent
  <2> DEFINE o   == orgReq[r].o
             row == [OrgTouch(org[o]) EXCEPT !.state = "archived", !.into = orgReq[r].t]
  <2>1. org' = [org EXCEPT ![o] = row] /\ o \in Orgs
    BY <1>5, <1>7 DEF CommitOrgMerge
  <2>2. row.parent = org[o].parent
    BY <1>3, <2>1 DEF OrgRows
  <2> HIDE DEF row, Parent
  <2> QED
    BY <1>2, <2>1, <2>2
<1>8. ASSUME NEW r \in OrgRequests, NEW o \in Orgs, ArchiveOrg(r, o) PROVE Into /\ Parent
  <2> DEFINE row == [OrgTouch(org[o]) EXCEPT !.state = "archived"]
  <2>1. org' = [org EXCEPT ![o] = row]
    BY <1>8 DEF ArchiveOrg
  <2>2. row.into = org[o].into /\ row.parent = org[o].parent
    BY <1>3 DEF OrgRows
  <2> HIDE DEF row, Into, Parent
  <2> QED
    BY <1>2, <2>1, <2>2
<1>9. ASSUME NEW r \in OrgRequests, RestoreOrg(r) PROVE Into /\ Parent
  <2> DEFINE o   == orgReq[r].o
             row == IF org[o].state = "archived" THEN [OrgTouch(org[o]) EXCEPT !.state = "live"]
                    ELSE org[o]
  <2>1. org' = [org EXCEPT ![o] = row] /\ o \in Orgs
    BY <1>9 DEF RestoreOrg, OrgInvariant, OrgTypes, OrgAbout
  <2>2. row.into = org[o].into /\ row.parent = org[o].parent
    BY <1>3, <2>1 DEF OrgRows
  <2> HIDE DEF row, o, Into, Parent
  <2> QED
    BY <1>2, <2>1, <2>2
<1>10. ASSUME NEW r \in OrgRequests, NEW o \in Orgs, UpsertPartner(r, o) PROVE Into /\ Parent
  <2>1. org' = [org EXCEPT ![o] = OrgTouch(org[o])]
    BY <1>10 DEF UpsertPartner
  <2> HIDE DEF Into, Parent
  <2> QED
    BY <1>2, <1>3, <2>1
<1>11. ASSUME NEW r \in OrgRequests, NEW o \in Orgs, NEW t \in Orgs,
              (\E v \in 0..1 : SetParent(r, o, t, v)) \/ ValidateOrgMerge(r, o, t)
       PROVE  Into /\ Parent
  <2>1. UNCHANGED org
    BY <1>11 DEF SetParent, ValidateOrgMerge
  <2> QED
    BY <2>1
<1>12. ASSUME NEW r \in OrgRequests, NEW o \in Orgs, ReadRestoreOrg(r, o) PROVE Into /\ Parent
  <2>1. UNCHANGED org
    BY <1>12 DEF ReadRestoreOrg
  <2> QED
    BY <2>1
<1>13. ASSUME NEW r \in OrgRequests, RelinkOrg(r) \/ AbortOrg(r) PROVE Into /\ Parent
  <2>1. UNCHANGED org
    BY <1>13 DEF RelinkOrg, AbortOrg
  <2> QED
    BY <2>1
<1>14. CASE \E l \in Links, o \in Orgs : LinkOrg(l, o)
  <2>1. UNCHANGED org
    BY <1>14 DEF LinkOrg
  <2> QED
    BY <2>1
<1> HIDE DEF Into, Parent
<1>15. CASE \E o \in Orgs, ds \in SUBSET Domains : CreateOrg(o, ds)
  BY <1>4, <1>15 DEF Into, Parent
<1>16. CASE \E r \in OrgRequests, o, t \in Orgs :
              (\E v \in 0..1 : SetParent(r, o, t, v)) \/ ValidateOrgMerge(r, o, t)
  BY <1>11, <1>16 DEF Into, Parent
<1>17. CASE \E r \in OrgRequests, o \in Orgs :
              ArchiveOrg(r, o) \/ ReadRestoreOrg(r, o) \/ UpsertPartner(r, o)
  BY <1>8, <1>10, <1>12, <1>17 DEF Into, Parent
<1>18. CASE \E r \in OrgRequests :
              \/ CommitParent(r) \/ RestoreOrg(r) \/ RelinkOrg(r) \/ CommitOrgMerge(r)
              \/ AbortOrg(r)
  BY <1>6, <1>7, <1>9, <1>13, <1>18 DEF Into, Parent
<1> QED
  BY <1>14, <1>15, <1>16, <1>17, <1>18 DEF OrgNext, Into, Parent

LEMMA CommitHandsOver ==
  ASSUME OrgInvariant, ~orgsOverlap, NEW r \in OrgRequests, CommitOrgMerge(r),
         NEW o \in Orgs, NEW t \in Orgs, org[o].into # t, org'[o].into = t
  PROVE  /\ \A l \in Links : link[l] \in {o, t} => link'[l] = t
         /\ \A d \in Domains : domain[d].owner \in {o, t} => domain'[d].owner = t
         /\ "live" \in {partner[o], partner[t]} => partner'[t] = "live"
<1>1. /\ orgReq[r].o \in Orgs /\ orgReq[r].t \in Orgs /\ orgReq[r].pc = "relinked"
      /\ OrgTables /\ org[orgReq[r].o] \in OrgRows
  BY DEF CommitOrgMerge, OrgInvariant, OrgTypes, OrgTables, OrgAbout
<1>2. orgReq[r].o = o /\ orgReq[r].t = t
  <2> DEFINE row == [OrgTouch(org[orgReq[r].o]) EXCEPT !.state = "archived", !.into = orgReq[r].t]
  <2>1. row \in OrgRows /\ row.into = orgReq[r].t
    BY <1>1, TouchedTyped DEF OrgRows
  <2>2. org' = [org EXCEPT ![orgReq[r].o] = row]
    BY DEF CommitOrgMerge
  <2> HIDE DEF row
  <2>3. org'[orgReq[r].o] = row /\ \A x \in Orgs : x # orgReq[r].o => org'[x] = org[x]
    BY <1>1, <2>1, <2>2, OrgTyped DEF OrgInvariant
  <2> QED
    BY <2>1, <2>3
<1>3. /\ o # t /\ orgReq[r].domains = DomainsOf(o) /\ orgReq[r].links = LinksOf(o)
      /\ orgReq[r].partner = PartnerChange(o, t)
  BY <1>1, <1>2 DEF OrgInvariant, OrgFresh, ValidOrgPair
<1>4. \A l \in Links : link[l] \in {o, t} => link'[l] = t
  BY <1>2, <1>3 DEF CommitOrgMerge, LinksOf
<1>5. ASSUME NEW d \in Domains, domain[d].owner \in {o, t} PROVE domain'[d].owner = t
  <2>1. domain'[d] = MovedDomain(r, d) /\ domain[d] \in DomainRows
    BY <1>1 DEF CommitOrgMerge, OrgTables
  <2> QED
    BY <1>1, <1>2, <1>3, <1>5, <2>1, MovedDomainTyped DEF DomainsOf
<1>6. "live" \in {partner[o], partner[t]} => partner'[t] = "live"
  <2>1. partner \in [Orgs -> {"none", "live", "archived"}]
    BY <1>1 DEF OrgTables
  <2>2. /\ orgReq[r].partner = "none" => partner' = partner
        /\ orgReq[r].partner = "collapsed" => partner' = [partner EXCEPT ![o] = "archived"]
        /\ orgReq[r].partner = "moved" => partner' = [partner EXCEPT ![o] = "none", ![t] = "live"]
    BY <1>2 DEF CommitOrgMerge
  <2>3. CASE partner[o] # "live"
    BY <1>3, <2>2, <2>3 DEF PartnerChange
  <2>4. CASE partner[o] = "live" /\ partner[t] = "live"
    BY <1>3, <2>1, <2>2, <2>4 DEF PartnerChange
  <2>5. CASE partner[o] = "live" /\ partner[t] # "live"
    BY <1>3, <2>1, <2>2, <2>5 DEF PartnerChange
  <2> QED
    BY <2>3, <2>4, <2>5
<1> QED
  BY <1>4, <1>5, <1>6

\* What either organization owns when a merge commits, its domains, links and live partner row,
\* is the target's after it, for every number of organizations, as long as nothing overlaps.
THEOREM SequentialMergeHandsOver == OrgSpec => MergeHandsOver
<1>1. OrgInvariant /\ [OrgNext]_orgVars =>
        [~orgsOverlap => \A o, t \in Orgs :
           org[o].into # t /\ org'[o].into = t =>
             /\ \A l \in Links : link[l] \in {o, t} => link'[l] = t
             /\ \A d \in Domains : domain[d].owner \in {o, t} => domain'[d].owner = t
             /\ "live" \in {partner[o], partner[t]} => partner'[t] = "live"]_orgVars
  <2> SUFFICES ASSUME OrgInvariant, OrgNext, ~orgsOverlap, NEW o \in Orgs, NEW t \in Orgs,
                      org[o].into # t, org'[o].into = t
               PROVE  /\ \A l \in Links : link[l] \in {o, t} => link'[l] = t
                      /\ \A d \in Domains : domain[d].owner \in {o, t} => domain'[d].owner = t
                      /\ "live" \in {partner[o], partner[t]} => partner'[t] = "live"
    OBVIOUS
  <2>1. PICK r \in OrgRequests : CommitOrgMerge(r)
    BY RowsKept
  <2> QED
    BY <2>1, CommitHandsOver
<1>2. OrgInit => OrgInvariant
  BY OrgInitHolds
<1>3. OrgInvariant /\ [OrgNext]_orgVars => OrgInvariant'
  BY OrgStepHolds
<1> QED
  BY <1>1, <1>2, <1>3, PTL DEF OrgSpec, MergeHandsOver

-----------------------------------------------------------------------------
(* Organizations: parents. *)

\* The recursion of AncestorsFrom, over any table of organizations.
AncestorsIn(tab, p) ==
  LET up[n \in 0..Cardinality(Orgs)] ==
        IF n = 0 THEN {p}
        ELSE up[n-1] \cup {tab[a].parent : a \in up[n-1] \ {NoOrg}}
  IN  up[Cardinality(Orgs)]

LEMMA AncestorsAreIn ==
  ASSUME NEW p
  PROVE  AncestorsFrom(p) = AncestorsIn(org, p) /\ AncestorsFrom(p)' = AncestorsIn(org', p)
BY DEF AncestorsFrom, AncestorsIn

ParentOf(tab) == [o \in Orgs |-> tab[o].parent]

\* The parents of a table are organizations or none.
Parented(tab) == Pointers(ParentOf(tab), NoOrg, Orgs)

\* It is the walk along the parents.
LEMMA AncestorsClimb ==
  ASSUME NEW tab, Parented(tab), NEW p \in Orgs
  PROVE  \E f : /\ Climbs(ParentOf(tab), NoOrg, p, Cardinality(Orgs), f)
                /\ AncestorsIn(tab, p) = f[Cardinality(Orgs)]
<1> DEFINE k == Cardinality(Orgs)
           Is(f) == f = [n \in 0..k |-> IF n = 0 THEN {p}
                           ELSE f[n-1] \cup {tab[a].parent : a \in f[n-1] \ {NoOrg}}]
           up == CHOOSE f : Is(f)
<1>1. AncestorsIn(tab, p) = up[k]
  BY DEF AncestorsIn
<1>2. k \in Nat
  BY OrgAssumption, FS_CardinalityType
<1> HIDE DEF k
<1>3. PICK g : Recursion(ParentOf(tab), NoOrg, p, k, g)
  BY <1>2, ClimbExists
<1>4. Climbs(ParentOf(tab), NoOrg, p, k, g)
  BY <1>2, <1>3, RecursionClimbs
<1>5. \A n \in 0..k : g[n] \subseteq Orgs \cup {NoOrg}
  BY <1>2, <1>4, ClimbTyped DEF Parented
<1>6. ASSUME NEW A \in SUBSET (Orgs \cup {NoOrg})
      PROVE  Above(ParentOf(tab), NoOrg, A) = A \cup {tab[a].parent : a \in A \ {NoOrg}}
  BY DEF Above, ParentOf
<1>7. Is(g)
  <2>1. \A n \in 0..k : n # 0 =>
          Above(ParentOf(tab), NoOrg, g[n-1]) = g[n-1] \cup {tab[a].parent : a \in g[n-1] \ {NoOrg}}
    BY <1>2, <1>5, <1>6
  <2> QED
    BY <1>3, <2>1 DEF Recursion
<1>8. Is(up)
  BY <1>7
<1> HIDE DEF up
<1>9. up[0] = {p} /\ \A n \in 0..k : n < k =>
        up[n+1] = up[n] \cup {tab[a].parent : a \in up[n] \ {NoOrg}}
  <2>1. \A n \in 0..k : up[n] = IF n = 0 THEN {p}
           ELSE up[n-1] \cup {tab[a].parent : a \in up[n-1] \ {NoOrg}}
    BY <1>8
  <2>2. 0 \in 0..k
    BY <1>2
  <2>3. up[0] = {p}
    BY <2>1, <2>2
  <2>4. ASSUME NEW n \in 0..k, n < k
        PROVE  up[n+1] = up[n] \cup {tab[a].parent : a \in up[n] \ {NoOrg}}
    <3>1. n + 1 \in 0..k /\ n + 1 # 0 /\ (n + 1) - 1 = n
      BY <1>2, <2>4
    <3> QED
      BY <2>1, <3>1
  <2> QED
    BY <2>3, <2>4
<1> DEFINE S == {n \in 0..k : up[n] = g[n]}
<1>10. 0 \in S
  <2>1. 0 \in 0..k
    BY <1>2
  <2>2. g[0] = {p}
    BY <1>4 DEF Climbs
  <2>3. up[0] = {p}
    BY <1>9
  <2> QED
    BY <2>1, <2>2, <2>3
<1>11. ASSUME NEW n \in 0..k, n \in S, n < k PROVE n + 1 \in S
  <2>1. up[n+1] = Above(ParentOf(tab), NoOrg, g[n])
    BY <1>5, <1>6, <1>9, <1>11
  <2> QED
    BY <1>2, <1>4, <1>11, <2>1 DEF Climbs
<1>12. k \in S
  <2>1. \A n \in 0..k : n \in S
    <3> HIDE DEF S
    <3> QED
      BY <1>2, <1>10, <1>11, UpTo
  <2> QED
    BY <1>2, <2>1
<1> QED
  BY <1>1, <1>4, <1>12 DEF k

\* Two tables with the same parents have the same ancestors.
LEMMA SameAncestors ==
  ASSUME NEW tab, Parented(tab), NEW new, \A o \in Orgs : new[o].parent = tab[o].parent,
         NEW p \in Orgs
  PROVE  AncestorsIn(new, p) = AncestorsIn(tab, p)
<1> DEFINE k == Cardinality(Orgs)
<1>1. k \in Nat
  BY OrgAssumption, FS_CardinalityType
<1>2. ParentOf(new) = ParentOf(tab) /\ Parented(new)
  BY DEF ParentOf, Parented
<1>3. PICK f : Climbs(ParentOf(tab), NoOrg, p, k, f) /\ AncestorsIn(tab, p) = f[k]
  BY AncestorsClimb
<1>4. PICK g : Climbs(ParentOf(tab), NoOrg, p, k, g) /\ AncestorsIn(new, p) = g[k]
  BY <1>2, AncestorsClimb
<1> HIDE DEF k
<1> QED
  BY <1>1, <1>3, <1>4, ClimbsAgree

\* With a rank, every organization has a root above it.
LEMMA RankedHasRoot ==
  ASSUME NEW tab, Parented(tab), NEW rank \in [Orgs -> Nat], Ranks(ParentOf(tab), Orgs, rank),
         NEW p \in Orgs
  PROVE  NoOrg \in AncestorsIn(tab, p)
BY AncestorsClimb, RankedIsRooted DEF Parented

\* A parent whose ancestors are rooted and leave out the child keeps a rank.
LEMMA NewParentRanked ==
  ASSUME NEW tab, Parented(tab), NEW rank \in [Orgs -> Nat], Ranks(ParentOf(tab), Orgs, rank),
         NEW o \in Orgs, NEW t \in Orgs,
         o \notin AncestorsIn(tab, t), NoOrg \in AncestorsIn(tab, t),
         NEW new, \A x \in Orgs : new[x].parent = IF x = o THEN t ELSE tab[x].parent
  PROVE  \E r \in [Orgs -> Nat] : Ranks(ParentOf(new), Orgs, r)
<1>1. PICK f : Climbs(ParentOf(tab), NoOrg, t, Cardinality(Orgs), f)
                 /\ AncestorsIn(tab, t) = f[Cardinality(Orgs)]
  BY AncestorsClimb
<1>2. ParentOf(new) = [ParentOf(tab) EXCEPT ![o] = t]
  BY DEF ParentOf
<1>3. Cardinality(Orgs) \in Nat
  BY OrgAssumption, FS_CardinalityType
<1>4. PICK next, k : next = ParentOf(tab) /\ k = Cardinality(Orgs)
  OBVIOUS
<1>5. Pointers(next, NoOrg, Orgs) /\ Ranks(next, Orgs, rank)
  BY <1>4 DEF Parented
<1>6. Climbs(next, NoOrg, t, k, f) /\ o \notin f[k] /\ NoOrg \in f[k] /\ k \in Nat
  BY <1>1, <1>3, <1>4
<1>7. \E r \in [Orgs -> Nat] : Ranks([next EXCEPT ![o] = t], Orgs, r)
  BY <1>5, <1>6, NewPointerRanked
<1> QED
  BY <1>2, <1>4, <1>7

-----------------------------------------------------------------------------
(* Organizations: cycles of parents. *)

\* Before two changes of a parent were open at once, parents have a rank, and the one change
\* that may be open would keep it.
Rankable ==
  /\ \E rank \in [Orgs -> Nat] : Ranks(ParentOf(org), Orgs, rank)
  /\ \A r, s \in OrgRequests :
       orgReq[r].pc = "parented" /\ orgReq[s].pc = "parented" => r = s
  /\ \A r \in OrgRequests : orgReq[r].pc = "parented" =>
       NoCycleThrough(orgReq[r].o, orgReq[r].t)

ParentInvariant == OrgInvariant /\ (~parentsCross => Rankable)

LEMMA ParentsTyped == OrgInvariant => Parented(org)
  BY OrgAssumption DEF OrgInvariant, OrgTypes, OrgTables, OrgRows, Parented, ParentOf, Pointers

\* What the walk found before a step holds after it, when no parent changes.
LEMMA WalkKept ==
  ASSUME OrgInvariant, \A x \in Orgs : org'[x].parent = org[x].parent,
         NEW o, NEW t \in Orgs, NoCycleThrough(o, t)
  PROVE  NoCycleThrough(o, t)'
<1>1. AncestorsIn(org', t) = AncestorsIn(org, t)
  BY ParentsTyped, SameAncestors
<1> QED
  BY <1>1, AncestorsAreIn DEF NoCycleThrough

LEMMA ParentInitHolds == OrgInit => ParentInvariant
<1> SUFFICES ASSUME OrgInit PROVE ParentInvariant
  OBVIOUS
<1> DEFINE rank == [o \in Orgs |-> 0]
<1>1. rank \in [Orgs -> Nat] /\ Ranks(ParentOf(org), Orgs, rank)
  BY OrgAssumption DEF OrgInit, Ranks, ParentOf
<1>2. \A r \in OrgRequests : orgReq[r].pc = "new"
  BY NoRequestTyped DEF OrgInit
<1> QED
  BY <1>1, <1>2, OrgInitHolds DEF ParentInvariant, Rankable

\* A step that changes no parent and begins no change of one.
LEMMA ParentsKept ==
  ASSUME ParentInvariant, UNCHANGED parentsCross, \A x \in Orgs : org'[x].parent = org[x].parent,
         \A r \in OrgRequests : orgReq'[r].pc = "parented" => orgReq'[r] = orgReq[r]
  PROVE  ~parentsCross' => Rankable'
<1> SUFFICES ASSUME ~parentsCross' PROVE Rankable'
  OBVIOUS
<1>1. Rankable
  BY DEF ParentInvariant
<1>2. \E rank \in [Orgs -> Nat] : Ranks(ParentOf(org), Orgs, rank)'
  BY <1>1 DEF Rankable, Ranks, ParentOf
<1>3. ASSUME NEW r \in OrgRequests, orgReq'[r].pc = "parented"
      PROVE  NoCycleThrough(orgReq[r].o, orgReq[r].t)'
  <2>1. PICK o, t : o = orgReq[r].o /\ t = orgReq[r].t
    OBVIOUS
  <2>2. t \in Orgs /\ NoCycleThrough(o, t) /\ orgReq'[r] = orgReq[r] /\ OrgInvariant
    BY <1>1, <1>3, <2>1 DEF ParentInvariant, OrgInvariant, OrgTypes, OrgAbout, Rankable
  <2>3. NoCycleThrough(o, t)'
    BY <2>2, WalkKept
  <2> QED
    BY <2>1, <2>2, <2>3
<1> QED
  BY <1>1, <1>2, <1>3 DEF Rankable

LEMMA SetParentKeepsRank ==
  ASSUME ParentInvariant, NEW r \in OrgRequests, NEW o \in Orgs, NEW p \in Orgs, NEW v,
         SetParent(r, o, p, v)
  PROVE  ~parentsCross' => Rankable'
<1> SUFFICES ASSUME ~parentsCross' PROVE Rankable'
  OBVIOUS
<1>1. ~parentsCross /\ LockedOrgs = {}
  BY Zenon DEF SetParent, ParentInvariant, OrgInvariant, OrgTypes
<1>2. \A s \in OrgRequests : orgReq[s].pc # "parented"
  BY <1>1 DEF LockedOrgs, OpenOrg
<1> DEFINE row == [NoRequest EXCEPT !.pc = "parented", !.o = o, !.t = p]
<1>3. row.pc = "parented" /\ row.o = o /\ row.t = p
  BY NoRequestTyped, Zenon DEF OrgReqRows
<1>4. orgReq' = [orgReq EXCEPT ![r] = row] /\ UNCHANGED org /\ NoCycleThrough(o, p)
  BY DEF SetParent
<1> HIDE DEF row
<1>5. orgReq'[r] = row /\ \A s \in OrgRequests : s # r => orgReq'[s] = orgReq[s]
  BY <1>4 DEF ParentInvariant, OrgInvariant, OrgTypes
<1>6. NoCycleThrough(o, p)'
  BY <1>4, WalkKept DEF ParentInvariant
<1>7. \E rank \in [Orgs -> Nat] : Ranks(ParentOf(org), Orgs, rank)'
  BY <1>1, <1>4 DEF ParentInvariant, Rankable, Ranks, ParentOf
<1>8. \A s \in OrgRequests : orgReq'[s].pc = "parented" => s = r
  BY <1>2, <1>5
<1>9. orgReq'[r].o = o /\ orgReq'[r].t = p
  BY <1>3, <1>5
<1>10. NoCycleThrough(orgReq[r].o, orgReq[r].t)'
  BY <1>6, <1>9
<1> QED
  BY <1>7, <1>8, <1>10 DEF Rankable

LEMMA CommitParentKeepsRank ==
  ASSUME ParentInvariant, NEW r \in OrgRequests, CommitParent(r)
  PROVE  ~parentsCross' => Rankable'
<1> SUFFICES ASSUME ~parentsCross' PROVE Rankable'
  OBVIOUS
<1>1. PICK o, t : o = orgReq[r].o /\ t = orgReq[r].t
  OBVIOUS
<1>2. /\ ~parentsCross /\ Rankable /\ orgReq[r].pc = "parented" /\ o \in Orgs /\ t \in Orgs
      /\ OrgInvariant /\ org[o] \in OrgRows
  BY <1>1 DEF CommitParent, ParentInvariant, OrgInvariant, OrgTypes, OrgTables, OrgAbout
<1> DEFINE row == [OrgTouch(org[o]) EXCEPT !.parent = t]
<1>3. row \in OrgRows /\ row.parent = t
  BY <1>2, TouchedTyped DEF OrgRows
<1>4. org' = [org EXCEPT ![o] = row] /\ orgReq' = [orgReq EXCEPT ![r].pc = "done"]
  BY <1>1 DEF CommitParent
<1> HIDE DEF row
<1>5. \A x \in Orgs : org'[x].parent = IF x = o THEN t ELSE org[x].parent
  <2>1. org'[o] = row /\ \A x \in Orgs : x # o => org'[x] = org[x]
    BY <1>2, <1>3, <1>4, OrgTyped DEF OrgInvariant
  <2> QED
    BY <1>3, <2>1
<1>6. PICK rank \in [Orgs -> Nat] : Ranks(ParentOf(org), Orgs, rank)
  BY <1>2 DEF Rankable
<1>7. o \notin AncestorsIn(org, t) /\ NoOrg \in AncestorsIn(org, t)
  BY <1>1, <1>2, AncestorsAreIn DEF Rankable, NoCycleThrough
<1>8. \E new \in [Orgs -> Nat] : Ranks(ParentOf(org), Orgs, new)'
  <2>1. \E new \in [Orgs -> Nat] : Ranks(ParentOf(org'), Orgs, new)
    BY <1>2, <1>5, <1>6, <1>7, ParentsTyped, NewParentRanked
  <2> QED
    BY <2>1 DEF Ranks, ParentOf
<1>9. \A s \in OrgRequests : orgReq'[s].pc # "parented"
  <2>1. \A s \in OrgRequests : orgReq[s] \in OrgReqRows
    BY <1>2 DEF OrgInvariant, OrgTypes
  <2>2. \A s \in OrgRequests : s # r => orgReq'[s] = orgReq[s] /\ orgReq[s].pc # "parented"
    BY <1>2, <1>4 DEF Rankable, OrgInvariant, OrgTypes
  <2>3. orgReq'[r].pc = "done"
    BY <1>2, <1>4, <2>1 DEF OrgInvariant, OrgTypes, OrgReqRows
  <2> QED
    BY <2>2, <2>3
<1> QED
  BY <1>8, <1>9 DEF Rankable

\* Only SetParent begins a change of parent.
LEMMA OnlySetParentBegins ==
  ASSUME OrgInvariant, OrgNext,
         ~\E r \in OrgRequests, o, p \in Orgs, v \in 0..1 : SetParent(r, o, p, v)
  PROVE  /\ UNCHANGED parentsCross
         /\ \A s \in OrgRequests : orgReq'[s].pc = "parented" => orgReq'[s] = orgReq[s]
<1> DEFINE Kept == \A s \in OrgRequests : orgReq'[s].pc = "parented" => orgReq'[s] = orgReq[s]
<1>1. /\ orgReq \in [OrgRequests -> OrgReqRows]
      /\ \A s \in OrgRequests : orgReq[s] \in OrgReqRows
  BY DEF OrgInvariant, OrgTypes
<1>2. ASSUME NEW r \in OrgRequests, NEW row, row.pc # "parented", orgReq' = [orgReq EXCEPT ![r] = row]
      PROVE  Kept
  BY <1>1, <1>2
<1>3. ASSUME NEW r \in OrgRequests,
             orgReq' = [orgReq EXCEPT ![r].pc = "done"]
               \/ orgReq' = [orgReq EXCEPT ![r] = [NoRequest EXCEPT !.pc = "done"]]
      PROVE  Kept
  <2>1. [orgReq[r] EXCEPT !.pc = "done"].pc = "done"
    BY <1>1 DEF OrgReqRows
  <2>2. [NoRequest EXCEPT !.pc = "done"].pc = "done"
    BY DEF NoRequest
  <2> HIDE DEF Kept
  <2> QED
    BY <1>2, <1>3, <2>1, <2>2
<1>4. ASSUME NEW r \in OrgRequests, NEW o \in Orgs, NEW t \in Orgs,
             ReadRestoreOrg(r, o) \/ ValidateOrgMerge(r, o, t)
      PROVE  Kept
  <2>1. /\ [NoRequest EXCEPT !.pc = "seen", !.o = o].pc = "seen"
        /\ [NoRequest EXCEPT !.pc = "validated", !.o = o, !.t = t,
                             !.version = org[o].version].pc = "validated"
    BY DEF NoRequest
  <2> HIDE DEF Kept
  <2> QED
    BY <1>2, <1>4, <2>1 DEF ReadRestoreOrg, ValidateOrgMerge
<1>5. ASSUME NEW r \in OrgRequests, RelinkOrg(r) PROVE Kept
  <2> DEFINE o   == orgReq[r].o
             t   == orgReq[r].t
             row == [orgReq[r] EXCEPT !.pc = "relinked", !.domains = DomainsOf(o),
                       !.links = LinksOf(o), !.demoted = HasPrimaryDomain(t),
                       !.partner = PartnerChange(o, t)]
  <2>1. row.pc = "relinked"
    BY <1>1 DEF OrgReqRows
  <2>2. orgReq' = [orgReq EXCEPT ![r] = row]
    BY <1>5, Zenon DEF RelinkOrg
  <2> HIDE DEF Kept, row
  <2> QED
    BY <1>2, <2>1, <2>2
<1> HIDE DEF Kept
<1>6. CASE \/ \E o \in Orgs, ds \in SUBSET Domains : CreateOrg(o, ds)
           \/ \E l \in Links, o \in Orgs : LinkOrg(l, o)
  BY <1>6 DEF CreateOrg, LinkOrg, Kept
<1>7. ASSUME NEW r \in OrgRequests, NEW o \in Orgs, NEW t \in Orgs,
             \/ ValidateOrgMerge(r, o, t)
             \/ ArchiveOrg(r, o) \/ ReadRestoreOrg(r, o) \/ UpsertPartner(r, o)
      PROVE  Kept /\ UNCHANGED parentsCross
  <2>1. UNCHANGED parentsCross
    BY <1>7 DEF ValidateOrgMerge, ArchiveOrg, ReadRestoreOrg, UpsertPartner
  <2>2. Kept
    BY <1>3, <1>4, <1>7 DEF ArchiveOrg, UpsertPartner
  <2> QED
    BY <2>1, <2>2
<1>8. CASE \E r \in OrgRequests, o, t \in Orgs : ValidateOrgMerge(r, o, t)
  BY <1>7, <1>8 DEF Kept
<1>9. CASE \E r \in OrgRequests, o \in Orgs :
             ArchiveOrg(r, o) \/ ReadRestoreOrg(r, o) \/ UpsertPartner(r, o)
  BY <1>7, <1>9 DEF Kept
<1>10. CASE \E r \in OrgRequests :
              \/ CommitParent(r) \/ RestoreOrg(r) \/ RelinkOrg(r) \/ CommitOrgMerge(r)
              \/ AbortOrg(r)
  <2>1. UNCHANGED parentsCross
    BY <1>10 DEF CommitParent, RestoreOrg, RelinkOrg, CommitOrgMerge, AbortOrg
  <2>2. Kept
    BY <1>3, <1>5, <1>10 DEF CommitParent, RestoreOrg, CommitOrgMerge, AbortOrg
  <2> QED
    BY <2>1, <2>2 DEF Kept
<1> QED
  BY <1>6, <1>8, <1>9, <1>10 DEF OrgNext, Kept

LEMMA ParentStepHolds == ParentInvariant /\ [OrgNext]_orgVars => ParentInvariant'
<1> SUFFICES ASSUME ParentInvariant, [OrgNext]_orgVars PROVE ParentInvariant'
  OBVIOUS
<1>1. OrgInvariant /\ OrgInvariant'
  BY OrgStepHolds DEF ParentInvariant
<1>2. CASE UNCHANGED orgVars
  BY <1>1, <1>2, ParentsKept DEF orgVars, ParentInvariant
<1>3. CASE OrgNext
  <2>1. CASE \E r \in OrgRequests, o, p \in Orgs, v \in 0..1 : SetParent(r, o, p, v)
    BY <1>1, <2>1, SetParentKeepsRank DEF ParentInvariant
  <2>2. CASE \E r \in OrgRequests : CommitParent(r)
    BY <1>1, <2>2, CommitParentKeepsRank DEF ParentInvariant
  <2>3. CASE /\ ~\E r \in OrgRequests, o, p \in Orgs, v \in 0..1 : SetParent(r, o, p, v)
             /\ ~\E r \in OrgRequests : CommitParent(r)
    BY <1>1, <1>3, <2>3, RowsKept, OnlySetParentBegins, ParentsKept DEF ParentInvariant
  <2> QED
    BY <2>1, <2>2, <2>3
<1> QED
  BY <1>2, <1>3

\* For every finite set of organizations: the walk of the trigger ends at a root from every
\* organization, so no update is refused for ever, until two changes of a parent were open at once.
THEOREM CyclesOnlyByCrossing == OrgSpec => []CyclesNeedCrossing
<1>1. OrgInit => ParentInvariant
  BY ParentInitHolds
<1>2. ParentInvariant /\ [OrgNext]_orgVars => ParentInvariant'
  BY ParentStepHolds
<1>3. ParentInvariant => CyclesNeedCrossing
  <2> SUFFICES ASSUME ParentInvariant, ~parentsCross, NEW o \in Orgs PROVE NoOrg \in AncestorsFrom(o)
    BY DEF CyclesNeedCrossing
  <2>1. PICK rank \in [Orgs -> Nat] : Ranks(ParentOf(org), Orgs, rank)
    BY DEF ParentInvariant, Rankable
  <2> QED
    BY <2>1, ParentsTyped, RankedHasRoot, AncestorsAreIn DEF ParentInvariant
<1> QED
  BY <1>1, <1>2, <1>3, PTL DEF OrgSpec

-----------------------------------------------------------------------------
(* Relationships: what a merge of people read still holds until it is crossed. *)

\* An open merge is of two different people; unless a row of theirs has changed since, it
\* would read the same again.
Agreed(m) ==
  merge[m].pc = "read" =>
    /\ merge[m].p \in Persons /\ merge[m].t \in Persons /\ merge[m].p # merge[m].t
    /\ ~merge[m].crossed => /\ merge[m].demoted = Demoted(merge[m].p, merge[m].t)
                            /\ merge[m].collapsed = Collapsed(merge[m].p, merge[m].t)

EdgeInvariant == EdgeTypeOK /\ FitsIndexes(edge) /\ \A m \in Merges : Agreed(m)

LEMMA EdgeInitHolds == EdgeInit => EdgeInvariant
<1> SUFFICES ASSUME EdgeInit PROVE EdgeInvariant
  OBVIOUS
<1> DEFINE none == [state |-> "absent", person |-> NoSeat, seat |-> NoSeat,
                    primary |-> FALSE, ended |-> FALSE]
           new  == [pc |-> "new", p |-> NoSeat, t |-> NoSeat, demoted |-> {},
                    collapsed |-> {}, crossed |-> FALSE]
<1>1. none \in EdgeRows /\ new \in MergeRows /\ none.state = "absent" /\ new.pc = "new"
  BY Zenon DEF EdgeRows, MergeRows
<1>2. edge = [e \in Edges |-> none] /\ merge = [m \in Merges |-> new]
  BY DEF EdgeInit
<1> HIDE DEF none, new
<1> QED
  BY <1>1, <1>2 DEF EdgeInvariant, EdgeTypeOK, FitsIndexes, CurrentPrimary, LiveSeat, Agreed

\* What a merge reads depends on the rows of its two people alone.
LEMMA SameReading ==
  ASSUME NEW p, NEW t,
         \A e \in Edges : {edge[e].person, edge'[e].person} \cap {p, t} # {} =>
           edge'[e] = edge[e]
  PROVE  Demoted(p, t)' = Demoted(p, t) /\ Collapsed(p, t)' = Collapsed(p, t)
<1>1. \A e \in Edges, q \in {p, t} :
        /\ edge'[e].person = q <=> edge[e].person = q
        /\ edge[e].person = q => edge'[e] = edge[e]
  OBVIOUS
<1>2. \A e \in Edges, q \in {p, t} :
        /\ edge'[e].person = q /\ CurrentPrimary(edge'[e])
             <=> edge[e].person = q /\ CurrentPrimary(edge[e])
        /\ edge'[e].person = q /\ LiveSeat(edge'[e])
             <=> edge[e].person = q /\ LiveSeat(edge[e])
  BY <1>1, Zenon
<1>3. Demoted(p, t)' = Demoted(p, t)
  BY <1>2 DEF Demoted
<1>4. Collapsed(p, t)' = Collapsed(p, t)
  BY <1>1, <1>2 DEF Collapsed
<1> QED
  BY <1>3, <1>4

LEMMA NotedAgrees ==
  ASSUME NEW m \in Merges, merge[m] \in MergeRows, Agreed(m), merge'[m] = Noted(m)
  PROVE  Agreed(m)' /\ merge'[m] \in MergeRows
<1> DEFINE hit == \E e \in Edges :
                    /\ edge'[e] # edge[e]
                    /\ {edge[e].person, edge'[e].person} \cap {merge[m].p, merge[m].t} # {}
           row == [merge[m] EXCEPT !.crossed = TRUE]
<1>1. CASE merge[m].pc = "read" /\ hit
  <2>1. /\ row \in MergeRows /\ row.crossed /\ row.pc = merge[m].pc
        /\ row.p = merge[m].p /\ row.t = merge[m].t
    BY Zenon DEF MergeRows
  <2>2. merge'[m] = row
    BY <1>1 DEF Noted
  <2> HIDE DEF row
  <2> QED
    BY <1>1, <2>1, <2>2 DEF Agreed
<1>2. CASE ~(merge[m].pc = "read" /\ hit)
  <2>1. merge'[m] = merge[m]
    BY <1>2 DEF Noted
  <2>2. SUFFICES ASSUME merge[m].pc = "read", ~hit PROVE Agreed(m)'
    BY <1>2, <2>1 DEF Agreed
  <2>3. PICK p, t : p = merge[m].p /\ t = merge[m].t
    OBVIOUS
  <2>4. Demoted(p, t)' = Demoted(p, t) /\ Collapsed(p, t)' = Collapsed(p, t)
    <3>1. \A e \in Edges : {edge[e].person, edge'[e].person} \cap {p, t} # {} =>
            edge'[e] = edge[e]
      BY <2>2, <2>3
    <3> QED
      BY <3>1, SameReading
  <2>5. merge'[m].p = p /\ merge'[m].t = t
    BY <2>1, <2>3
  <2> QED
    BY <2>1, <2>3, <2>4, <2>5 DEF Agreed
<1> QED
  BY <1>1, <1>2

\* A step that changes rows, by a statement of the store or of the merge n: the other
\* merges note it.
LEMMA EdgeStepAgrees ==
  ASSUME EdgeInvariant, edge' \in [Edges -> EdgeRows], FitsIndexes(edge'), NEW n,
         NEW row \in MergeRows, row.pc = "done",
         merge' = [m \in Merges |-> IF m = n THEN row ELSE Noted(m)]
  PROVE  EdgeInvariant'
<1>1. \A m \in Merges : merge[m] \in MergeRows /\ Agreed(m)
  BY DEF EdgeInvariant, EdgeTypeOK
<1>2. \A m \in Merges : merge'[m] = IF m = n THEN row ELSE Noted(m)
  OBVIOUS
<1>3. \A m \in Merges : Agreed(m)' /\ merge'[m] \in MergeRows
  <2> TAKE m \in Merges
  <2>1. CASE m = n
    BY <1>2, <2>1 DEF Agreed
  <2>2. CASE m # n
    BY <1>1, <1>2, <2>2, NotedAgrees
  <2> QED
    BY <2>1, <2>2
<1>4. merge' \in [Merges -> MergeRows]
  BY <1>3
<1> QED
  BY <1>3, <1>4 DEF EdgeInvariant, EdgeTypeOK, FitsIndexes, CurrentPrimary, LiveSeat, Employment

\* A row of the table after a merge, while what the merge read holds: it keeps its seat, it
\* becomes the target's if it was the loser's, and it counts as it did unless the merge
\* demotes or archives it.
LEMMA RelinkedRow ==
  ASSUME EdgeInvariant, NEW m \in Merges, merge[m].pc = "read", NEW e \in Edges
  PROVE  LET row == Relinked(m, e)
             own == edge[e].person = merge[m].p
         IN  /\ row \in EdgeRows /\ row.seat = edge[e].seat
             /\ CurrentPrimary(row) <=> CurrentPrimary(edge[e]) /\ e \notin merge[m].demoted
                                                              /\ e \notin merge[m].collapsed
             /\ LiveSeat(row) <=> LiveSeat(edge[e]) /\ e \notin merge[m].collapsed
             /\ CurrentPrimary(row) \/ LiveSeat(row) =>
                  row.person = IF own THEN merge[m].t ELSE edge[e].person
<1> DEFINE prim == edge[e].primary /\ e \notin merge[m].demoted
           st   == IF e \in merge[m].collapsed THEN "archived" ELSE edge[e].state
           now  == [edge[e] EXCEPT !.primary = prim, !.state = st]
           own  == edge[e].person = merge[m].p
           row  == Relinked(m, e)
<1>1. edge[e] \in EdgeRows /\ merge[m].t \in Persons
  BY DEF EdgeInvariant, EdgeTypeOK, Agreed
<1>2. prim \in BOOLEAN /\ st \in {"absent", "live", "archived"}
  BY <1>1, Zenon DEF EdgeRows
<1>3. row = IF own /\ (Employment(edge[e]) \/ now.state = "live") /\ edge[e].state # "absent"
            THEN [now EXCEPT !.person = merge[m].t] ELSE now
  BY Zenon DEF Relinked
<1>4. /\ now \in EdgeRows /\ now.primary = prim /\ now.state = st
      /\ now.person = edge[e].person /\ now.seat = edge[e].seat /\ now.ended = edge[e].ended
  <2> HIDE DEF prim, st
  <2> QED
    BY <1>1, <1>2, Zenon DEF EdgeRows
<1>5. /\ [now EXCEPT !.person = merge[m].t] \in EdgeRows
      /\ [now EXCEPT !.person = merge[m].t].primary = prim
      /\ [now EXCEPT !.person = merge[m].t].state = st
      /\ [now EXCEPT !.person = merge[m].t].person = merge[m].t
      /\ [now EXCEPT !.person = merge[m].t].seat = edge[e].seat
      /\ [now EXCEPT !.person = merge[m].t].ended = edge[e].ended
  <2> HIDE DEF now, prim, st
  <2> QED
    BY <1>1, <1>4, Zenon DEF EdgeRows
<1>6. /\ row \in EdgeRows /\ row.seat = edge[e].seat /\ row.ended = edge[e].ended
      /\ row.primary = prim /\ row.state = st
  <2> HIDE DEF now, prim, st, row
  <2> QED
    BY <1>3, <1>4, <1>5, Zenon
<1>7. st = "live" => row.person = IF own THEN merge[m].t ELSE edge[e].person
  <2>1. CASE st = "live" /\ own
    <3>1. now.state = "live" /\ edge[e].state # "absent"
      BY <1>4, <2>1
    <3> QED
      BY <1>3, <1>5, <2>1, <3>1
  <2>2. CASE ~own
    BY <1>3, <1>4, <2>2
  <2> QED
    BY <2>1, <2>2
<1>8. CurrentPrimary(row) <=> CurrentPrimary(edge[e]) /\ e \notin merge[m].demoted
                                                    /\ e \notin merge[m].collapsed
  <2> HIDE DEF row, now
  <2> QED
    BY <1>6 DEF CurrentPrimary, Employment
<1>9. LiveSeat(row) <=> LiveSeat(edge[e]) /\ e \notin merge[m].collapsed
  <2> HIDE DEF row, now
  <2> QED
    BY <1>6 DEF LiveSeat, Employment
<1>10. CurrentPrimary(row) \/ LiveSeat(row) => st = "live"
  <2> HIDE DEF row, now, st
  <2> QED
    BY <1>6, Zenon DEF CurrentPrimary, LiveSeat
<1> QED
  BY <1>6, <1>7, <1>8, <1>9, <1>10, Zenon

LEMMA EdgeStepHolds == EdgeInvariant /\ [EdgeNext]_edgeVars => EdgeInvariant'
<1> SUFFICES ASSUME EdgeInvariant, [EdgeNext]_edgeVars PROVE EdgeInvariant'
  OBVIOUS
<1>1. edge \in [Edges -> EdgeRows] /\ merge \in [Merges -> MergeRows]
  BY DEF EdgeInvariant, EdgeTypeOK
<1>2. ASSUME NEW e \in Edges, NEW row \in EdgeRows, WriteEdge(e, row)
      PROVE  EdgeInvariant'
  <2>1. edge' \in [Edges -> EdgeRows] /\ FitsIndexes(edge')
    BY <1>1, <1>2 DEF WriteEdge
  <2>2. \A m \in Merges : Agreed(m)' /\ merge'[m] \in MergeRows
    <3> TAKE m \in Merges
    <3>1. merge[m] \in MergeRows /\ Agreed(m) /\ merge'[m] = Noted(m)
      BY <1>1, <1>2 DEF EdgeInvariant, WriteEdge
    <3> QED
      BY <3>1, NotedAgrees
  <2>3. merge' \in [Merges -> MergeRows]
    BY <1>2, <2>2 DEF WriteEdge
  <2> QED
    BY <2>1, <2>2, <2>3 DEF EdgeInvariant, EdgeTypeOK, FitsIndexes, CurrentPrimary, LiveSeat,
                            Employment
<1>3. ASSUME NEW e \in Edges, NEW p \in Persons, NEW s \in Seats \cup {NoSeat},
             NEW primary \in BOOLEAN, NEW ended \in BOOLEAN, CreateEdge(e, p, s, primary, ended)
      PROVE  EdgeInvariant'
  <2>1. [state |-> "live", person |-> p, seat |-> s, primary |-> primary, ended |-> ended]
          \in EdgeRows
    BY Zenon DEF EdgeRows
  <2> QED
    BY <1>2, <1>3, <2>1 DEF CreateEdge
<1>4. ASSUME NEW e \in Edges, NEW s \in Seats \cup {NoSeat},
             NEW primary \in BOOLEAN, NEW ended \in BOOLEAN, UpdateEdge(e, primary, ended, s)
      PROVE  EdgeInvariant'
  <2> DEFINE late == edge[e].ended \/ ended
             row  == [edge[e] EXCEPT !.primary = primary, !.ended = late, !.seat = s]
  <2>1. late \in BOOLEAN
    BY Zenon
  <2>2. row \in EdgeRows
    <3> HIDE DEF late
    <3> QED
      BY <1>1, <2>1, Zenon DEF EdgeRows
  <2>3. WriteEdge(e, row)
    BY <1>4, Zenon DEF UpdateEdge
  <2> HIDE DEF row
  <2> QED
    BY <1>2, <2>2, <2>3
<1>5. ASSUME NEW e \in Edges, ArchiveEdge(e) PROVE EdgeInvariant'
  <2> DEFINE row == [edge[e] EXCEPT !.state = "archived"]
  <2>1. row \in EdgeRows
    BY <1>1, Zenon DEF EdgeRows
  <2>2. WriteEdge(e, row)
    BY <1>5 DEF ArchiveEdge
  <2> HIDE DEF row
  <2> QED
    BY <1>2, <2>1, <2>2
<1>6. ASSUME NEW m \in Merges, NEW p \in Persons, NEW t \in Persons, ReadEdges(m, p, t)
      PROVE  EdgeInvariant'
  <2> DEFINE row == [pc |-> "read", p |-> p, t |-> t, demoted |-> Demoted(p, t),
                     collapsed |-> Collapsed(p, t), crossed |-> FALSE]
  <2>1. Demoted(p, t) \in SUBSET Edges /\ Collapsed(p, t) \in SUBSET Edges
    BY DEF Demoted, Collapsed
  <2>2. /\ row \in MergeRows /\ row.p = p /\ row.t = t /\ p # t
        /\ row.demoted = Demoted(p, t) /\ row.collapsed = Collapsed(p, t)
    BY <1>6, <2>1, Zenon DEF MergeRows, ReadEdges
  <2>3. merge' = [merge EXCEPT ![m] = row] /\ UNCHANGED edge
    BY <1>6 DEF ReadEdges
  <2> HIDE DEF row
  <2>4. merge' \in [Merges -> MergeRows]
    BY <1>1, <2>2, <2>3
  <2>5. \A n \in Merges : Agreed(n)'
    <3> TAKE n \in Merges
    <3>1. CASE n = m
      BY <1>1, <2>2, <2>3, <3>1 DEF Agreed, Demoted, Collapsed
    <3>2. CASE n # m
      BY <1>1, <2>3, <3>2 DEF EdgeInvariant, Agreed, Demoted, Collapsed
    <3> QED
      BY <3>1, <3>2
  <2> QED
    BY <1>1, <2>3, <2>4, <2>5 DEF EdgeInvariant, EdgeTypeOK, FitsIndexes
<1>7. ASSUME NEW m \in Merges, RelinkEdges(m) PROVE EdgeInvariant'
  <2> DEFINE row == [merge[m] EXCEPT !.pc = "done"]
  <2>1. row \in MergeRows /\ row.pc = "done"
    BY <1>1, Zenon DEF MergeRows
  <2>2. \A e \in Edges : Relinked(m, e) \in EdgeRows
    BY <1>7, RelinkedRow DEF RelinkEdges
  <2>3. edge' \in [Edges -> EdgeRows] /\ FitsIndexes(edge')
    BY <1>7, <2>2 DEF RelinkEdges, RelinkedEdges
  <2>4. merge' = [n \in Merges |-> IF n = m THEN row ELSE Noted(n)]
    BY <1>7 DEF RelinkEdges
  <2> HIDE DEF row
  <2> QED
    BY <2>1, <2>3, <2>4, EdgeStepAgrees
<1>8. ASSUME NEW m \in Merges, AbortRelink(m) PROVE EdgeInvariant'
  <2> DEFINE row == [merge[m] EXCEPT !.pc = "done"]
  <2>1. row \in MergeRows /\ row.pc = "done"
    BY <1>1, Zenon DEF MergeRows
  <2>2. merge' = [merge EXCEPT ![m] = row] /\ UNCHANGED edge
    BY <1>8 DEF AbortRelink
  <2> HIDE DEF row
  <2>3. \A n \in Merges : Agreed(n)'
    BY <1>1, <2>1, <2>2 DEF EdgeInvariant, Agreed, Demoted, Collapsed
  <2> QED
    BY <1>1, <2>1, <2>2, <2>3 DEF EdgeInvariant, EdgeTypeOK, FitsIndexes
<1>9. CASE UNCHANGED edgeVars
  BY <1>9 DEF EdgeInvariant, EdgeTypeOK, FitsIndexes, Agreed, Demoted, Collapsed, edgeVars
<1> QED
  BY <1>3, <1>4, <1>5, <1>6, <1>7, <1>8, <1>9 DEF EdgeNext

\* What was read still holds, so nothing that is moved breaks an index.
LEMMA AgreedFits == EdgeInvariant => RelinkFits
<1> SUFFICES ASSUME EdgeInvariant, NEW m \in Merges, merge[m].pc = "read", ~merge[m].crossed
             PROVE  LET p == merge[m].p
                        t == merge[m].t
                    IN  /\ FitsIndexes(RelinkedEdges(m))
                        /\ SeatsHeld(RelinkedEdges(m), t) = SeatsHeld(edge, p) \cup SeatsHeld(edge, t)
                        /\ Employed(RelinkedEdges(m), t) <=> Employed(edge, p) \/ Employed(edge, t)
  BY DEF RelinkFits
<1> DEFINE p   == merge[m].p
           t   == merge[m].t
           tab == RelinkedEdges(m)
           B(e) == CurrentPrimary(edge[e])
           L(e) == LiveSeat(edge[e])
<1>1. /\ p # t /\ merge[m].demoted = Demoted(p, t) /\ merge[m].collapsed = Collapsed(p, t)
      /\ FitsIndexes(edge)
  BY DEF EdgeInvariant, Agreed
<1>2. \A e \in Edges : e \in Demoted(p, t) <=>
        edge[e].person = p /\ B(e) /\ \E f \in Edges : edge[f].person = t /\ B(f)
  BY DEF Demoted
<1>3. \A e \in Edges : e \in Collapsed(p, t) <=>
        edge[e].person = p /\ L(e) /\ \E f \in Edges : edge[f].person = t /\ L(f)
                                                    /\ edge[f].seat = edge[e].seat
  BY DEF Collapsed
<1>4. \A e \in Edges : ~(B(e) /\ L(e))
  BY DEF CurrentPrimary, LiveSeat
<1>5. \A e \in Edges :
        /\ tab[e].seat = edge[e].seat
        /\ CurrentPrimary(tab[e]) <=> B(e) /\ e \notin Demoted(p, t)
        /\ LiveSeat(tab[e]) <=> L(e) /\ e \notin Collapsed(p, t)
        /\ CurrentPrimary(tab[e]) \/ LiveSeat(tab[e]) =>
             tab[e].person = IF edge[e].person = p THEN t ELSE edge[e].person
  <2> TAKE e \in Edges
  <2>1. tab[e] = Relinked(m, e)
    BY DEF RelinkedEdges
  <2> QED
    BY <1>1, <1>3, <1>4, <2>1, RelinkedRow
<1>6. \A e, f \in Edges : e # f /\ edge[e].person = edge[f].person =>
        ~(B(e) /\ B(f)) /\ ~(L(e) /\ L(f) /\ edge[e].seat = edge[f].seat)
  BY <1>1 DEF FitsIndexes
<1> HIDE DEF tab, B, L
<1>7. FitsIndexes(tab)
  <2> SUFFICES ASSUME NEW e \in Edges, NEW f \in Edges, e # f, tab[e].person = tab[f].person
               PROVE  /\ ~(CurrentPrimary(tab[e]) /\ CurrentPrimary(tab[f]))
                      /\ ~(LiveSeat(tab[e]) /\ LiveSeat(tab[f]) /\ tab[e].seat = tab[f].seat)
    BY DEF FitsIndexes
  <2>1. ~(CurrentPrimary(tab[e]) /\ CurrentPrimary(tab[f]))
    BY <1>1, <1>2, <1>5, <1>6
  <2>2. ~(LiveSeat(tab[e]) /\ LiveSeat(tab[f]) /\ tab[e].seat = tab[f].seat)
    BY <1>1, <1>3, <1>5, <1>6
  <2> QED
    BY <2>1, <2>2
<1>8. SeatsHeld(tab, t) = SeatsHeld(edge, p) \cup SeatsHeld(edge, t)
  <2>1. ASSUME NEW s PROVE s \in SeatsHeld(tab, t) <=> s \in SeatsHeld(edge, p) \cup SeatsHeld(edge, t)
    <3>1. s \in SeatsHeld(tab, t) <=>
            \E e \in Edges : tab[e].person = t /\ LiveSeat(tab[e]) /\ tab[e].seat = s
      BY DEF SeatsHeld
    <3>2. s \in SeatsHeld(edge, p) \cup SeatsHeld(edge, t) <=>
            \E e \in Edges : edge[e].person \in {p, t} /\ L(e) /\ edge[e].seat = s
      BY DEF SeatsHeld, L
    <3>3. ASSUME NEW e \in Edges, tab[e].person = t, LiveSeat(tab[e]), tab[e].seat = s
          PROVE  edge[e].person \in {p, t} /\ L(e) /\ edge[e].seat = s
      BY <1>5, <3>3
    <3>4. ASSUME NEW e \in Edges, edge[e].person \in {p, t}, L(e), edge[e].seat = s
          PROVE  \E f \in Edges : tab[f].person = t /\ LiveSeat(tab[f]) /\ tab[f].seat = s
      <4>1. CASE e \notin Collapsed(p, t)
        BY <1>1, <1>5, <3>4, <4>1
      <4>2. CASE e \in Collapsed(p, t)
        <5>1. PICK f \in Edges : edge[f].person = t /\ L(f) /\ edge[f].seat = s
          BY <1>3, <3>4, <4>2
        <5>2. f \notin Collapsed(p, t)
          BY <1>1, <1>3, <5>1
        <5> QED
          BY <1>1, <1>5, <5>1, <5>2
      <4> QED
        BY <4>1, <4>2
    <3> QED
      BY <3>1, <3>2, <3>3, <3>4
  <2> QED
    BY <2>1
<1>9. Employed(tab, t) <=> Employed(edge, p) \/ Employed(edge, t)
  <2>1. ASSUME NEW e \in Edges, tab[e].person = t, CurrentPrimary(tab[e])
        PROVE  edge[e].person \in {p, t} /\ B(e)
    BY <1>5, <2>1
  <2>2. ASSUME NEW e \in Edges, edge[e].person \in {p, t}, B(e)
        PROVE  \E f \in Edges : tab[f].person = t /\ CurrentPrimary(tab[f])
    <3>1. CASE e \notin Demoted(p, t)
      BY <1>1, <1>5, <2>2, <3>1
    <3>2. CASE e \in Demoted(p, t)
      <4>1. PICK f \in Edges : edge[f].person = t /\ B(f)
        BY <1>2, <3>2
      <4>2. f \notin Demoted(p, t)
        BY <1>1, <1>2, <4>1
      <4> QED
        BY <1>1, <1>5, <4>1, <4>2
    <3> QED
      BY <3>1, <3>2
  <2> QED
    BY <2>1, <2>2 DEF Employed, B
<1> QED
  BY <1>7, <1>8, <1>9 DEF tab

\* For every number of people, relationships and merges: what a merge moves breaks no index,
\* and the target ends with what the two had, unless a row of theirs changed meanwhile.
THEOREM RelinkedFits == EdgeSpec => []RelinkFits
<1>1. EdgeInit => EdgeInvariant
  BY EdgeInitHolds
<1>2. EdgeInvariant /\ [EdgeNext]_edgeVars => EdgeInvariant'
  BY EdgeStepHolds
<1>3. EdgeInvariant => RelinkFits
  BY AgreedFits
<1> QED
  BY <1>1, <1>2, <1>3, PTL DEF EdgeSpec
=============================================================================
