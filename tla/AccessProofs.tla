----------------------------- MODULE AccessProofs -----------------------------
(***************************************************************************)
(* For any number of users, sessions, codes, subjects and calls: an            *)
(* authorization code grants once, only a late Touch revives a session, only    *)
(* a revocation whose count was out of date takes the last administrator, and    *)
(* a record grant exceeds its grantor's own access only if that was reduced       *)
(* after the request had read it.                                                  *)
(***************************************************************************)
EXTENDS Identity, RecordGrants, FiniteSetTheorems, TLAPS

-----------------------------------------------------------------------------
(* Types, as far as the results need them. *)

RowIds == Sessions \cup Passports \cup Codes \cup Secrets \cup {NoRow}

CallShape == [kind : CallKinds, who : Users \cup {NoRow}, row : RowIds, role : Roles,
              scopes : SUBSET Scopes, count : Nat, at : Nat, stale : BOOLEAN]

SessionShape == [state : RowStates, user : Users \cup {NoRow}, expires : Nat, idle : Nat]

CodeShape == [state : {"absent", "issued"}, used : BOOLEAN, expires : Nat, grants : 0..2]

Typed ==
  /\ now \in Nat
  /\ member \in SUBSET Users
  /\ assigned \in [Users -> SUBSET Roles]
  /\ session \in [Sessions -> SessionShape]
  /\ code \in [Codes -> CodeShape]
  /\ call \in [Calls -> CallShape]

\* The row an open call is about.
RowOf(q) ==
  /\ q.kind \in {"touch"} => q.row \in Sessions
  /\ q.kind \in {"consume", "verify"} => q.row \in Codes
  /\ q.kind \in {"assign", "gated", "count", "revoke"} => q.who \in Users

\* A lookup took the session for valid when it began, and nothing brings idle_expires_at back.
TouchOK(q) ==
  q.kind = "touch" =>
    /\ session[q.row].state # "absent"
    /\ q.at < session[q.row].idle /\ q.at <= now

\* The holder of a code's row lock has found it unused; nobody else holds the lock.
VerifyOK(r) ==
  call[r].kind = "verify" =>
    /\ ~code[call[r].row].used
    /\ \A o \in Calls \ {r} : call[o].kind = "verify" => call[o].row # call[r].row

\* What the guard counted, and what it let pass, is still true unless the call is stale.
CountOK(q) ==
  /\ q.kind \in {"gated", "count", "revoke"} => member # {}
  /\ q.kind = "count" /\ ~q.stale => q.count = Cardinality(Admins)
  /\ q.kind = "revoke" /\ q.role = "admin" /\ ~q.stale => Admins # {q.who}

IdentityInv ==
  /\ Typed
  /\ \A r \in Calls : RowOf(call[r]) /\ TouchOK(call[r]) /\ VerifyOK(r) /\ CountOK(call[r])
  /\ CodeGrantsOnce

LEMMA Kinds ==
  {"new", "touch", "mint", "assign", "gated", "count", "revoke", "consume", "verify", "rotate",
   "done"} \subseteq CallKinds
  BY DEF CallKinds

LEMMA NewTyped ==
  NewCall \in CallShape /\ NewCall.kind = "new" /\ NewCall.who = NoRow /\ NewCall.stale = FALSE
<1>1. "admin" \in Roles /\ "new" \in CallKinds /\ NoRow \in RowIds /\ 0 \in Nat
      /\ {} \in SUBSET Scopes /\ NoRow \in Users \cup {NoRow}
  BY IdentityAssumption, Kinds DEF RowIds
<1> QED
  BY <1>1, Zenon DEF NewCall, CallShape

LEMMA InitTyped == IdentityInit => IdentityInv
<1> SUFFICES ASSUME IdentityInit PROVE IdentityInv
  OBVIOUS
<1>1. [state |-> "absent", user |-> NoRow, expires |-> 0, idle |-> 0] \in SessionShape
  BY DEF SessionShape, RowStates
<1>2. /\ [state |-> "absent", used |-> FALSE, expires |-> 0, grants |-> 0] \in CodeShape
      /\ [state |-> "absent", used |-> FALSE, expires |-> 0, grants |-> 0].grants = 0
  <2>1. 0 \in Nat /\ 0 \in 0..2 /\ "absent" \in {"absent", "issued"}
    OBVIOUS
  <2> QED
    BY <2>1, Zenon DEF CodeShape
<1>3. Typed
  BY <1>1, <1>2, NewTyped DEF IdentityInit, Typed
<1>4. \A r \in Calls : call[r] = NewCall
  BY DEF IdentityInit
<1>5. \A r \in Calls : RowOf(call[r]) /\ TouchOK(call[r]) /\ VerifyOK(r) /\ CountOK(call[r])
  BY <1>4, NewTyped DEF RowOf, TouchOK, VerifyOK, CountOK
<1>6. \A k \in Codes : code[k].grants = 0
  BY <1>2 DEF IdentityInit
<1>7. CodeGrantsOnce
  BY <1>6 DEF CodeGrantsOnce
<1> QED
  BY <1>3, <1>5, <1>7 DEF IdentityInv

LEMMA AdminsFinite ==
  IsFiniteSet(Admins) /\ Cardinality(Admins) \in Nat
<1>1. Admins \in SUBSET Users
  BY DEF Admins
<1> QED
  BY <1>1, IdentityAssumption, FS_Subset, FS_CardinalityType

-----------------------------------------------------------------------------
(* Calls. *)

\* A new call is opened.
LEMMA OpenTyped ==
  ASSUME Typed, NEW r \in Calls, NEW q \in CallShape, OpenCall(r, q)
  PROVE  /\ call' \in [Calls -> CallShape] /\ call'[r] = q /\ call[r].kind = "new"
         /\ \A o \in Calls \ {r} : call'[o] = call[o]
  BY DEF Typed, OpenCall

\* One field of a call is set.
LEMMA KindTyped ==
  ASSUME Typed, NEW r \in Calls, NEW k \in CallKinds,
         call' = [call EXCEPT ![r].kind = k]
  PROVE  /\ call' \in [Calls -> CallShape]
         /\ call'[r].kind = k /\ call'[r].who = call[r].who /\ call'[r].row = call[r].row
         /\ call'[r].role = call[r].role /\ call'[r].count = call[r].count
         /\ call'[r].at = call[r].at /\ call'[r].stale = call[r].stale
         /\ \A o \in Calls \ {r} : call'[o] = call[o]
<1> DEFINE q == [call[r] EXCEPT !.kind = k]
<1>1. call[r] \in CallShape
  BY DEF Typed
<1>2. /\ q \in CallShape /\ q.kind = k /\ q.who = call[r].who /\ q.row = call[r].row
      /\ q.role = call[r].role /\ q.count = call[r].count /\ q.at = call[r].at
      /\ q.stale = call[r].stale
  BY <1>1, Zenon DEF CallShape
<1>3. call' = [call EXCEPT ![r] = q]
  OBVIOUS
<1> HIDE DEF q
<1>4. /\ call' \in [Calls -> CallShape] /\ call'[r] = q
      /\ \A o \in Calls \ {r} : call'[o] = call[o]
  BY <1>2, <1>3 DEF Typed
<1> QED
  BY <1>2, <1>4, Zenon

\* OutdateCounts marks the open counts and leaves every other column alone.
LEMMA OutdateTyped ==
  ASSUME NEW cs \in [Calls -> CallShape], NEW o \in Calls
  PROVE  /\ OutdateCounts(cs)[o] \in CallShape
         /\ OutdateCounts(cs)[o].kind = cs[o].kind /\ OutdateCounts(cs)[o].who = cs[o].who
         /\ OutdateCounts(cs)[o].row = cs[o].row /\ OutdateCounts(cs)[o].at = cs[o].at
         /\ cs[o].kind \in {"count", "revoke"} => OutdateCounts(cs)[o].stale = TRUE
<1> DEFINE q == [cs[o] EXCEPT !.stale = TRUE]
           open == cs[o].kind \in {"count", "revoke"}
<1>1. cs[o] \in CallShape
  OBVIOUS
<1>2. /\ q \in CallShape /\ q.kind = cs[o].kind /\ q.who = cs[o].who /\ q.row = cs[o].row
      /\ q.at = cs[o].at /\ q.stale = TRUE
  BY <1>1, Zenon DEF CallShape
<1>3. OutdateCounts(cs)[o] = IF open THEN q ELSE cs[o]
  BY DEF OutdateCounts
<1> HIDE DEF q
<1>4. CASE open
  <2>1. OutdateCounts(cs)[o] = q
    BY <1>3, <1>4, Zenon
  <2> QED
    BY <1>2, <2>1, Zenon
<1>5. CASE ~open
  <2>1. OutdateCounts(cs)[o] = cs[o]
    BY <1>3, <1>5, Zenon
  <2> QED
    BY <1>1, <1>5, <2>1, Zenon
<1> QED
  BY <1>4, <1>5

-----------------------------------------------------------------------------
(* The steps. *)

rest == <<now, member, assigned, session, code>>

\* Nothing that the invariant is about changes.
LEMMA QuietHolds ==
  ASSUME IdentityInv, UNCHANGED rest, call' = call
  PROVE  IdentityInv'
<1> USE DEF IdentityInv, rest
<1>1. Admins' = Admins
  BY DEF Admins
<1>2. Typed' /\ CodeGrantsOnce'
  BY DEF Typed, CodeGrantsOnce
<1>3. ASSUME NEW o \in Calls
      PROVE  (RowOf(call[o]) /\ TouchOK(call[o]) /\ VerifyOK(o) /\ CountOK(call[o]))'
  BY <1>1 DEF RowOf, TouchOK, VerifyOK, CountOK
<1> QED
  BY <1>2, <1>3

\* A request that reads, and is as what it read says.
LEMMA OpenHolds ==
  ASSUME IdentityInv, NEW r \in Calls, NEW q \in CallShape, OpenCall(r, q), UNCHANGED rest,
         q.kind # "verify", RowOf(q), TouchOK(q), CountOK(q)
  PROVE  IdentityInv'
<1> USE DEF IdentityInv, rest
<1>1. /\ call' \in [Calls -> CallShape] /\ call'[r] = q
      /\ \A o \in Calls \ {r} : call'[o] = call[o]
  BY OpenTyped
<1>2. Admins' = Admins
  BY DEF Admins
<1>3. Typed' /\ CodeGrantsOnce'
  BY <1>1 DEF Typed, CodeGrantsOnce
<1>4. ASSUME NEW o \in Calls
      PROVE  (RowOf(call[o]) /\ TouchOK(call[o]) /\ VerifyOK(o) /\ CountOK(call[o]))'
  <2>1. RowOf(call[o])'
    BY <1>1 DEF RowOf
  <2>2. TouchOK(call[o])'
    BY <1>1 DEF TouchOK
  <2>3. VerifyOK(o)'
    BY <1>1 DEF VerifyOK
  <2>4. CountOK(call[o])'
    BY <1>1, <1>2 DEF CountOK
  <2> QED
    BY <2>1, <2>2, <2>3, <2>4
<1> QED
  BY <1>3, <1>4

\* A call that ends takes its promises with it.
LEMMA CloseHolds ==
  ASSUME IdentityInv, NEW r \in Calls, CloseCall(r), UNCHANGED rest
  PROVE  IdentityInv'
<1> USE DEF IdentityInv, rest
<1>1. /\ call' \in [Calls -> CallShape] /\ call'[r].kind = "done"
      /\ \A o \in Calls \ {r} : call'[o] = call[o]
  BY KindTyped, Kinds DEF CloseCall
<1>2. Admins' = Admins
  BY DEF Admins
<1>3. Typed' /\ CodeGrantsOnce'
  BY <1>1 DEF Typed, CodeGrantsOnce
<1>4. ASSUME NEW o \in Calls
      PROVE  (RowOf(call[o]) /\ TouchOK(call[o]) /\ VerifyOK(o) /\ CountOK(call[o]))'
  <2>1. CASE o = r
    BY <1>1, <2>1 DEF RowOf, TouchOK, VerifyOK, CountOK
  <2>2. CASE o # r
    BY <1>1, <1>2, <2>2 DEF RowOf, TouchOK, VerifyOK, CountOK
  <2> QED
    BY <2>1, <2>2
<1> QED
  BY <1>3, <1>4

\* Members come, and the clock goes on: what was read of either stays true.
LEMMA TimeHolds ==
  ASSUME IdentityInv, now' \in {now, now + 1}, member \subseteq member', member' \subseteq Users,
         UNCHANGED <<assigned, session, code, call>>
  PROVE  IdentityInv'
<1> USE DEF IdentityInv
<1>1. Admins' = Admins
  BY DEF Admins
<1>2. Typed' /\ CodeGrantsOnce'
  BY DEF Typed, CodeGrantsOnce
<1>3. ASSUME NEW o \in Calls
      PROVE  (RowOf(call[o]) /\ TouchOK(call[o]) /\ VerifyOK(o) /\ CountOK(call[o]))'
  <2>1. TouchOK(call[o])'
    <3>1. call[o].at \in Nat /\ now \in Nat
      BY DEF Typed, CallShape
    <3> QED
      BY <3>1 DEF TouchOK
  <2>2. (RowOf(call[o]) /\ VerifyOK(o) /\ CountOK(call[o]))'
    BY <1>1 DEF RowOf, VerifyOK, CountOK
  <2> QED
    BY <2>1, <2>2
<1> QED
  BY <1>2, <1>3

\* No request about roles is open before there is a member.
LEMMA CreateWorkspaceHolds ==
  ASSUME IdentityInv, NEW u \in Users, HandleCreateWorkspace(u)
  PROVE  IdentityInv'
<1> USE DEF IdentityInv, HandleCreateWorkspace, accountVars
<1>1. Typed'
  BY IdentityAssumption DEF Typed
<1>2. ASSUME NEW o \in Calls
      PROVE  (RowOf(call[o]) /\ TouchOK(call[o]) /\ VerifyOK(o) /\ CountOK(call[o]))'
  <2>1. call[o].kind \notin {"gated", "count", "revoke"}
    BY DEF CountOK
  <2> QED
    BY <2>1 DEF RowOf, TouchOK, VerifyOK, CountOK
<1>3. CodeGrantsOnce'
  BY DEF CodeGrantsOnce
<1> QED
  BY <1>1, <1>2, <1>3

\* Login inserts a session that no call can be about yet.
LEMMA LoginHolds ==
  ASSUME IdentityInv, NEW s \in Sessions, NEW u \in Users, HandleLogin(s, u)
  PROVE  IdentityInv'
<1> USE DEF IdentityInv
<1> DEFINE row == [state |-> "live", user |-> u, expires |-> now + SessionTicks,
                   idle |-> now + IdleTicks]
<1>1. /\ session[s].state = "absent" /\ session' = [session EXCEPT ![s] = row]
      /\ UNCHANGED <<now, member, assigned, code, call>>
  BY DEF HandleLogin
<1>2. row \in SessionShape
  BY IdentityAssumption DEF Typed, SessionShape, RowStates
<1> HIDE DEF row
<1>3. /\ session' \in [Sessions -> SessionShape]
      /\ \A z \in Sessions \ {s} : session'[z] = session[z]
  BY <1>1, <1>2 DEF Typed
<1>4. Admins' = Admins
  BY <1>1 DEF Admins
<1>5. Typed' /\ CodeGrantsOnce'
  BY <1>1, <1>3 DEF Typed, CodeGrantsOnce
<1>6. ASSUME NEW o \in Calls
      PROVE  (RowOf(call[o]) /\ TouchOK(call[o]) /\ VerifyOK(o) /\ CountOK(call[o]))'
  <2>1. TouchOK(call[o])'
    BY <1>1, <1>3 DEF TouchOK, RowOf
  <2>2. (RowOf(call[o]) /\ VerifyOK(o) /\ CountOK(call[o]))'
    BY <1>1, <1>4 DEF RowOf, VerifyOK, CountOK
  <2> QED
    BY <2>1, <2>2
<1> QED
  BY <1>5, <1>6

LEMMA LogoutHolds ==
  ASSUME IdentityInv, NEW s \in Sessions, HandleLogout(s)
  PROVE  IdentityInv'
<1> USE DEF IdentityInv
<1> DEFINE row == [session[s] EXCEPT !.state = "revoked"]
<1>1. session' = [session EXCEPT ![s] = row] /\ UNCHANGED <<now, member, assigned, code, call>>
  BY DEF HandleLogout
<1>2. row \in SessionShape /\ row.state = "revoked" /\ row.idle = session[s].idle
  BY DEF Typed, SessionShape, RowStates
<1> HIDE DEF row
<1>3. /\ session' \in [Sessions -> SessionShape] /\ session'[s] = row
      /\ \A z \in Sessions \ {s} : session'[z] = session[z]
  BY <1>1, <1>2 DEF Typed
<1>4. Admins' = Admins
  BY <1>1 DEF Admins
<1>5. Typed' /\ CodeGrantsOnce'
  BY <1>1, <1>3 DEF Typed, CodeGrantsOnce
<1>6. ASSUME NEW o \in Calls
      PROVE  (RowOf(call[o]) /\ TouchOK(call[o]) /\ VerifyOK(o) /\ CountOK(call[o]))'
  <2>1. TouchOK(call[o])'
    BY <1>1, <1>2, <1>3 DEF TouchOK, RowOf
  <2>2. (RowOf(call[o]) /\ VerifyOK(o) /\ CountOK(call[o]))'
    BY <1>1, <1>4 DEF RowOf, VerifyOK, CountOK
  <2> QED
    BY <2>1, <2>2
<1> QED
  BY <1>5, <1>6

\* Touch brings the idle end forward, never back: every other lookup began no later than now.
LEMMA TouchHolds ==
  ASSUME IdentityInv, NEW r \in Calls, TouchSession(r)
  PROVE  IdentityInv'
<1> USE DEF IdentityInv
<1> DEFINE s   == call[r].row
           row == [session[s] EXCEPT !.idle = now + IdleTicks]
<1>1. /\ s \in Sessions /\ session' = [session EXCEPT ![s] = row]
      /\ UNCHANGED <<now, member, assigned, code>> /\ CloseCall(r)
  BY DEF TouchSession, RowOf
<1>2. row \in SessionShape /\ row.state = session[s].state /\ row.idle = now + IdleTicks
  BY <1>1, IdentityAssumption DEF Typed, SessionShape, RowStates
<1> HIDE DEF row, s
<1>3. /\ session' \in [Sessions -> SessionShape] /\ session'[s] = row
      /\ \A z \in Sessions \ {s} : session'[z] = session[z]
  BY <1>1, <1>2 DEF Typed
<1>4. /\ call' \in [Calls -> CallShape] /\ call'[r].kind = "done"
      /\ \A o \in Calls \ {r} : call'[o] = call[o]
  BY <1>1, KindTyped, Kinds DEF CloseCall
<1>5. Admins' = Admins
  BY <1>1 DEF Admins
<1>6. Typed' /\ CodeGrantsOnce'
  BY <1>1, <1>3, <1>4 DEF Typed, CodeGrantsOnce
<1>7. ASSUME NEW o \in Calls
      PROVE  (RowOf(call[o]) /\ TouchOK(call[o]) /\ VerifyOK(o) /\ CountOK(call[o]))'
  <2>1. CASE o = r
    BY <1>4, <2>1 DEF RowOf, TouchOK, VerifyOK, CountOK
  <2>2. CASE o # r
    <3>1. TouchOK(call[o])'
      <4>1. call'[o] = call[o] /\ TouchOK(call[o]) /\ RowOf(call[o])
        BY <1>4, <2>2
      <4>2. call[o].at \in Nat /\ now \in Nat /\ IdleTicks \in Nat \ {0}
        BY IdentityAssumption DEF Typed, CallShape
      <4> QED
        BY <1>1, <1>2, <1>3, <4>1, <4>2 DEF TouchOK, RowOf
    <3>2. (RowOf(call[o]) /\ VerifyOK(o) /\ CountOK(call[o]))'
      BY <1>1, <1>4, <1>5, <2>2 DEF RowOf, VerifyOK, CountOK
    <3> QED
      BY <3>1, <3>2
  <2> QED
    BY <2>1, <2>2
<1> QED
  BY <1>6, <1>7

\* A call that writes assignments ends; if it changes the administrators, every open count is
\* outdated with it.
LEMMA RolesHold ==
  ASSUME IdentityInv, NEW r \in Calls, assigned' \in [Users -> SUBSET Roles],
         NEW closed, closed = [call EXCEPT ![r].kind = "done"],
         \/ call' = OutdateCounts(closed)
         \/ call' = closed /\ Admins' = Admins,
         UNCHANGED <<now, member, session, code>>
  PROVE  IdentityInv'
<1> USE DEF IdentityInv
<1>1. /\ closed \in [Calls -> CallShape] /\ closed[r].kind = "done"
      /\ \A o \in Calls \ {r} : closed[o] = call[o]
  <2> DEFINE q == [call[r] EXCEPT !.kind = "done"]
  <2>1. q \in CallShape /\ q.kind = "done"
    <3>1. call[r] \in CallShape /\ "done" \in CallKinds
      BY Kinds DEF Typed
    <3> QED
      BY <3>1, Zenon DEF CallShape
  <2>2. closed = [call EXCEPT ![r] = q]
    OBVIOUS
  <2> HIDE DEF q
  <2> QED
    BY <2>1, <2>2 DEF Typed
<1>2. CASE call' = closed /\ Admins' = Admins
  <2>1. Typed' /\ CodeGrantsOnce'
    BY <1>1, <1>2 DEF Typed, CodeGrantsOnce
  <2>2. ASSUME NEW o \in Calls
        PROVE  (RowOf(call[o]) /\ TouchOK(call[o]) /\ VerifyOK(o) /\ CountOK(call[o]))'
    <3>1. CASE o = r
      BY <1>1, <1>2, <3>1 DEF RowOf, TouchOK, VerifyOK, CountOK
    <3>2. CASE o # r
      BY <1>1, <1>2, <3>2 DEF RowOf, TouchOK, VerifyOK, CountOK
    <3> QED
      BY <3>1, <3>2
  <2> QED
    BY <2>1, <2>2
<1>3. CASE call' = OutdateCounts(closed)
  <2>1. ASSUME NEW o \in Calls
        PROVE  /\ call'[o] \in CallShape /\ call'[o].kind = closed[o].kind
               /\ call'[o].who = closed[o].who /\ call'[o].row = closed[o].row
               /\ call'[o].at = closed[o].at
               /\ closed[o].kind \in {"count", "revoke"} => call'[o].stale = TRUE
    BY <1>1, <1>3, OutdateTyped
  <2>2. call' \in [Calls -> CallShape]
    <3>1. call' = [o \in Calls |-> call'[o]]
      BY <1>3 DEF OutdateCounts
    <3> QED
      BY <2>1, <3>1
  <2>3. Typed' /\ CodeGrantsOnce'
    BY <2>2 DEF Typed, CodeGrantsOnce
  <2>4. ASSUME NEW o \in Calls
        PROVE  (RowOf(call[o]) /\ TouchOK(call[o]) /\ VerifyOK(o) /\ CountOK(call[o]))'
    <3>1. CASE o = r
      BY <1>1, <2>1, <3>1 DEF RowOf, TouchOK, VerifyOK, CountOK
    <3>2. CASE o # r
      <4>1. closed[o] = call[o]
        BY <1>1, <3>2
      <4>2. RowOf(call[o])'
        BY <2>1, <4>1 DEF RowOf
      <4>3. TouchOK(call[o])'
        <5>1. /\ call'[o].kind = call[o].kind /\ call'[o].row = call[o].row
              /\ call'[o].at = call[o].at
          BY <2>1, <4>1
        <5>2. TouchOK(call[o]) /\ session' = session /\ now' = now
          OBVIOUS
        <5> QED
          BY <5>1, <5>2 DEF TouchOK
      <4>4. VerifyOK(o)'
        <5>1. ASSUME NEW x \in Calls, call'[x].kind = "verify"
              PROVE  x # r /\ call[x].kind = "verify" /\ call'[x].row = call[x].row
          BY <1>1, <2>1, <5>1
        <5> QED
          BY <5>1 DEF VerifyOK
      <4>5. CountOK(call[o])'
        BY <2>1, <4>1 DEF CountOK
      <4> QED
        BY <4>2, <4>3, <4>4, <4>5
    <3> QED
      BY <3>1, <3>2
  <2> QED
    BY <2>3, <2>4
<1> QED
  BY <1>2, <1>3

LEMMA AssignHolds ==
  ASSUME IdentityInv, NEW r \in Calls, AssignRole(r)
  PROVE  IdentityInv'
<1> DEFINE u == call[r].who
           k == call[r].role
           closed == [call EXCEPT ![r].kind = "done"]
<1>1. u \in Users /\ k \in Roles
  BY DEF AssignRole, IdentityInv, RowOf, Typed, CallShape
<1>2. /\ assigned' = [assigned EXCEPT ![u] = @ \cup {k}]
      /\ UNCHANGED <<now, member, session, code>>
      /\ call' = IF k = "admin" /\ k \notin assigned[u] THEN OutdateCounts(closed) ELSE closed
  BY DEF AssignRole, accountVars
<1> HIDE DEF u, k
<1>3. assigned' \in [Users -> SUBSET Roles]
  BY <1>1, <1>2 DEF IdentityInv, Typed
<1>4. ~(k = "admin" /\ k \notin assigned[u]) => Admins' = Admins
  BY <1>1, <1>2 DEF Admins, IdentityInv, Typed
<1>5. \/ call' = OutdateCounts(closed)
      \/ call' = closed /\ Admins' = Admins
  BY <1>2, <1>4
<1>6. closed = [call EXCEPT ![r].kind = "done"]
  OBVIOUS
<1> HIDE DEF closed
<1> QED
  BY <1>2, <1>3, <1>5, <1>6, RolesHold

LEMMA RevokeHolds ==
  ASSUME IdentityInv, NEW r \in Calls, RevokeRole(r)
  PROVE  IdentityInv'
<1> DEFINE u == call[r].who
           k == call[r].role
           closed == [call EXCEPT ![r].kind = "done"]
<1>1. u \in Users /\ k \in Roles
  BY DEF RevokeRole, IdentityInv, RowOf, Typed, CallShape
<1>2. /\ assigned' = [assigned EXCEPT ![u] = @ \ {k}]
      /\ UNCHANGED <<now, member, session, code>>
      /\ call' = IF k = "admin" /\ k \in assigned[u] THEN OutdateCounts(closed) ELSE closed
  BY DEF RevokeRole, accountVars
<1> HIDE DEF u, k
<1>3. assigned' \in [Users -> SUBSET Roles]
  BY <1>1, <1>2 DEF IdentityInv, Typed
<1>4. ~(k = "admin" /\ k \in assigned[u]) => Admins' = Admins
  BY <1>1, <1>2 DEF Admins, IdentityInv, Typed
<1>5. \/ call' = OutdateCounts(closed)
      \/ call' = closed /\ Admins' = Admins
  BY <1>2, <1>4
<1>6. closed = [call EXCEPT ![r].kind = "done"]
  OBVIOUS
<1> HIDE DEF closed
<1> QED
  BY <1>2, <1>3, <1>5, <1>6, RolesHold

LEMMA CountHolds ==
  ASSUME IdentityInv, NEW r \in Calls, CountAdmins(r)
  PROVE  IdentityInv'
<1> USE DEF IdentityInv
<1> DEFINE n == Cardinality(Admins)
           q == [call[r] EXCEPT !.kind = "count", !.count = n]
<1>1. /\ call[r].kind = "gated" /\ call' = [call EXCEPT ![r] = q]
      /\ UNCHANGED <<now, member, assigned, session, code>>
  BY DEF CountAdmins, accountVars
<1>2. n \in Nat
  BY AdminsFinite
<1>3. Admins' = Admins
  BY <1>1 DEF Admins
<1> HIDE DEF n
<1>4. /\ q \in CallShape /\ q.kind = "count" /\ q.count = n /\ q.who = call[r].who
  <2>1. call[r] \in CallShape /\ "count" \in CallKinds
    BY Kinds DEF Typed
  <2> QED
    BY <1>2, <2>1, Zenon DEF CallShape
<1> HIDE DEF q
<1>5. /\ call' \in [Calls -> CallShape] /\ call'[r] = q
      /\ \A o \in Calls \ {r} : call'[o] = call[o]
  BY <1>1, <1>4 DEF Typed
<1>6. Typed' /\ CodeGrantsOnce'
  BY <1>1, <1>5 DEF Typed, CodeGrantsOnce
<1>7. ASSUME NEW o \in Calls
      PROVE  (RowOf(call[o]) /\ TouchOK(call[o]) /\ VerifyOK(o) /\ CountOK(call[o]))'
  <2>1. CASE o = r
    <3>1. (RowOf(call[r]) /\ TouchOK(call[r]) /\ VerifyOK(r))'
      BY <1>1, <1>4, <1>5 DEF RowOf, TouchOK, VerifyOK
    <3>2. member' # {} /\ q.count = Cardinality(Admins)'
      BY <1>1, <1>3, <1>4 DEF CountOK, n
    <3>3. CountOK(call[r])'
      BY <1>4, <1>5, <3>2 DEF CountOK
    <3> QED
      BY <2>1, <3>1, <3>3
  <2>2. CASE o # r
    BY <1>1, <1>3, <1>4, <1>5, <2>2 DEF RowOf, TouchOK, VerifyOK, CountOK
  <2> QED
    BY <2>1, <2>2
<1> QED
  BY <1>6, <1>7

\* The guard lets a request pass whose count, if it is still true, leaves an administrator.
LEMMA GuardHolds ==
  ASSUME IdentityInv, NEW r \in Calls, LastAdminGuard(r)
  PROVE  IdentityInv'
<1> USE DEF IdentityInv
<1> DEFINE last == call[r].who \in Admins /\ call[r].count <= 1
           k == IF last THEN "done" ELSE "revoke"
<1>1. /\ call[r].kind = "count" /\ call' = [call EXCEPT ![r].kind = k]
      /\ UNCHANGED <<now, member, assigned, session, code>>
  BY DEF LastAdminGuard, accountVars
<1>2. k \in CallKinds /\ k \in {"done", "revoke"} /\ (k = "revoke" => ~last)
  BY Kinds
<1> HIDE DEF k
<1>3. /\ call' \in [Calls -> CallShape]
      /\ call'[r].kind = k /\ call'[r].who = call[r].who
      /\ call'[r].role = call[r].role /\ call'[r].stale = call[r].stale
      /\ \A o \in Calls \ {r} : call'[o] = call[o]
  BY <1>1, <1>2, KindTyped
<1>4. Admins' = Admins
  BY <1>1 DEF Admins
<1>5. Typed' /\ CodeGrantsOnce'
  BY <1>1, <1>3 DEF Typed, CodeGrantsOnce
<1>6. k = "revoke" /\ ~call[r].stale => Admins # {call[r].who}
  <2> SUFFICES ASSUME k = "revoke", ~call[r].stale, Admins = {call[r].who} PROVE FALSE
    OBVIOUS
  <2>1. call[r].count = Cardinality(Admins)
    BY <1>1, Zenon DEF CountOK
  <2>2. Cardinality(Admins) = 1
    BY FS_Singleton
  <2> QED
    BY <1>2, <2>1, <2>2
<1>7. ASSUME NEW o \in Calls
      PROVE  (RowOf(call[o]) /\ TouchOK(call[o]) /\ VerifyOK(o) /\ CountOK(call[o]))'
  <2>1. CASE o = r
    <3>1. (RowOf(call[r]) /\ TouchOK(call[r]) /\ VerifyOK(r))'
      BY <1>1, <1>2, <1>3 DEF RowOf, TouchOK, VerifyOK
    <3>2. CountOK(call[r])'
      BY <1>1, <1>2, <1>3, <1>4, <1>6 DEF CountOK
    <3> QED
      BY <2>1, <3>1, <3>2
  <2>2. CASE o # r
    BY <1>1, <1>2, <1>3, <1>4, <2>2 DEF RowOf, TouchOK, VerifyOK, CountOK
  <2> QED
    BY <2>1, <2>2
<1> QED
  BY <1>5, <1>7

LEMMA IssueHolds ==
  ASSUME IdentityInv, NEW k \in Codes, NEW ttl \in 1..2, IssueCode(k, ttl)
  PROVE  IdentityInv'
<1> USE DEF IdentityInv
<1> DEFINE row == [code[k] EXCEPT !.state = "issued", !.expires = now + ttl]
<1>1. code' = [code EXCEPT ![k] = row] /\ UNCHANGED <<now, member, assigned, session, call>>
  BY DEF IssueCode
<1>2. row \in CodeShape /\ row.used = code[k].used /\ row.grants = code[k].grants
  <2>1. code[k] \in CodeShape /\ now + ttl \in Nat /\ "issued" \in {"absent", "issued"}
    BY DEF Typed
  <2> QED
    BY <2>1, Zenon DEF CodeShape
<1> HIDE DEF row
<1>3. /\ code' \in [Codes -> CodeShape]
      /\ \A z \in Codes : code'[z].used = code[z].used /\ code'[z].grants = code[z].grants
  BY <1>1, <1>2 DEF Typed
<1>4. Admins' = Admins
  BY <1>1 DEF Admins
<1>5. Typed' /\ CodeGrantsOnce'
  BY <1>1, <1>3 DEF Typed, CodeGrantsOnce
<1>6. ASSUME NEW o \in Calls
      PROVE  (RowOf(call[o]) /\ TouchOK(call[o]) /\ VerifyOK(o) /\ CountOK(call[o]))'
  <2>1. VerifyOK(o)'
    BY <1>1, <1>3 DEF VerifyOK, RowOf
  <2>2. (RowOf(call[o]) /\ TouchOK(call[o]) /\ CountOK(call[o]))'
    BY <1>1, <1>4 DEF RowOf, TouchOK, CountOK
  <2> QED
    BY <2>1, <2>2
<1> QED
  BY <1>5, <1>6

\* The lock is free, and what it finds it finds after it has waited.
LEMMA LockHolds ==
  ASSUME IdentityInv, NEW r \in Calls, ConsumeLock(r)
  PROVE  IdentityInv'
<1> USE DEF IdentityInv
<1> DEFINE row   == call[r].row
           found == code[row].state = "issued" /\ code[row].expires > call[r].at /\ ~code[row].used
           k     == IF found THEN "verify" ELSE "done"
<1>1. /\ call[r].kind = "consume" /\ ~LockedCode(row) /\ call' = [call EXCEPT ![r].kind = k]
      /\ UNCHANGED <<now, member, assigned, session, code>>
  BY DEF ConsumeLock, accountVars
<1>2. k \in CallKinds /\ k \in {"verify", "done"} /\ (k = "verify" => ~code[row].used)
  <2>1. CASE found
    BY <2>1, Kinds
  <2>2. CASE ~found
    BY <2>2, Kinds
  <2> QED
    BY <2>1, <2>2
<1> HIDE DEF k, found
<1>3. /\ call' \in [Calls -> CallShape] /\ call'[r].kind = k /\ call'[r].row = row
      /\ \A o \in Calls \ {r} : call'[o] = call[o]
  BY <1>1, <1>2, KindTyped
<1>4. \A o \in Calls : call[o].kind = "verify" => call[o].row # row
  BY <1>1 DEF LockedCode
<1>5. Admins' = Admins
  BY <1>1 DEF Admins
<1>6. row \in Codes
  BY <1>1 DEF RowOf
<1> HIDE DEF row
<1>7. Typed' /\ CodeGrantsOnce'
  BY <1>1, <1>3 DEF Typed, CodeGrantsOnce
<1>8. ASSUME NEW o \in Calls
      PROVE  (RowOf(call[o]) /\ TouchOK(call[o]) /\ VerifyOK(o) /\ CountOK(call[o]))'
  <2>1. CASE o = r
    <3>1. (RowOf(call[r]) /\ TouchOK(call[r]) /\ CountOK(call[r]))'
      BY <1>2, <1>3, <1>6 DEF RowOf, TouchOK, CountOK
    <3>2. VerifyOK(r)'
      BY <1>1, <1>2, <1>3, <1>4 DEF VerifyOK
    <3> QED
      BY <2>1, <3>1, <3>2
  <2>2. CASE o # r
    <3>1. (RowOf(call[o]) /\ TouchOK(call[o]) /\ CountOK(call[o]))'
      BY <1>1, <1>3, <1>5, <2>2 DEF RowOf, TouchOK, CountOK
    <3>2. VerifyOK(o)'
      BY <1>1, <1>3, <1>4, <2>2 DEF VerifyOK
    <3> QED
      BY <3>1, <3>2
  <2> QED
    BY <2>1, <2>2
<1> QED
  BY <1>7, <1>8

\* The code was unused when it was locked, and nobody else has it locked.
LEMMA CommitHolds ==
  ASSUME IdentityInv, NEW r \in Calls, ConsumeCommit(r)
  PROVE  IdentityInv'
<1> USE DEF IdentityInv
<1> DEFINE k   == call[r].row
           n   == IF code[k].grants < 2 THEN code[k].grants + 1 ELSE code[k].grants
           row == [code[k] EXCEPT !.used = TRUE, !.grants = n]
<1>1. /\ call[r].kind = "verify" /\ k \in Codes /\ ~code[k].used
      /\ UNCHANGED <<now, member, assigned, session>> /\ CloseCall(r)
  BY DEF ConsumeCommit, VerifyOK, RowOf
<1>2. code' = [code EXCEPT ![k] = row]
  BY DEF ConsumeCommit
<1>3. code[k].grants = 0
  <2>1. code[k].grants \in 0..2
    BY <1>1 DEF Typed, CodeShape
  <2>2. code[k].grants <= 1 /\ code[k].grants # 1
    BY <1>1, Zenon DEF CodeGrantsOnce
  <2> QED
    BY <2>1, <2>2
<1>4. n = 1
  BY <1>3
<1>5. \A o \in Calls \ {r} : call[o].kind = "verify" => call[o].row # k
  BY <1>1 DEF VerifyOK
<1> HIDE DEF k, n
<1>6. row \in CodeShape /\ row.used = TRUE /\ row.grants = 1
  <2>1. code[k] \in CodeShape /\ n \in 0..2
    BY <1>1, <1>4 DEF Typed
  <2> QED
    BY <1>4, <2>1, Zenon DEF CodeShape
<1> HIDE DEF row
<1>7. /\ code' \in [Codes -> CodeShape] /\ code'[k] = row
      /\ \A z \in Codes \ {k} : code'[z] = code[z]
  BY <1>1, <1>2, <1>6 DEF Typed
<1>8. /\ call' \in [Calls -> CallShape] /\ call'[r].kind = "done"
      /\ \A o \in Calls \ {r} : call'[o] = call[o]
  BY <1>1, KindTyped, Kinds DEF CloseCall
<1>9. Admins' = Admins
  BY <1>1 DEF Admins
<1>10. Typed'
  BY <1>1, <1>7, <1>8 DEF Typed
<1>11. CodeGrantsOnce'
  BY <1>6, <1>7 DEF CodeGrantsOnce
<1>12. ASSUME NEW o \in Calls
       PROVE  (RowOf(call[o]) /\ TouchOK(call[o]) /\ VerifyOK(o) /\ CountOK(call[o]))'
  <2>1. CASE o = r
    BY <1>8, <2>1 DEF RowOf, TouchOK, VerifyOK, CountOK
  <2>2. CASE o # r
    <3>1. (RowOf(call[o]) /\ TouchOK(call[o]) /\ CountOK(call[o]))'
      BY <1>1, <1>8, <1>9, <2>2 DEF RowOf, TouchOK, CountOK
    <3>2. VerifyOK(o)'
      BY <1>5, <1>7, <1>8, <2>2 DEF VerifyOK, RowOf
    <3> QED
      BY <3>1, <3>2
  <2> QED
    BY <2>1, <2>2
<1> QED
  BY <1>10, <1>11, <1>12

\* The calls that open: what each has read is as it says.
LEMMA OpensHold ==
  ASSUME IdentityInv, NEW r \in Calls,
         \/ \E s \in Sessions : LookupSession(r, s)
         \/ \E u \in Users, want \in SUBSET Scopes : HandleCreatePassport(r, u, want)
         \/ \E by, u \in Users, k \in Roles :
              HandleAssignRole(r, by, u, k) \/ HandleRevokeRole(r, by, u, k)
         \/ \E k \in Codes : ConsumeBegin(r, k)
         \/ RotateBegin(r)
  PROVE  IdentityInv'
<1> USE NewTyped, Kinds
<1>0. Typed /\ now \in Nat
  BY DEF IdentityInv, Typed
<1>1. ASSUME NEW s \in Sessions, LookupSession(r, s) PROVE IdentityInv'
  <2> DEFINE q == [NewCall EXCEPT !.kind = "touch", !.row = s, !.at = now]
  <2>1. q \in CallShape /\ q.kind = "touch" /\ q.row = s /\ q.at = now
    <3>1. s \in RowIds /\ "touch" \in CallKinds
      BY DEF RowIds
    <3> QED
      BY <1>0, <3>1, Zenon DEF CallShape
  <2>2. OpenCall(r, q) /\ UNCHANGED rest
    BY <1>1 DEF LookupSession, accountVars, rest
  <2>3. session[s].state # "absent" /\ now < session[s].idle
    BY <1>0, <1>1 DEF LookupSession, ValidSession, Alive, Typed, SessionShape
  <2> HIDE DEF q
  <2>4. RowOf(q) /\ TouchOK(q) /\ CountOK(q)
    BY <1>0, <2>1, <2>3 DEF RowOf, TouchOK, CountOK
  <2> QED
    BY <2>1, <2>2, <2>4, OpenHolds
<1>2. ASSUME NEW u \in Users, NEW want \in SUBSET Scopes, HandleCreatePassport(r, u, want)
      PROVE  IdentityInv'
  <2> DEFINE q == [NewCall EXCEPT !.kind = "mint", !.who = u, !.scopes = want]
  <2>1. q \in CallShape /\ q.kind = "mint"
    <3>1. u \in Users \cup {NoRow} /\ "mint" \in CallKinds
      OBVIOUS
    <3> QED
      BY <3>1, Zenon DEF CallShape
  <2>2. OpenCall(r, q) /\ UNCHANGED rest
    BY <1>2 DEF HandleCreatePassport, accountVars, rest
  <2> HIDE DEF q
  <2>3. RowOf(q) /\ TouchOK(q) /\ CountOK(q)
    BY <2>1 DEF RowOf, TouchOK, CountOK
  <2> QED
    BY <2>1, <2>2, <2>3, OpenHolds
<1>3. ASSUME NEW by \in Users, NEW u \in Users, NEW k \in Roles, HandleAssignRole(r, by, u, k)
      PROVE  IdentityInv'
  <2> DEFINE q == [NewCall EXCEPT !.kind = "assign", !.who = u, !.role = k]
  <2>1. q \in CallShape /\ q.kind = "assign" /\ q.who = u
    <3>1. u \in Users \cup {NoRow} /\ "assign" \in CallKinds
      OBVIOUS
    <3> QED
      BY <3>1, Zenon DEF CallShape
  <2>2. OpenCall(r, q) /\ UNCHANGED rest
    BY <1>3 DEF HandleAssignRole, accountVars, rest
  <2> HIDE DEF q
  <2>3. RowOf(q) /\ TouchOK(q) /\ CountOK(q)
    BY <2>1 DEF RowOf, TouchOK, CountOK
  <2> QED
    BY <2>1, <2>2, <2>3, OpenHolds
<1>4. ASSUME NEW by \in Users, NEW u \in Users, NEW k \in Roles, HandleRevokeRole(r, by, u, k)
      PROVE  IdentityInv'
  <2> DEFINE kind == IF k = "admin" THEN "gated" ELSE "revoke"
             q == [NewCall EXCEPT !.kind = kind, !.who = u, !.role = k]
  <2>1. kind \in CallKinds /\ kind \in {"gated", "revoke"} /\ (kind = "revoke" => k # "admin")
    OBVIOUS
  <2>2. OpenCall(r, q) /\ UNCHANGED rest /\ member # {}
    BY <1>4 DEF HandleRevokeRole, ManagesMembers, accountVars, rest
  <2> HIDE DEF kind
  <2>3. q \in CallShape /\ q.kind = kind /\ q.who = u /\ q.role = k
    <3>1. u \in Users \cup {NoRow}
      OBVIOUS
    <3> QED
      BY <2>1, <3>1, Zenon DEF CallShape
  <2> HIDE DEF q
  <2>4. RowOf(q) /\ TouchOK(q) /\ CountOK(q) /\ q.kind # "verify"
    BY <2>1, <2>2, <2>3 DEF RowOf, TouchOK, CountOK
  <2> QED
    BY <2>2, <2>3, <2>4, OpenHolds
<1>5. ASSUME NEW k \in Codes, ConsumeBegin(r, k) PROVE IdentityInv'
  <2> DEFINE q == [NewCall EXCEPT !.kind = "consume", !.row = k, !.at = now]
  <2>1. q \in CallShape /\ q.kind = "consume" /\ q.row = k
    <3>1. k \in RowIds /\ "consume" \in CallKinds
      BY DEF RowIds
    <3> QED
      BY <1>0, <3>1, Zenon DEF CallShape
  <2>2. OpenCall(r, q) /\ UNCHANGED rest
    BY <1>5 DEF ConsumeBegin, accountVars, rest
  <2> HIDE DEF q
  <2>3. RowOf(q) /\ TouchOK(q) /\ CountOK(q)
    BY <2>1 DEF RowOf, TouchOK, CountOK
  <2> QED
    BY <2>1, <2>2, <2>3, OpenHolds
<1>6. ASSUME RotateBegin(r) PROVE IdentityInv'
  <2> DEFINE q == [NewCall EXCEPT !.kind = "rotate", !.at = now]
  <2>1. q \in CallShape /\ q.kind = "rotate"
    <3>1. "rotate" \in CallKinds
      OBVIOUS
    <3> QED
      BY <1>0, <3>1, Zenon DEF CallShape
  <2>2. OpenCall(r, q) /\ UNCHANGED rest
    BY <1>6 DEF RotateBegin, accountVars, rest
  <2> HIDE DEF q
  <2>3. RowOf(q) /\ TouchOK(q) /\ CountOK(q)
    BY <2>1 DEF RowOf, TouchOK, CountOK
  <2> QED
    BY <2>1, <2>2, <2>3, OpenHolds
<1> QED
  BY <1>1, <1>2, <1>3, <1>4, <1>5, <1>6

\* The calls that end without a word about users, sessions or codes.
LEMMA EndsHold ==
  ASSUME IdentityInv, NEW r \in Calls,
         \/ TouchFails(r)
         \/ \E p \in Passports, ttl \in 0..1 : CreatePassport(r, p, ttl)
         \/ ConsumeFails(r)
         \/ \E x \in Secrets : RotateCommit(r, x)
  PROVE  IdentityInv'
<1>1. CloseCall(r) /\ UNCHANGED rest
  BY DEF TouchFails, CreatePassport, ConsumeFails, RotateCommit, accountVars, rest
<1> QED
  BY <1>1, CloseHolds

LEMMA BootstrapHolds ==
  ASSUME IdentityInv, ClockTick \/ Bootstrap
  PROVE  IdentityInv'
<1>1. CASE ClockTick
  BY <1>1, TimeHolds DEF ClockTick, accountVars, IdentityInv, Typed
<1>2. ASSUME NEW u \in Users, ExternalMember(u) PROVE IdentityInv'
  BY <1>2, TimeHolds DEF ExternalMember, accountVars, IdentityInv, Typed
<1> QED
  BY <1>1, <1>2, CreateWorkspaceHolds DEF Bootstrap

LEMMA IdentityStepHolds == IdentityInv /\ [IdentityNext]_identityVars => IdentityInv'
<1> SUFFICES ASSUME IdentityInv, [IdentityNext]_identityVars PROVE IdentityInv'
  OBVIOUS
<1>1. CASE SessionNext
  BY <1>1, BootstrapHolds, LoginHolds, LogoutHolds, OpensHold, TouchHolds, EndsHold
  DEF SessionNext
<1>2. CASE MemberNext
  <2>1. ASSUME NEW p \in Passports, HandleRevokePassport(p) PROVE IdentityInv'
    BY <2>1, QuietHolds DEF HandleRevokePassport, rest
  <2> QED
    BY <1>2, <2>1, BootstrapHolds, OpensHold, AssignHolds, CountHolds, GuardHolds, RevokeHolds,
       EndsHold
    DEF MemberNext
<1>3. CASE CodeNext
  BY <1>3, BootstrapHolds, IssueHolds, OpensHold, LockHolds, CommitHolds, EndsHold DEF CodeNext
<1>4. CASE ConnectionNext
  <2>1. CASE CreateConnection \/ RevokeConnection
    BY <2>1, QuietHolds DEF CreateConnection, RevokeConnection, accountVars, rest
  <2> QED
    BY <1>4, <2>1, BootstrapHolds, OpensHold, EndsHold DEF ConnectionNext
<1>5. CASE UNCHANGED identityVars
  BY <1>5, QuietHolds DEF identityVars, accountVars, rest
<1> QED
  BY <1>1, <1>2, <1>3, <1>4, <1>5 DEF IdentityNext

\* The inductive invariant holds in every reachable state.
THEOREM IdentityInvariant == IdentitySpec => []IdentityInv
  BY InitTyped, IdentityStepHolds, PTL DEF IdentitySpec

-----------------------------------------------------------------------------
(* The results. *)

\* An authorization code yields its grant once, whatever overlaps or rolls back (Consume).
THEOREM CodesGrantOnce == IdentitySpec => []CodeGrantsOnce
<1>1. IdentityInv => CodeGrantsOnce
  BY DEF IdentityInv
<1> QED
  BY <1>1, IdentityInvariant, PTL

\* Time alone makes no session valid.
LEMMA NotByTime ==
  ASSUME Typed, NEW s \in Sessions, session'[s] = session[s], now' \in {now, now + 1}
  PROVE  ValidSession(s)' => ValidSession(s)
<1>1. now \in Nat /\ session[s].expires \in Nat /\ session[s].idle \in Nat
  BY DEF Typed, SessionShape
<1> QED
  BY <1>1 DEF ValidSession, Alive

\* A session that would be refused is accepted again only by the late Touch of a request that
\* found it valid; a revoked one, or one past its end, never (session_store.go, Touch).
THEOREM SessionsReviveByOverlap == IdentitySpec => RevivedOnlyByOverlap
<1> DEFINE Revived(s) == session[s].state # "absent" /\ ~ValidSession(s) /\ ValidSession(s)'
           Late(s) == /\ Alive(s)
                      /\ \E r \in Calls : /\ call[r].kind = "touch" /\ call[r].row = s
                                          /\ call[r].at < session[s].idle
<1>1. ASSUME IdentityInv, IdentityNext, NEW s \in Sessions, Revived(s) PROVE Late(s)
  <2>0. Typed
    BY <1>1 DEF IdentityInv
  <2>1. ASSUME session'[s] = session[s], now' \in {now, now + 1} PROVE FALSE
    BY <1>1, <2>0, <2>1, NotByTime
  <2>2. ASSUME NEW z \in Sessions, NEW u \in Users, HandleLogin(z, u) PROVE FALSE
    <3>1. z # s /\ now' = now
      BY <1>1, <2>2 DEF HandleLogin
    <3>2. session'[s] = session[s]
      BY <2>0, <2>2, <3>1 DEF HandleLogin, Typed
    <3> QED
      BY <2>1, <3>1, <3>2
  <2>3. ASSUME NEW z \in Sessions, HandleLogout(z) PROVE FALSE
    <3>1. CASE z = s
      <4>1. session'[s].state = "revoked"
        BY <2>0, <2>3, <3>1 DEF HandleLogout, Typed, SessionShape
      <4> QED
        BY <1>1, <4>1 DEF ValidSession, Alive
    <3>2. CASE z # s
      <4>1. session'[s] = session[s] /\ now' = now
        BY <2>0, <2>3, <3>2 DEF HandleLogout, Typed
      <4> QED
        BY <2>1, <4>1
    <3> QED
      BY <3>1, <3>2
  <2>4. ASSUME NEW r \in Calls, TouchSession(r) PROVE Late(s)
    <3>1. /\ call[r].kind = "touch" /\ now' = now
          /\ session' = [session EXCEPT ![call[r].row].idle = now + IdleTicks]
      BY <2>4 DEF TouchSession
    <3>2. call[r].row = s
      <4> SUFFICES ASSUME call[r].row # s PROVE FALSE
        OBVIOUS
      <4>1. session'[s] = session[s]
        BY <2>0, <3>1 DEF Typed
      <4> QED
        BY <2>1, <3>1, <4>1
    <3>3. session'[s].state = session[s].state /\ session'[s].expires = session[s].expires
      BY <2>0, <3>1, <3>2 DEF Typed, SessionShape
    <3>4. Alive(s)
      BY <1>1, <3>1, <3>3 DEF ValidSession, Alive
    <3>5. call[r].at < session[s].idle
      BY <1>1, <3>1, <3>2 DEF IdentityInv, TouchOK
    <3> QED
      BY <3>1, <3>2, <3>4, <3>5
  <2>5. \/ session' = session /\ now' \in {now, now + 1}
        \/ (\E z \in Sessions, u \in Users : HandleLogin(z, u))
        \/ (\E z \in Sessions : HandleLogout(z)) \/ (\E r \in Calls : TouchSession(r))
    <3>1. CASE SessionNext
      BY <3>1 DEF SessionNext, ClockTick, Bootstrap, HandleCreateWorkspace, ExternalMember,
                  LookupSession, TouchFails, accountVars
    <3>2. CASE MemberNext
      BY <3>2 DEF MemberNext, Bootstrap, HandleCreateWorkspace, ExternalMember, HandleAssignRole,
                  HandleRevokeRole, AssignRole, CountAdmins, LastAdminGuard, RevokeRole,
                  HandleCreatePassport, CreatePassport, HandleRevokePassport, accountVars
    <3>3. CASE CodeNext
      BY <3>3 DEF CodeNext, ClockTick, Bootstrap, HandleCreateWorkspace, ExternalMember, IssueCode,
                  ConsumeBegin, ConsumeLock, ConsumeCommit, ConsumeFails, accountVars
    <3>4. CASE ConnectionNext
      BY <3>4 DEF ConnectionNext, ClockTick, Bootstrap, HandleCreateWorkspace, ExternalMember,
                  CreateConnection, RevokeConnection, RotateBegin, RotateCommit, accountVars
    <3> QED
      BY <1>1, <3>1, <3>2, <3>3, <3>4 DEF IdentityNext
  <2> QED
    BY <2>1, <2>2, <2>3, <2>4, <2>5
<1>2. IdentityInv /\ [IdentityNext]_identityVars => [RevivalIsLate]_identityVars
  BY <1>1 DEF RevivalIsLate
<1> QED
  BY <1>2, IdentityInvariant, PTL DEF IdentitySpec, RevivedOnlyByOverlap

\* The last administrator goes only with a revocation whose count was no longer true when it
\* deleted (HandleRevokeRole's guard).
THEOREM AdminsGoByOverlap == IdentitySpec => AdminlessNeedsOverlap
<1> DEFINE Stale == \E r \in Calls : call[r].kind = "revoke" /\ call'[r].kind = "done"
                                     /\ call[r].stale
<1>1. ASSUME IdentityInv, IdentityNext, Admins # {}, Admins' = {} PROVE Stale
  <2>0. Typed
    BY <1>1 DEF IdentityInv
  <2>1. ASSUME assigned' = assigned PROVE FALSE
    BY <1>1, <2>1 DEF Admins
  <2>2. ASSUME NEW u \in Users, HandleCreateWorkspace(u) PROVE FALSE
    <3>1. u \in Admins'
      BY <2>0, <2>2 DEF HandleCreateWorkspace, Admins, Typed
    <3> QED
      BY <1>1, <3>1
  <2>3. ASSUME NEW r \in Calls, AssignRole(r) PROVE FALSE
    <3>1. Admins \subseteq Admins'
      BY <2>0, <2>3 DEF AssignRole, Admins, Typed
    <3> QED
      BY <1>1, <3>1
  <2>4. ASSUME NEW r \in Calls, RevokeRole(r) PROVE Stale
    <3> DEFINE u == call[r].who
               closed == [call EXCEPT ![r].kind = "done"]
    <3>1. /\ call[r].kind = "revoke"
          /\ assigned' = [assigned EXCEPT ![u] = @ \ {call[r].role}]
          /\ call' \in {closed, OutdateCounts(closed)}
      BY <2>4 DEF RevokeRole
    <3>2. call[r].role = "admin" /\ Admins \subseteq {u}
      BY <1>1, <2>0, <3>1 DEF Admins, Typed
    <3>3. Admins = {u}
      BY <1>1, <3>2
    <3>4. call[r].stale
      BY <1>1, <3>1, <3>2, <3>3, Zenon DEF IdentityInv, CountOK
    <3>5. closed \in [Calls -> CallShape] /\ closed[r].kind = "done"
      <4> DEFINE q == [call[r] EXCEPT !.kind = "done"]
      <4>1. q \in CallShape /\ q.kind = "done"
        <5>1. call[r] \in CallShape /\ "done" \in CallKinds
          BY <2>0, Kinds DEF Typed
        <5> QED
          BY <5>1, Zenon DEF CallShape
      <4>2. closed = [call EXCEPT ![r] = q]
        OBVIOUS
      <4> HIDE DEF q, closed
      <4> QED
        BY <2>0, <4>1, <4>2 DEF Typed
    <3> HIDE DEF closed
    <3>6. OutdateCounts(closed)[r].kind = "done"
      BY <3>5, OutdateTyped
    <3>7. call'[r].kind = "done"
      BY <3>1, <3>5, <3>6
    <3> QED
      BY <3>1, <3>4, <3>7, Zenon
  <2>5. assigned' = assigned \/ (\E u \in Users : HandleCreateWorkspace(u))
        \/ (\E r \in Calls : AssignRole(r) \/ RevokeRole(r))
    <3>1. CASE SessionNext
      BY <3>1 DEF SessionNext, ClockTick, Bootstrap, ExternalMember, HandleLogin, HandleLogout,
                  TouchSession, LookupSession, TouchFails
    <3>2. CASE MemberNext
      BY <3>2 DEF MemberNext, Bootstrap, ExternalMember, HandleAssignRole, HandleRevokeRole,
                  CountAdmins, LastAdminGuard, HandleCreatePassport, CreatePassport,
                  HandleRevokePassport
    <3>3. CASE CodeNext
      BY <3>3 DEF CodeNext, ClockTick, Bootstrap, ExternalMember, IssueCode,
                  ConsumeBegin, ConsumeLock, ConsumeCommit, ConsumeFails
    <3>4. CASE ConnectionNext
      BY <3>4 DEF ConnectionNext, ClockTick, Bootstrap, ExternalMember,
                  CreateConnection, RevokeConnection, RotateBegin, RotateCommit
    <3> QED
      BY <1>1, <3>1, <3>2, <3>3, <3>4 DEF IdentityNext
  <2> QED
    BY <2>1, <2>2, <2>3, <2>4, <2>5
<1>2. IdentityInv /\ [IdentityNext]_identityVars =>
        [Admins # {} /\ Admins' = {} => Stale]_identityVars
  BY <1>1
<1> QED
  BY <1>2, IdentityInvariant, PTL DEF IdentitySpec, AdminlessNeedsOverlap

-----------------------------------------------------------------------------
(* Record grants. *)

Requests == [pc : {"new", "resolved", "done"}, by : Subjects \cup {Nobody},
             access : Accesses, lowered : BOOLEAN]

Held == [Subjects -> Accesses]

\* What a request has resolved is at most the grantor's access in held, unless that was reduced.
Within(q, held) ==
  granting[q].pc = "resolved" =>
    /\ granting[q].by \in Subjects
    /\ granting[q].lowered \/ accessRank[granting[q].access] <= accessRank[held[granting[q].by]]

GrantInv == GrantTypeOK /\ \A q \in GrantRequests : Within(q, HeldWith(owner, grant))

LEMMA Ranks ==
  /\ \A a \in Accesses : accessRank[a] \in Nat
  /\ accessRank["read"] = 1 /\ accessRank["write"] = 2 /\ accessRank["none"] = 0
  BY DEF accessRank, Accesses

LEMMA HeldTyped ==
  ASSUME NEW o \in Subjects \cup {Nobody}, NEW g \in [Subjects -> Accesses]
  PROVE  HeldWith(o, g) \in Held
  BY DEF HeldWith, Held, Accesses

\* Lower marks exactly the requests that the new accesses leave behind.
LEMMA LowerMarks ==
  ASSUME GrantTypeOK, NEW held \in Held, NEW q \in GrantRequests,
         granting[q].pc = "resolved" => granting[q].by \in Subjects
  PROVE  /\ Lower(held)[q] \in Requests
         /\ Lower(held)[q].pc = granting[q].pc /\ Lower(held)[q].by = granting[q].by
         /\ Lower(held)[q].access = granting[q].access
         /\ granting[q].pc = "resolved" =>
              \/ Lower(held)[q].lowered = TRUE
              \/ accessRank[granting[q].access] <= accessRank[held[granting[q].by]]
<1> DEFINE less == /\ granting[q].pc = "resolved"
                   /\ accessRank[held[granting[q].by]] < accessRank[granting[q].access]
           low  == [granting[q] EXCEPT !.lowered = TRUE]
<1>1. granting[q] \in Requests
  BY DEF GrantTypeOK, Requests
<1>2. Lower(held)[q] = IF less THEN low ELSE granting[q]
  BY DEF Lower
<1>3. /\ low \in Requests /\ low.lowered = TRUE /\ low.pc = granting[q].pc
      /\ low.by = granting[q].by /\ low.access = granting[q].access
  BY <1>1, Zenon DEF Requests
<1>4. granting[q].pc = "resolved" /\ ~less =>
        accessRank[granting[q].access] <= accessRank[held[granting[q].by]]
  <2> SUFFICES ASSUME granting[q].pc = "resolved", ~less
               PROVE  accessRank[granting[q].access] <= accessRank[held[granting[q].by]]
    OBVIOUS
  <2>1. granting[q].access \in Accesses /\ held[granting[q].by] \in Accesses
    BY <1>1 DEF Requests, Held
  <2> QED
    BY <2>1, Ranks
<1> HIDE DEF less, low
<1>5. CASE less
  BY <1>2, <1>3, <1>5, Zenon
<1>6. CASE ~less
  BY <1>1, <1>2, <1>4, <1>6, Zenon
<1> QED
  BY <1>5, <1>6

\* After a step that recomputes lowered, and perhaps ends one request, the invariant holds.
LEMMA LoweredStep ==
  ASSUME GrantInv, owner' \in Subjects \cup {Nobody}, grant' \in [Subjects -> Accesses],
         NEW done \in SUBSET GrantRequests,
         granting' = [q \in GrantRequests |->
                        IF q \in done THEN [Lower(HeldWith(owner', grant'))[q] EXCEPT !.pc = "done"]
                        ELSE Lower(HeldWith(owner', grant'))[q]]
  PROVE  GrantInv'
<1> DEFINE held == HeldWith(owner', grant')
<1>1. held \in Held
  BY HeldTyped
<1> HIDE DEF held
<1>2. ASSUME NEW q \in GrantRequests
      PROVE  granting'[q] \in Requests /\ Within(q, HeldWith(owner, grant))'
  <2>1. granting[q].pc = "resolved" => granting[q].by \in Subjects
    BY DEF GrantInv, Within
  <2>2. /\ Lower(held)[q] \in Requests
        /\ Lower(held)[q].pc = granting[q].pc /\ Lower(held)[q].by = granting[q].by
        /\ Lower(held)[q].access = granting[q].access
        /\ granting[q].pc = "resolved" =>
             \/ Lower(held)[q].lowered = TRUE
             \/ accessRank[granting[q].access] <= accessRank[held[granting[q].by]]
    BY <1>1, <2>1, LowerMarks, Zenon DEF GrantInv
  <2>3. CASE q \in done
    <3> DEFINE low == [Lower(held)[q] EXCEPT !.pc = "done"]
    <3>1. granting'[q] = low
      BY <2>3 DEF held
    <3>2. low \in Requests /\ low.pc = "done"
      BY <2>2, Zenon DEF Requests
    <3> QED
      BY <3>1, <3>2, Zenon DEF Within
  <2>4. CASE q \notin done
    <3>1. granting'[q] = Lower(held)[q]
      BY <2>4 DEF held
    <3>2. held = HeldWith(owner, grant)'
      BY DEF held, HeldWith
    <3> QED
      BY <2>1, <2>2, <3>1, <3>2, Zenon DEF Within
  <2> QED
    BY <2>3, <2>4
<1>3. granting' \in [GrantRequests -> Requests]
  BY <1>2
<1> QED
  BY <1>2, <1>3 DEF GrantInv, GrantTypeOK, Requests

-----------------------------------------------------------------------------
LEMMA GrantInitHolds == GrantInit => GrantInv
<1> SUFFICES ASSUME GrantInit PROVE GrantInv
  OBVIOUS
<1> DEFINE new == [pc |-> "new", by |-> Nobody, access |-> "none", lowered |-> FALSE]
<1>1. new \in Requests /\ new.pc = "new"
  BY Zenon DEF Requests, Accesses
<1>2. \A q \in GrantRequests : granting[q] = new
  BY DEF GrantInit
<1> HIDE DEF new
<1>3. GrantTypeOK
  BY <1>1 DEF GrantInit, GrantTypeOK, Requests, Accesses, new
<1> QED
  BY <1>1, <1>2, <1>3 DEF GrantInv, Within

LEMMA ResolveHolds ==
  ASSUME GrantInv, NEW q \in GrantRequests, NEW u \in Subjects, ResolveAccess(q, u)
  PROVE  GrantInv'
<1> DEFINE held == HeldWith(owner, grant)
           row  == [pc |-> "resolved", by |-> u, access |-> held[u], lowered |-> FALSE]
<1>1. held \in Held
  BY HeldTyped DEF GrantInv, GrantTypeOK
<1>2. granting' = [granting EXCEPT ![q] = row] /\ owner' = owner /\ grant' = grant
  BY DEF ResolveAccess, OwnAccess
<1>3. held' = held
  BY <1>2 DEF HeldWith
<1> HIDE DEF held
<1>4. /\ row \in Requests /\ row.pc = "resolved" /\ row.by = u /\ row.access = held[u]
  <2>1. held[u] \in Accesses
    BY <1>1 DEF Held
  <2> QED
    BY <2>1, Zenon DEF Requests
<1> HIDE DEF row
<1>5. /\ granting' \in [GrantRequests -> Requests] /\ granting'[q] = row
      /\ \A r \in GrantRequests \ {q} : granting'[r] = granting[r]
  BY <1>2, <1>4 DEF GrantInv, GrantTypeOK, Requests
<1>6. Within(q, held)'
  <2>1. accessRank[held[u]] <= accessRank[held[u]]
    BY <1>1, Ranks DEF Held
  <2> QED
    BY <1>3, <1>4, <1>5, <2>1 DEF Within
<1>7. \A r \in GrantRequests \ {q} : Within(r, held)'
  BY <1>3, <1>5 DEF GrantInv, Within, held
<1> QED
  BY <1>2, <1>5, <1>6, <1>7 DEF GrantInv, GrantTypeOK, Requests, held

LEMMA CreateHolds ==
  ASSUME GrantInv, NEW q \in GrantRequests, NEW u \in Subjects, NEW access \in {"read", "write"},
         CreateGrant(q, u, access)
  PROVE  GrantInv'
<1> DEFINE held == HeldWith(owner', grant')
<1>1. /\ owner' = owner /\ grant' = [grant EXCEPT ![u] = access]
      /\ granting' = [Lower(held) EXCEPT ![q].pc = "done"]
  BY DEF CreateGrant
<1>2. owner' \in Subjects \cup {Nobody} /\ grant' \in [Subjects -> Accesses]
  BY <1>1 DEF GrantInv, GrantTypeOK, Accesses
<1> HIDE DEF held
<1>3. granting' = [r \in GrantRequests |->
                     IF r \in {q} THEN [Lower(held)[r] EXCEPT !.pc = "done"] ELSE Lower(held)[r]]
  BY <1>1 DEF Lower
<1> QED
  BY <1>2, <1>3, LoweredStep DEF held

\* A step that only recomputes lowered.
LEMMA ReduceHolds ==
  ASSUME GrantInv, owner' \in Subjects \cup {Nobody}, grant' \in [Subjects -> Accesses],
         granting' = Lower(HeldWith(owner', grant'))
  PROVE  GrantInv'
<1> DEFINE done == {}
<1>1. granting' = [q \in GrantRequests |->
                     IF q \in done THEN [Lower(HeldWith(owner', grant'))[q] EXCEPT !.pc = "done"]
                     ELSE Lower(HeldWith(owner', grant'))[q]]
  BY DEF Lower
<1>2. done \in SUBSET GrantRequests
  OBVIOUS
<1> HIDE DEF done
<1> QED
  BY <1>1, <1>2, LoweredStep

LEMMA RefuseHolds ==
  ASSUME GrantInv, NEW q \in GrantRequests, RefuseGrant(q)
  PROVE  GrantInv'
<1> DEFINE row == [granting[q] EXCEPT !.pc = "done"]
<1>1. granting' = [granting EXCEPT ![q] = row] /\ owner' = owner /\ grant' = grant
  BY DEF RefuseGrant
<1>2. row \in Requests /\ row.pc = "done"
  <2>1. granting[q] \in Requests
    BY DEF GrantInv, GrantTypeOK, Requests
  <2> QED
    BY <2>1, Zenon DEF Requests
<1> HIDE DEF row
<1>3. /\ granting' \in [GrantRequests -> Requests] /\ granting'[q] = row
      /\ \A r \in GrantRequests \ {q} : granting'[r] = granting[r]
  BY <1>1, <1>2 DEF GrantInv, GrantTypeOK, Requests
<1>4. \A r \in GrantRequests : Within(r, HeldWith(owner, grant))'
  BY <1>1, <1>2, <1>3 DEF GrantInv, Within, HeldWith
<1> QED
  BY <1>1, <1>3, <1>4 DEF GrantInv, GrantTypeOK, Requests

LEMMA GrantStepHolds == GrantInv /\ [GrantNext]_grantVars => GrantInv'
<1> SUFFICES ASSUME GrantInv, [GrantNext]_grantVars PROVE GrantInv'
  OBVIOUS
<1>1. ASSUME NEW u \in Subjects, RevokeGrant(u) PROVE GrantInv'
  <2>1. /\ owner' \in Subjects \cup {Nobody} /\ grant' \in [Subjects -> Accesses]
        /\ granting' = Lower(HeldWith(owner', grant'))
    BY <1>1 DEF RevokeGrant, GrantInv, GrantTypeOK, Accesses
  <2> QED
    BY <2>1, ReduceHolds
<1>2. ASSUME NEW u \in Subjects \cup {Nobody}, ChangeOwner(u) PROVE GrantInv'
  <2>1. /\ owner' \in Subjects \cup {Nobody} /\ grant' \in [Subjects -> Accesses]
        /\ granting' = Lower(HeldWith(owner', grant'))
    BY <1>2 DEF ChangeOwner, GrantInv, GrantTypeOK
  <2> QED
    BY <2>1, ReduceHolds
<1>3. CASE UNCHANGED grantVars
  BY <1>3 DEF grantVars, GrantInv, GrantTypeOK, Within, HeldWith
<1> QED
  BY <1>1, <1>2, <1>3, ResolveHolds, CreateHolds, RefuseHolds DEF GrantNext

\* The inductive invariant holds in every reachable state.
THEOREM GrantInvariant == GrantSpec => []GrantInv
  BY GrantInitHolds, GrantStepHolds, PTL DEF GrantSpec

\* A grant exceeds the grantor's own access at the moment it is written only if that access was
\* reduced since the handler resolved it (ErrGrantExceedsGrantorAccess).
THEOREM GrantsNeedTheirGrantor == GrantSpec => ExcessNeedsOverlap
<1> DEFINE Bounded(q, u) ==
      granting[q].pc = "resolved" /\ granting'[q].pc = "done" /\ grant'[u] # grant[u] =>
        \/ granting[q].lowered
        \/ accessRank[grant'[u]] <= accessRank[OwnAccess(granting[q].by)]
<1>1. ASSUME GrantInv, GrantNext, NEW q \in GrantRequests, NEW u \in Subjects PROVE Bounded(q, u)
  <2> SUFFICES ASSUME granting[q].pc = "resolved", granting'[q].pc = "done", grant'[u] # grant[u],
                      granting[q].lowered # TRUE
               PROVE  accessRank[grant'[u]] <= accessRank[OwnAccess(granting[q].by)]
    BY DEF GrantInv, GrantTypeOK
  <2> DEFINE held == HeldWith(owner, grant)
  <2>0. held \in Held
    BY <1>1, HeldTyped DEF GrantInv, GrantTypeOK
  <2>1. /\ granting[q].by \in Subjects
        /\ accessRank[granting[q].access] <= accessRank[held[granting[q].by]]
    BY <1>1, Zenon DEF GrantInv, Within
  <2>2. ASSUME NEW w \in Subjects, RevokeGrant(w) PROVE FALSE
    <3>1. Lower(HeldWith(owner, grant'))[q].pc = granting[q].pc
      BY <1>1 DEF Lower, GrantInv, GrantTypeOK
    <3> QED
      BY <2>2, <3>1 DEF RevokeGrant
  <2>3. PICK r \in GrantRequests, w \in Subjects, access \in {"read", "write"} :
          CreateGrant(r, w, access)
    BY <1>1, <2>2 DEF GrantNext, ResolveAccess, RefuseGrant, ChangeOwner
  <2>4. w = u /\ grant'[u] = access
    BY <1>1, <2>3 DEF CreateGrant, GrantInv, GrantTypeOK
  <2>5. r = q
    <3> SUFFICES ASSUME r # q PROVE FALSE
      OBVIOUS
    <3>1. granting'[q] = Lower(HeldWith(owner, grant'))[q]
      BY <2>3 DEF CreateGrant, Lower
    <3>2. Lower(HeldWith(owner, grant'))[q].pc = granting[q].pc
      BY <1>1 DEF Lower, GrantInv, GrantTypeOK
    <3> QED
      BY <3>1, <3>2
  <2>6. accessRank[access] <= accessRank[granting[q].access]
    BY <2>3, <2>5 DEF CreateGrant
  <2>7. granting[q].access \in Accesses /\ access \in Accesses
    BY <1>1 DEF GrantInv, GrantTypeOK, Accesses
  <2>8. OwnAccess(granting[q].by) = held[granting[q].by] /\ held[granting[q].by] \in Accesses
    BY <2>0, <2>1 DEF OwnAccess, Held
  <2> HIDE DEF held
  <2>9. /\ accessRank[granting[q].access] \in Nat /\ accessRank[access] \in Nat
        /\ accessRank[held[granting[q].by]] \in Nat
    BY <2>7, <2>8, Ranks
  <2>10. accessRank[access] <= accessRank[held[granting[q].by]]
    BY <2>1, <2>6, <2>9
  <2> QED
    BY <2>4, <2>8, <2>10
<1>2. GrantInv /\ [GrantNext]_grantVars =>
        [\A q \in GrantRequests, u \in Subjects : Bounded(q, u)]_grantVars
  BY <1>1
<1> QED
  BY <1>2, GrantInvariant, PTL DEF GrantSpec, ExcessNeedsOverlap

=============================================================================
