--------------------------- MODULE SessionsProofs ---------------------------
(* Proofs about Sessions for any accounts, tokens and requests. *)
EXTENDS Sessions, TLAPS

\* A request that moves on changes itself and nobody else.
LEMMA MoveTyped ==
    ASSUME req \in [Requests -> RequestState],
           NEW p \in Requests, NEW r \in RequestState, Move(p, r)
    PROVE  /\ req' \in [Requests -> RequestState]
           /\ req'[p] = r
           /\ \A q \in Requests \ {p} : req'[q] = req[q]
BY DEF Move

\* The state every finished request returns to is one.
LEMMA IdleTyped == Idle \in RequestState
BY DEF Idle, RequestState, Steps

\* What the moves of the actions produce is a request state.
LEMMA MovesTyped ==
    ASSUME NEW r \in RequestState, NEW at \in Steps,
           NEW u \in Users \cup {None}, NEW t \in Tokens \cup {None},
           NEW n \in Nat, NEW S \in SUBSET Tokens
    PROVE  /\ [r EXCEPT !.at = at] \in RequestState
           /\ [r EXCEPT !.at = at, !.user = u, !.seen = n] \in RequestState
           /\ [r EXCEPT !.at = at, !.token = t] \in RequestState
           /\ [r EXCEPT !.user = u, !.at = at] \in RequestState
           /\ [r EXCEPT !.at = at, !.todo = S] \in RequestState
           /\ [r EXCEPT !.at = at, !.todo = S, !.snap = S] \in RequestState
           /\ [r EXCEPT !.at = at, !.user = u, !.todo = S, !.snap = S] \in RequestState
           /\ [r EXCEPT !.todo = S] \in RequestState
BY DEF RequestState

\* No step leaves the types.  An exchange needs more than the types: that the
\* token it works on is one.
LEMMA TypeStep == SessionsInv /\ [Next]_vars => TypeOK'
<1>2. ASSUME SessionsInv, [Next]_vars PROVE TypeOK'
  <2> TypeOK
    BY <1>2 DEF SessionsInv
  <2> USE DEF TypeOK, table, history
  <2>0. ASSUME NEW p \in Requests, Finish(p) PROVE req' \in [Requests -> RequestState]
    BY <2>0, IdleTyped, MoveTyped DEF Finish
  <2>1. CASE Tick
    BY <2>1 DEF Tick, Expire, Issued
  <2>2. ASSUME NEW p \in Requests, Ask(p) PROVE TypeOK'
    <3> req[p] \in RequestState
      OBVIOUS
    <3>1. ASSUME NEW u \in Users, Authenticate(p, u) PROVE TypeOK'
      <4>1. [req[p] EXCEPT !.at = "authenticated", !.user = u, !.seen = password[u]]
              \in RequestState
        <5>1. password[u] \in Nat /\ u \in Users \cup {None} /\ "authenticated" \in Steps
          BY DEF Steps
        <5> QED BY <5>1, MovesTyped
      <4> QED BY <3>1, <4>1, MoveTyped DEF Authenticate
    <3>2. ASSUME NEW u \in Users, BeginReset(p, u) PROVE TypeOK'
      <4>1. [req[p] EXCEPT !.at = "resetting", !.user = u,
                           !.todo = Unrevoked(u), !.snap = Unrevoked(u)] \in RequestState
        <5>1. Unrevoked(u) \in SUBSET Tokens
          BY DEF Unrevoked
        <5> QED BY <5>1, MovesTyped DEF Steps
      <4> QED BY <3>2, <4>1, MoveTyped DEF BeginReset
    <3>3. ASSUME NEW t \in Tokens, Present(p, t) PROVE TypeOK'
      <4>1. [req[p] EXCEPT !.at = "looking", !.token = t] \in RequestState
        BY MovesTyped DEF Steps
      <4> QED BY <3>3, <4>1, MoveTyped DEF Present
    <3>4. ASSUME NEW t \in Tokens, RefuseExpired(p, t) PROVE TypeOK'
      BY <3>4 DEF RefuseExpired, vars
    <3>5. ASSUME NEW t \in Tokens, BeginLogout(p, t) PROVE TypeOK'
      <4>1. [req[p] EXCEPT !.at = "leaving", !.token = t] \in RequestState
        BY MovesTyped DEF Steps
      <4> QED BY <3>5, <4>1, MoveTyped DEF BeginLogout
    <3> QED BY <2>2, <3>1, <3>2, <3>3, <3>4, <3>5 DEF Ask
  <2>3. ASSUME NEW p \in Requests, BeginPurge(p) PROVE TypeOK'
    <3>1. [req[p] EXCEPT !.at = "purging", !.todo = stored \cap expired] \in RequestState
      <4> DEFINE S == stored \cap expired
      <4>1. req[p] \in RequestState /\ S \in SUBSET Tokens /\ "purging" \in Steps
        BY DEF Steps
      <4> HIDE DEF S
      <4>2. [req[p] EXCEPT !.at = "purging", !.todo = S] \in RequestState
        BY <4>1, MovesTyped
      <4> QED BY <4>2 DEF S
    <3> QED BY <2>3, <3>1, MoveTyped DEF BeginPurge
  <2>4. ASSUME NEW p \in Requests, Work(p) PROVE TypeOK'
    <3> req[p] \in RequestState
      OBVIOUS
    <3>1. CASE IssueAtLogin(p)
      <4>1. req[p].user \in Users \cup {None} /\ req[p].seen \in Nat
        BY DEF RequestState
      <4> QED BY <2>0, <3>1, <4>1 DEF IssueAtLogin, Issue
    <3>2. CASE LockRow(p)
      <4> DEFINE t == req[p].token
      <4>1. CASE t \in stored
        <5>1. [req[p] EXCEPT !.user = owner[t],
                 !.at = IF IsSpent(t) THEN "reused" ELSE "unspent"] \in RequestState
          <6> DEFINE at == IF IsSpent(t) THEN "reused" ELSE "unspent"
          <6>1. owner[t] \in Users \cup {None} /\ at \in Steps
            BY <4>1 DEF Steps
          <6> HIDE DEF at, t
          <6>2. [req[p] EXCEPT !.user = owner[t], !.at = at] \in RequestState
            BY <6>1, MovesTyped
          <6> QED BY <6>2 DEF at
        <5> QED BY <3>2, <4>1, <5>1, MoveTyped DEF LockRow
      <4>2. CASE t \notin stored
        BY <2>0, <3>2, <4>2 DEF LockRow
      <4> QED BY <4>1, <4>2
    <3>3. CASE Exchange(p)
      <4>1. req[p].user \in Users \cup {None} /\ req[p].token \in Tokens
        <5>1. req[p].at = "unspent" /\ RequestKnows(p)
          BY <1>2, <3>3 DEF Exchange, SessionsInv
        <5> QED BY <5>1 DEF RequestState, RequestKnows
      <4>2. PICK n \in Tokens : Issue(n, req[p].user, req[p].token, era[req[p].token])
        BY <3>3 DEF Exchange
      <4> QED BY <2>0, <3>3, <4>1, <4>2 DEF Exchange, Issue, Released
    <3>4. CASE RevokeAll(p)
      <4> DEFINE S == Unrevoked(req[p].user)
      <4>1. [req[p] EXCEPT !.at = "revoking", !.todo = S, !.snap = S] \in RequestState
        <5>1. S \in SUBSET Tokens /\ "revoking" \in Steps
          BY DEF Unrevoked, Steps
        <5> HIDE DEF S
        <5> QED BY <5>1, MovesTyped
      <4> QED BY <3>4, <4>1, MoveTyped DEF RevokeAll
    <3>5. CASE CommitReuse(p)
      <4>1. [req[p] EXCEPT !.at = "raised"] \in RequestState
        BY MovesTyped DEF Steps
      <4> QED BY <3>5, <4>1, MoveTyped DEF CommitReuse, Held, Released
    <3>6. CASE CommitReset(p)
      <4>1. [req[p] EXCEPT !.at = "changed"] \in RequestState
        BY MovesTyped DEF Steps
      <4>2. req[p].user \in Users
        BY <1>2, <3>6 DEF SessionsInv, RequestKnows, CommitReset
      <4> QED BY <3>6, <4>1, <4>2, MoveTyped DEF CommitReset, Held, Released
    <3>7. CASE Answer(p)
      BY <2>0, <3>7 DEF Answer
    <3>8. CASE Revoke(p)
      BY <2>0, <3>8 DEF Revoke
    <3>9. CASE CommitPurge(p)
      BY <2>0, <3>9 DEF CommitPurge, Held, Released
    <3>10. ASSUME NEW t \in Tokens, LockNext(p, t) PROVE TypeOK'
      <4>1. [req[p] EXCEPT !.todo = @ \ {t}] \in RequestState
        <5>1. req[p].todo \ {t} \in SUBSET Tokens
          BY DEF RequestState
        <5>2. [req[p] EXCEPT !.todo = req[p].todo \ {t}] \in RequestState
          BY <5>1, MovesTyped, req[p].at \in Steps, IdleTyped DEF RequestState
        <5> QED BY <5>2
      <4> QED BY <3>10, <4>1, MoveTyped DEF LockNext
    <3>11. CASE BreakDeadlock(p)
      BY <2>0, <3>11 DEF BreakDeadlock, Rollback, Released
    <3> QED BY <2>4, <3>1, <3>2, <3>3, <3>4, <3>5, <3>6, <3>7, <3>8, <3>9,
               <3>10, <3>11 DEF Work
  <2>5. ASSUME NEW p \in Requests, Crash(p) PROVE TypeOK'
    BY <2>0, <2>5 DEF Crash, Rollback, Released
  <2>6. CASE UNCHANGED vars
    BY <2>6 DEF vars
  <2> QED BY <1>2, <2>1, <2>2, <2>3, <2>4, <2>5, <2>6 DEF Next
<1> QED BY <1>2

\* The invariant holds of the empty table.
LEMMA InvInit == Init => SessionsInv
<1> SUFFICES ASSUME Init PROVE SessionsInv
  OBVIOUS
<1> USE DEF Init, Issued
<1>1. TypeOK
  BY IdleTyped DEF TypeOK
<1>2. \A p \in Requests : RequestKnows(p)
  BY NoneIsNobody DEF RequestKnows, Idle
<1> QED BY <1>1, <1>2 DEF SessionsInv, EvidenceKept, LocksAreOwned, Lineage, ExchangedOnce

\* What a request in flight relies on survives a step that leaves the request,
\* the rows it has locked, the owners and the past alone.
LEMMA KnowledgeKept ==
    ASSUME SessionsInv, TypeOK', NEW q \in Requests, req'[q] = req[q],
           Held(q)' = Held(q), Held(q) \subseteq stored',
           \A t \in Issued : owner'[t] = owner[t],
           stored' \cap Issued \subseteq stored,
           \A t \in Held(q) : IsSpent(t)' => IsSpent(t),
           expired \subseteq expired',
           revoked \cap stored' \subseteq revoked'
    PROVE  RequestKnows(q)'
<1> DEFINE r == req[q]
<1>0. RequestKnows(q) /\ TypeOK /\ stored \subseteq Issued /\ r \in RequestState
  BY DEF SessionsInv, TypeOK
<1>1. Issued \subseteq Issued'
  BY DEF Issued
<1>2. CASE r.at \in {"looking", "leaving"}
  BY <1>0, <1>1, <1>2 DEF RequestKnows
<1>3. CASE r.at \in {"unspent", "reused"}
  <2>1. r.token \in Held(q) /\ r.token \in Issued
    BY <1>0, <1>3 DEF RequestKnows
  <2> QED BY <1>0, <1>3, <2>1 DEF RequestKnows
<1>4. CASE r.at \in {"revoking", "resetting"}
  <2>1. Held(q) \cup r.snap \subseteq Issued
    BY <1>0, <1>4, NoneIsNobody DEF RequestKnows, Issued, RequestState, Held
  <2> QED BY <1>0, <1>4, <2>1 DEF RequestKnows
<1>5. CASE r.at = "purging"
  BY <1>0, <1>5 DEF RequestKnows
<1>6. CASE r.at \in {"raised", "changed"}
  BY <1>0, <1>1, <1>6 DEF RequestKnows
<1>7. CASE r.at \in {"idle", "authenticated"}
  BY <1>0, <1>7 DEF RequestKnows
<1> QED BY <1>0, <1>2, <1>3, <1>4, <1>5, <1>6, <1>7 DEF RequestState, Steps

\* A request that starts has read the table and changed nothing in it.
LEMMA StartStep ==
    ASSUME SessionsInv, TypeOK', NEW p \in Requests, Ask(p) \/ BeginPurge(p)
    PROVE  SessionsInv'
<1>0. TypeOK /\ req[p] \in RequestState /\ RequestKnows(p) /\ LocksAreOwned
  BY DEF SessionsInv, TypeOK
<1>1. CASE UNCHANGED vars
  BY <1>1 DEF SessionsInv, vars, TypeOK, EvidenceKept, LocksAreOwned, Lineage,
     ExchangedOnce, RequestKnows, Issued, IsSpent, Held
<1>2. CASE ~UNCHANGED vars
  <2> DEFINE Started(r) ==
        /\ \/ r.at = "authenticated" /\ r.user \in Users
           \/ r.at \in {"looking", "leaving"} /\ r.token \in Issued
           \/ /\ r.at = "resetting" /\ r.user \in Users /\ r.snap = r.todo
              /\ \A t \in r.snap : owner[t] = r.user
           \/ r.at = "purging" /\ r.todo \subseteq expired
  <2>1. /\ req[p].at = "idle"
        /\ UNCHANGED <<stored, rotated, revoked, expired, lock, password, owner, parent, era>>
    BY <1>2 DEF Ask, BeginPurge, Authenticate, BeginReset, Present, RefuseExpired,
       BeginLogout, table, history
  <2>2. \E r \in RequestState : Move(p, r) /\ Started(r)
    <3>1. ASSUME NEW u \in Users, Authenticate(p, u)
          PROVE  \E r \in RequestState : Move(p, r) /\ Started(r)
      <4> DEFINE r == [req[p] EXCEPT !.at = "authenticated", !.user = u,
                                     !.seen = password[u]]
      <4>1. r \in RequestState
        <5>1. password[u] \in Nat /\ u \in Users \cup {None} /\ "authenticated" \in Steps
          BY <1>0 DEF Steps, TypeOK
        <5> QED BY <1>0, <5>1, MovesTyped
      <4>2. Started(r)
        BY <1>0 DEF RequestState
      <4> QED BY <3>1, <4>1, <4>2 DEF Authenticate
    <3>2. ASSUME NEW u \in Users, BeginReset(p, u)
          PROVE  \E r \in RequestState : Move(p, r) /\ Started(r)
      <4> DEFINE r == [req[p] EXCEPT !.at = "resetting", !.user = u,
                                     !.todo = Unrevoked(u), !.snap = Unrevoked(u)]
      <4>1. r \in RequestState
        <5>1. Unrevoked(u) \in SUBSET Tokens /\ "resetting" \in Steps
          BY <1>0 DEF Unrevoked, TypeOK, Steps
        <5> QED BY <1>0, <5>1, MovesTyped
      <4>2. Started(r)
        BY <1>0 DEF RequestState, Unrevoked
      <4> QED BY <3>2, <4>1, <4>2 DEF BeginReset
    <3>3. ASSUME NEW t \in Tokens, Present(p, t)
          PROVE  \E r \in RequestState : Move(p, r) /\ Started(r)
      <4> DEFINE r == [req[p] EXCEPT !.at = "looking", !.token = t]
      <4>1. r \in RequestState
        BY <1>0, MovesTyped DEF Steps
      <4>2. Started(r)
        BY <1>0, <3>3 DEF RequestState, Present
      <4> QED BY <3>3, <4>1, <4>2 DEF Present
    <3>4. ASSUME NEW t \in Tokens, BeginLogout(p, t)
          PROVE  \E r \in RequestState : Move(p, r) /\ Started(r)
      <4> DEFINE r == [req[p] EXCEPT !.at = "leaving", !.token = t]
      <4>1. r \in RequestState
        BY <1>0, MovesTyped DEF Steps
      <4>2. Started(r)
        BY <1>0, <3>4 DEF RequestState, BeginLogout, SessionsInv
      <4> QED BY <3>4, <4>1, <4>2 DEF BeginLogout
    <3>5. ASSUME BeginPurge(p)
          PROVE  \E r \in RequestState : Move(p, r) /\ Started(r)
      <4> DEFINE r == [req[p] EXCEPT !.at = "purging", !.todo = stored \cap expired]
      <4>1. r \in RequestState
        <5>1. stored \cap expired \in SUBSET Tokens /\ "purging" \in Steps
          BY <1>0 DEF TypeOK, Steps
        <5> QED BY <1>0, <5>1, MovesTyped
      <4>2. Started(r)
        BY <1>0 DEF RequestState
      <4> QED BY <3>5, <4>1, <4>2 DEF BeginPurge
    <3> QED BY <1>2, <3>1, <3>2, <3>3, <3>4, <3>5 DEF Ask, RefuseExpired
  <2>3. PICK r \in RequestState : Move(p, r) /\ Started(r)
    BY <2>2
  <2>4. req'[p] = r /\ \A q \in Requests \ {p} : req'[q] = req[q]
    BY <1>0, <2>3, MoveTyped DEF TypeOK
  <2>5. Held(p) = {}
    BY <1>0, <2>1, NoneIsNobody DEF LocksAreOwned, Held, Sweeping
  <2>6. LocksAreOwned'
    BY <1>0, <2>1, <2>4, <2>5 DEF LocksAreOwned, Held, TypeOK
  <2>7. RequestKnows(p)'
    BY <1>0, <2>1, <2>3, <2>4, <2>5 DEF RequestKnows, Held, Issued, IsSpent
  <2>8. ASSUME NEW q \in Requests \ {p} PROVE RequestKnows(q)'
    <3>1. Held(q) \subseteq stored
      BY <1>0, NoneIsNobody DEF LocksAreOwned, Held
    <3> QED BY <2>1, <2>4, <3>1, KnowledgeKept DEF Held, IsSpent
  <2> QED BY <2>1, <2>6, <2>7, <2>8
        DEF SessionsInv, EvidenceKept, Lineage, ExchangedOnce, Issued
<1> QED BY <1>1, <1>2

\* The end of a transaction frees its rows and nobody else's.
LEMMA ReleaseFrees ==
    ASSUME TypeOK, NEW p \in Requests, lock' = Released(p)
    PROVE  /\ Held(p)' = {}
           /\ \A q \in Requests \ {p} : Held(q)' = Held(q)
           /\ \A t \in Tokens : lock'[t] # None => lock'[t] = lock[t] /\ lock[t] # p
BY NoneIsNobody DEF TypeOK, Released, Held

\* Rows locked by one request are stored, and no other request holds them.
LEMMA HeldRows ==
    ASSUME SessionsInv, NEW p \in Requests
    PROVE  /\ Held(p) \subseteq stored
           /\ \A q \in Requests \ {p} : Held(q) \cap Held(p) = {}
           /\ (Held(p) # {} => req[p].at \in {"unspent", "reused"} \cup Sweeping)
BY NoneIsNobody DEF SessionsInv, LocksAreOwned, Held

\* A request that is done needs to know nothing.
LEMMA IdleKnows ==
    ASSUME SessionsInv, NEW p \in Requests, Finish(p)
    PROVE  /\ RequestKnows(p)'
           /\ req'[p].at = "idle"
           /\ \A q \in Requests \ {p} : req'[q] = req[q]
<1>1. req'[p] = Idle /\ \A q \in Requests \ {p} : req'[q] = req[q]
  BY IdleTyped, MoveTyped DEF Finish, SessionsInv, TypeOK
<1> QED BY <1>1 DEF RequestKnows, Idle

\* A step that only ends or moves requests and frees their rows.
LEMMA RollbackStep ==
    ASSUME SessionsInv, TypeOK', NEW p \in Requests, Rollback(p)
    PROVE  SessionsInv'
<1>0. TypeOK
  BY DEF SessionsInv
<1> USE DEF Rollback, table, history
<1>1. \A q \in Requests : RequestKnows(q)'
  <2>1. ASSUME NEW q \in Requests \ {p} PROVE RequestKnows(q)'
    BY <1>0, ReleaseFrees, HeldRows, IdleKnows, KnowledgeKept DEF IsSpent
  <2> QED BY <2>1, IdleKnows
<1>2. LocksAreOwned'
  BY <1>0, ReleaseFrees, IdleKnows DEF LocksAreOwned, SessionsInv, TypeOK
<1> QED BY <1>1, <1>2 DEF SessionsInv, EvidenceKept, Lineage, ExchangedOnce, Issued

\* Time only ever makes less evidence necessary.
LEMMA TickStep == ASSUME SessionsInv, TypeOK', Tick PROVE SessionsInv'
<1>1. PICK t \in Tokens : Expire(t)
  BY DEF Tick
<1> USE DEF Expire, table, history
<1>2. ASSUME NEW q \in Requests PROVE RequestKnows(q)'
  BY <1>1, HeldRows, KnowledgeKept DEF Held, IsSpent
<1>3. LocksAreOwned'
  BY <1>1 DEF SessionsInv, LocksAreOwned
<1> QED BY <1>1, <1>2, <1>3 DEF SessionsInv, EvidenceKept, Lineage, ExchangedOnce, Issued

\* A login adds a row nobody knew, with no predecessor.
LEMMA IssueStep ==
    ASSUME SessionsInv, TypeOK', NEW p \in Requests, IssueAtLogin(p)
    PROVE  SessionsInv'
<1>0. TypeOK /\ RequestKnows(p) /\ req[p].at = "authenticated" /\ Finish(p)
  BY DEF SessionsInv, IssueAtLogin
<1>1. PICK n \in Tokens : Issue(n, req[p].user, None, req[p].seen)
  BY DEF IssueAtLogin
<1>2. req[p].user \in Users
  BY <1>0 DEF RequestKnows
<1>3. /\ n \notin Issued /\ n \notin stored
      /\ Issued' = Issued \cup {n}
      /\ \A t \in Issued : owner'[t] = owner[t] /\ parent'[t] = parent[t]
      /\ parent'[n] = None
  BY <1>0, <1>1, <1>2, NoneIsNobody DEF Issue, Issued, TypeOK, SessionsInv
<1> USE DEF IssueAtLogin
<1>4. ASSUME NEW q \in Requests PROVE RequestKnows(q)'
  <2>1. CASE q # p
    BY <1>0, <1>1, <1>3, <2>1, HeldRows, IdleKnows, KnowledgeKept DEF Held, IsSpent, Issue
  <2> QED BY <1>0, <2>1, IdleKnows
<1>5. LocksAreOwned'
  BY <1>0, <1>1, IdleKnows DEF SessionsInv, LocksAreOwned, Issue, TypeOK, Sweeping
<1>6. Lineage'
  BY <1>0, <1>1, <1>3 DEF SessionsInv, Lineage, Issue, TypeOK
<1>7. ExchangedOnce'
  BY <1>3 DEF SessionsInv, ExchangedOnce
<1> QED BY <1>1, <1>3, <1>4, <1>5, <1>6, <1>7 DEF SessionsInv, EvidenceKept, Issue

\* SELECT ... FOR UPDATE: what the request has read is what its lock now keeps.
LEMMA LockRowStep ==
    ASSUME SessionsInv, TypeOK', NEW p \in Requests, LockRow(p)
    PROVE  SessionsInv'
<1> DEFINE t == req[p].token
<1>0. TypeOK /\ RequestKnows(p) /\ req[p].at = "looking" /\ t \in Issued
  BY DEF SessionsInv, LockRow, RequestKnows
<1> USE DEF LockRow, table, history
<1>1. CASE t \notin stored
  <2>1. ASSUME NEW q \in Requests PROVE RequestKnows(q)'
    BY <1>1, HeldRows, IdleKnows, KnowledgeKept DEF Held, IsSpent
  <2>2. LocksAreOwned'
    BY <1>0, <1>1, IdleKnows DEF SessionsInv, LocksAreOwned, TypeOK, Sweeping
  <2> QED BY <2>1, <2>2 DEF SessionsInv, EvidenceKept, Lineage, ExchangedOnce, Issued
<1>2. CASE t \in stored
  <2> DEFINE at == IF IsSpent(t) THEN "reused" ELSE "unspent"
             r == [req[p] EXCEPT !.user = owner[t], !.at = at]
  <2>1. r \in RequestState
    <3>1. owner[t] \in Users \cup {None} /\ req[p] \in RequestState
      BY <1>0, <1>2 DEF TypeOK
    <3>2. at \in Steps
      BY DEF Steps
    <3> HIDE DEF at, t
    <3> QED BY <3>1, <3>2, MovesTyped
  <2>2. req'[p] = r /\ \A q \in Requests \ {p} : req'[q] = req[q]
    BY <1>0, <1>2, <2>1, MoveTyped DEF TypeOK
  <2>3. /\ r.token = t /\ r.user = owner[t]
        /\ r.at \in {"unspent", "reused"} /\ (r.at = "unspent" => ~IsSpent(t))
    BY <1>0 DEF RequestState, TypeOK
  <2>4. /\ Held(p) = {} /\ Held(p)' = {t}
        /\ \A q \in Requests \ {p} : Held(q)' = Held(q)
    <3>1. Held(p) = {}
      BY <1>0, HeldRows DEF Sweeping
    <3> QED BY <1>0, <1>2, <3>1, NoneIsNobody DEF Held, TypeOK
  <2>5. RequestKnows(p)'
    <3>1. owner[t] \in Users
      BY <1>0, <1>2 DEF TypeOK, Issued
    <3> QED BY <1>2, <2>2, <2>3, <2>4, <3>1 DEF RequestKnows, IsSpent
  <2>6. ASSUME NEW q \in Requests \ {p} PROVE RequestKnows(q)'
    BY <2>2, <2>4, HeldRows, KnowledgeKept DEF IsSpent
  <2>7. LocksAreOwned'
    <3>1. req'[p].at \in {"unspent", "reused"} /\ t \in stored'
      BY <1>2, <2>2, <2>3
    <3>2. lock' = [lock EXCEPT ![t] = p] /\ lock \in [Tokens -> Requests \cup {None}]
      BY <1>0, <1>2 DEF TypeOK
    <3>3. ASSUME NEW s \in Tokens \ {t}, lock'[s] # None
          PROVE  /\ s \in stored'
                 /\ req'[lock'[s]].at \in {"unspent", "reused"} \cup Sweeping
      <4>1. lock'[s] = lock[s] /\ lock[s] \in Requests \ {p}
        BY <2>4, <3>2, <3>3 DEF Held
      <4>2. s \in stored /\ req[lock[s]].at \in {"unspent", "reused"} \cup Sweeping
        BY <3>3, <4>1 DEF SessionsInv, LocksAreOwned
      <4> QED BY <2>2, <4>1, <4>2
    <3>4. t \in Tokens /\ lock'[t] = p
      BY <1>0, <1>2, <3>2 DEF TypeOK
    <3> QED BY <3>1, <3>3, <3>4 DEF LocksAreOwned
  <2>8. \A q \in Requests : RequestKnows(q)'
    BY <2>5, <2>6
  <2>9. UNCHANGED <<stored, rotated, revoked, expired, owner, parent>>
    OBVIOUS
  <2> HIDE DEF LockRow, r
  <2> QED BY <2>7, <2>8, <2>9 DEF SessionsInv, EvidenceKept, Lineage, ExchangedOnce, Issued
<1> QED BY <1>1, <1>2

\* The exchange: its lock is why the token it marks had no successor yet.
LEMMA ExchangeStep ==
    ASSUME SessionsInv, TypeOK', NEW p \in Requests, Exchange(p)
    PROVE  SessionsInv'
<1> DEFINE t == req[p].token
<1>0. /\ TypeOK /\ req[p].at = "unspent" /\ Finish(p) /\ lock' = Released(p)
      /\ t \in stored /\ req[p].user = owner[t] /\ Held(p) = {t} /\ ~IsSpent(t)
      /\ t \in Issued
  BY DEF SessionsInv, Exchange, RequestKnows
<1>1. PICK n \in Tokens : Issue(n, req[p].user, t, era[t])
  BY DEF Exchange
<1>2. /\ n \notin Issued /\ n \notin stored
      /\ Issued' = Issued \cup {n}
      /\ \A m \in Tokens \ {n} : owner'[m] = owner[m] /\ parent'[m] = parent[m]
      /\ parent'[n] = t /\ stored' = stored \cup {n}
  BY <1>0, <1>1, NoneIsNobody DEF Issue, Issued, TypeOK, SessionsInv
<1>3. \A m \in Tokens : parent[m] # t
  <2>1. t \notin rotated /\ t # None
    BY <1>0, NoneIsNobody DEF IsSpent, TypeOK
  <2> QED BY <1>0, <2>1 DEF SessionsInv, Lineage
<1> USE DEF Exchange
<1>4. ASSUME NEW q \in Requests PROVE RequestKnows(q)'
  <2>1. CASE q # p
    <3>1. t \notin Held(q)
      BY <1>0, <2>1, HeldRows
    <3>2. n \notin Held(q) /\ Held(q) \subseteq Tokens
      BY <1>2, HeldRows DEF Held
    <3> QED BY <1>0, <1>2, <2>1, <3>1, <3>2, HeldRows, IdleKnows, ReleaseFrees,
               KnowledgeKept DEF IsSpent, Issued
  <2> QED BY <1>0, <2>1, IdleKnows
<1>5. LocksAreOwned'
  BY <1>0, <1>2, IdleKnows, ReleaseFrees DEF SessionsInv, LocksAreOwned, TypeOK
<1>6. Lineage'
  BY <1>0, <1>2 DEF SessionsInv, Lineage, TypeOK, Issued
<1>7. ExchangedOnce'
  BY <1>2, <1>3 DEF SessionsInv, ExchangedOnce, Issued
<1>8. (rotated \cup revoked \subseteq stored)' /\ (stored \subseteq Issued)'
  BY <1>0, <1>2 DEF SessionsInv
<1>9. EvidenceKept'
  BY <1>2 DEF SessionsInv, EvidenceKept
<1> QED BY <1>4, <1>5, <1>6, <1>7, <1>8, <1>9 DEF SessionsInv

\* Taking a snapshot, or answering: only the request itself moves.
LEMMA RevokeAllStep ==
    ASSUME SessionsInv, TypeOK', NEW p \in Requests, RevokeAll(p) \/ Answer(p)
    PROVE  SessionsInv'
<1>0. TypeOK /\ RequestKnows(p) /\ req[p] \in RequestState
  BY DEF SessionsInv, TypeOK
<1> USE DEF RevokeAll, Answer, table, history
<1>1. CASE Answer(p)
  <2>1. ASSUME NEW q \in Requests PROVE RequestKnows(q)'
    BY <1>1, HeldRows, IdleKnows, KnowledgeKept DEF Held, IsSpent
  <2>2. LocksAreOwned'
    BY <1>0, <1>1, IdleKnows DEF SessionsInv, LocksAreOwned, TypeOK, Sweeping
  <2> QED BY <1>1, <2>1, <2>2 DEF SessionsInv, EvidenceKept, Lineage, ExchangedOnce, Issued
<1>2. CASE RevokeAll(p)
  <2> DEFINE S == Unrevoked(req[p].user)
             r == [req[p] EXCEPT !.at = "revoking", !.todo = S, !.snap = S]
  <2>1. r \in RequestState
    <3>1. S \in SUBSET Tokens /\ "revoking" \in Steps
      BY <1>0 DEF Unrevoked, TypeOK, Steps
    <3> QED BY <1>0, <3>1, MovesTyped
  <2>2. req'[p] = r /\ \A q \in Requests \ {p} : req'[q] = req[q]
    BY <1>0, <1>2, <2>1, MoveTyped DEF TypeOK
  <2>3. /\ r.at = "revoking" /\ r.user = req[p].user /\ r.snap = S /\ r.todo = S
        /\ r.token = req[p].token
    BY <1>0 DEF RequestState
  <2>4. /\ req[p].user \in Users
        /\ \A t \in Held(p) \cup S : owner[t] = req[p].user
    BY <1>0, <1>2 DEF RequestKnows, Unrevoked
  <2>5. RequestKnows(p)'
    BY <1>2, <2>2, <2>3, <2>4 DEF RequestKnows, Held
  <2>6. ASSUME NEW q \in Requests \ {p} PROVE RequestKnows(q)'
    BY <1>2, <2>2, HeldRows, KnowledgeKept DEF Held, IsSpent
  <2>7. LocksAreOwned'
    BY <1>0, <1>2, <2>2, <2>3 DEF SessionsInv, LocksAreOwned, TypeOK, Sweeping
  <2> QED BY <1>2, <2>5, <2>6, <2>7 DEF SessionsInv, EvidenceKept, Lineage, ExchangedOnce, Issued
<1> QED BY <1>1, <1>2

\* The commit of a revocation: what it swept is dead, and it swept only rows of
\* its account.
LEMMA CommitRevocationStep ==
    ASSUME SessionsInv, TypeOK', NEW p \in Requests, CommitReuse(p) \/ CommitReset(p)
    PROVE  SessionsInv'
<1> DEFINE at == IF CommitReuse(p) THEN "raised" ELSE "changed"
           r == [req[p] EXCEPT !.at = at]
<1>0. /\ TypeOK /\ req[p] \in RequestState
      /\ req[p].at \in {"revoking", "resetting"} /\ req[p].todo = {}
      /\ revoked' = revoked \cup Held(p) /\ lock' = Released(p)
      /\ UNCHANGED <<stored, rotated, expired, owner, parent, era>>
      /\ RequestKnows(p)
  BY DEF SessionsInv, TypeOK, CommitReuse, CommitReset, history
<1>1. r \in RequestState /\ Move(p, r)
  <2>1. at \in Steps /\ Move(p, r)
    BY DEF Steps, CommitReuse, CommitReset
  <2> QED BY <1>0, <2>1, MovesTyped
<1>2. req'[p] = r /\ \A q \in Requests \ {p} : req'[q] = req[q]
  BY <1>0, <1>1, MoveTyped DEF TypeOK
<1>3. r.at \in {"raised", "changed"} /\ r.snap = req[p].snap
  BY <1>0 DEF RequestState
<1>4. RequestKnows(p)'
  <2>1. req[p].snap \subseteq Issued
    BY <1>0, NoneIsNobody DEF RequestKnows, Issued, RequestState
  <2>2. req[p].snap \cap stored \subseteq revoked'
    BY <1>0 DEF RequestKnows
  <2> QED BY <1>0, <1>2, <1>3, <2>1, <2>2 DEF RequestKnows, Issued
<1>5. ASSUME NEW q \in Requests \ {p} PROVE RequestKnows(q)'
  BY <1>0, <1>2, HeldRows, ReleaseFrees, KnowledgeKept DEF IsSpent
<1>6. \A q \in Requests : RequestKnows(q)'
  BY <1>4, <1>5
<1>7. LocksAreOwned'
  BY <1>0, <1>2, ReleaseFrees DEF SessionsInv, LocksAreOwned, TypeOK
<1>8. rotated' \cup revoked' \subseteq stored'
  BY <1>0, HeldRows DEF SessionsInv
<1> QED BY <1>0, <1>6, <1>7, <1>8
        DEF SessionsInv, EvidenceKept, Lineage, ExchangedOnce, Issued

\* A logout writes a row nobody holds.
LEMMA RevokeStep ==
    ASSUME SessionsInv, TypeOK', NEW p \in Requests, Revoke(p)
    PROVE  SessionsInv'
<1>0. TypeOK
  BY DEF SessionsInv
<1> USE DEF Revoke, history
<1>1. ASSUME NEW q \in Requests \ {p} PROVE RequestKnows(q)'
  BY NoneIsNobody, HeldRows, IdleKnows, KnowledgeKept DEF Held, IsSpent
<1>2. \A q \in Requests : RequestKnows(q)'
  BY <1>1, IdleKnows
<1>3. LocksAreOwned'
  BY <1>0, IdleKnows DEF SessionsInv, LocksAreOwned, TypeOK, Sweeping
<1> QED BY <1>2, <1>3 DEF SessionsInv, EvidenceKept, Lineage, ExchangedOnce, Issued

\* The purge removes rows it holds, and those are past their expiry.
LEMMA PurgeStep ==
    ASSUME SessionsInv, TypeOK', NEW p \in Requests, CommitPurge(p)
    PROVE  SessionsInv'
<1>0. TypeOK /\ Held(p) \subseteq expired
  BY DEF SessionsInv, CommitPurge, RequestKnows
<1> USE DEF CommitPurge, history
<1>1. ASSUME NEW q \in Requests \ {p} PROVE RequestKnows(q)'
  BY <1>0, HeldRows, IdleKnows, ReleaseFrees, KnowledgeKept DEF IsSpent
<1>2. \A q \in Requests : RequestKnows(q)'
  BY <1>1, IdleKnows
<1>3. LocksAreOwned'
  BY <1>0, IdleKnows, ReleaseFrees DEF SessionsInv, LocksAreOwned, TypeOK, Held
<1> QED BY <1>0, <1>2, <1>3 DEF SessionsInv, EvidenceKept, Lineage, ExchangedOnce, Issued

\* A sweep takes one more row of those it set out for.
LEMMA LockNextStep ==
    ASSUME SessionsInv, TypeOK', NEW p \in Requests, NEW t \in Tokens, LockNext(p, t)
    PROVE  SessionsInv'
<1> DEFINE r == [req[p] EXCEPT !.todo = @ \ {t}]
<1>0. /\ TypeOK /\ RequestKnows(p) /\ req[p] \in RequestState
      /\ req[p].at \in Sweeping /\ t \in req[p].todo
  BY DEF SessionsInv, TypeOK, LockNext
<1>1. r \in RequestState
  <2>1. req[p].todo \ {t} \in SUBSET Tokens /\ req[p].at \in Steps
    BY <1>0 DEF RequestState
  <2>2. [req[p] EXCEPT !.todo = req[p].todo \ {t}] \in RequestState
    BY <1>0, <2>1, MovesTyped, IdleTyped DEF RequestState
  <2> QED BY <2>2
<1>2. req'[p] = r /\ \A q \in Requests \ {p} : req'[q] = req[q]
  BY <1>0, <1>1, MoveTyped DEF TypeOK, LockNext
<1>3. /\ r.at = req[p].at /\ r.user = req[p].user /\ r.snap = req[p].snap
      /\ r.todo = req[p].todo \ {t}
  BY <1>0 DEF RequestState
<1> USE DEF LockNext, table, history
<1>4. /\ Held(p)' = Held(p) \cup ({t} \cap stored)
      /\ \A q \in Requests \ {p} : Held(q)' = Held(q)
  BY <1>0, NoneIsNobody, HeldRows DEF Held, TypeOK
<1>5. RequestKnows(p)'
  <2>1. CASE req[p].at \in {"revoking", "resetting"}
    <3>1. t \in req[p].snap => owner[t] = req[p].user
      BY <1>0, <2>1 DEF RequestKnows
    <3>2. req[p].todo \subseteq req[p].snap
      BY <1>0, <2>1 DEF RequestKnows
    <3> QED BY <1>0, <1>2, <1>3, <1>4, <2>1, <3>1, <3>2 DEF RequestKnows
  <2>2. CASE req[p].at = "purging"
    BY <1>0, <1>2, <1>3, <1>4, <2>2 DEF RequestKnows
  <2> QED BY <1>0, <2>1, <2>2 DEF Sweeping
<1>6. ASSUME NEW q \in Requests \ {p} PROVE RequestKnows(q)'
  BY <1>2, <1>4, HeldRows, KnowledgeKept DEF IsSpent
<1>7. \A q \in Requests : RequestKnows(q)'
  BY <1>5, <1>6
<1>8. LocksAreOwned'
  <2>1. req'[p].at \in Sweeping /\ \A q \in Requests \ {p} : req'[q].at = req[q].at
    BY <1>0, <1>2, <1>3
  <2>2. \A s \in Tokens : lock'[s] = lock[s] \/ (s = t /\ t \in stored /\ lock'[s] = p)
    BY <1>0 DEF TypeOK
  <2>3. \A s \in Tokens : lock[s] # None =>
           s \in stored /\ req[lock[s]].at \in {"unspent", "reused"} \cup Sweeping
    BY DEF SessionsInv, LocksAreOwned
  <2>4. \A s \in Tokens : lock[s] \in Requests \cup {None}
    BY <1>0 DEF TypeOK
  <2> HIDE DEF LockNext, r
  <2>5. stored' = stored
    BY DEF LockNext
  <2> QED BY <2>1, <2>2, <2>3, <2>4, <2>5 DEF LocksAreOwned
<1> QED BY <1>7, <1>8 DEF SessionsInv, EvidenceKept, Lineage, ExchangedOnce, Issued

\* The invariant is inductive.
LEMMA InvStep == SessionsInv /\ [Next]_vars => SessionsInv'
<1> SUFFICES ASSUME SessionsInv, [Next]_vars PROVE SessionsInv'
  OBVIOUS
<1>0. TypeOK'
  BY TypeStep
<1>1. CASE UNCHANGED vars
  BY <1>1 DEF SessionsInv, vars, TypeOK, EvidenceKept, LocksAreOwned, Lineage,
     ExchangedOnce, RequestKnows, Issued, IsSpent, Held
<1>2. CASE Tick
  BY <1>0, <1>2, TickStep
<1>3. ASSUME NEW p \in Requests, Ask(p) \/ BeginPurge(p) PROVE SessionsInv'
  BY <1>0, <1>3, StartStep
<1>4. ASSUME NEW p \in Requests, Crash(p) PROVE SessionsInv'
  BY <1>0, <1>4, RollbackStep DEF Crash
<1>5. ASSUME NEW p \in Requests, Work(p) PROVE SessionsInv'
  BY <1>0, <1>5, IssueStep, LockRowStep, ExchangeStep, RevokeAllStep,
     CommitRevocationStep, RevokeStep, PurgeStep, LockNextStep, RollbackStep
     DEF Work, BreakDeadlock
<1> QED BY <1>1, <1>2, <1>3, <1>4, <1>5 DEF Next

\* Table, locks and requests agree, always.
THEOREM Invariance == Spec => []SessionsInv
BY InvInit, InvStep, PTL DEF Spec

\* No step leaves the types.
THEOREM TypesHold == Spec => []TypeOK
<1>1. SessionsInv => TypeOK
  BY DEF SessionsInv
<1> QED BY <1>1, Invariance, PTL

\* A refresh token buys one successor, whatever raced for it.
THEOREM OneSuccessor == Spec => []ExchangedOnce
<1>1. SessionsInv => ExchangedOnce
  BY DEF SessionsInv
<1> QED BY <1>1, Invariance, PTL

\* A token that can still be offered keeps its row.
THEOREM EvidenceIsKept == Spec => []EvidenceKept
<1>1. SessionsInv => EvidenceKept
  BY DEF SessionsInv
<1> QED BY <1>1, Invariance, PTL

\* When a reuse or a reset has been answered, every session the account had
\* when the revocation began is revoked.
THEOREM SweptStayDead == Spec => []SweptSessionsAreDead
<1>1. SessionsInv => SweptSessionsAreDead
  BY DEF SessionsInv, SweptSessionsAreDead, RequestKnows
<1> QED BY <1>1, Invariance, PTL

\* No row stays locked by a request that has left its transaction.
THEOREM LocksHaveOwners == Spec => []LocksAreOwned
<1>1. SessionsInv => LocksAreOwned
  BY DEF SessionsInv
<1> QED BY <1>1, Invariance, PTL

\* Only a session that is neither exchanged nor revoked is ever exchanged.
THEOREM SpentStaysSpent == Spec => NeverExchangesSpent
<1> DEFINE A == \A n \in Tokens :
                  owner[n] = None /\ owner'[n] # None /\ parent'[n] # None
                     => /\ parent'[n] \in stored
                        /\ ~IsSpent(parent'[n])
                        /\ owner'[n] = owner[parent'[n]]
<1>1. SessionsInv /\ [Next]_vars => [A]_vars
  <2> SUFFICES ASSUME SessionsInv, Next PROVE A
    BY DEF vars
  <2> USE DEF table, history
  <2>0. TypeOK
    BY DEF SessionsInv
  <2>1. CASE owner' = owner
    BY <2>1
  <2>2. ASSUME NEW p \in Requests, IssueAtLogin(p) PROVE A
    <3>1. PICK n \in Tokens : Issue(n, req[p].user, None, req[p].seen)
      BY <2>2 DEF IssueAtLogin
    <3>2. parent'[n] = None /\ \A m \in Tokens \ {n} : owner'[m] = owner[m]
      BY <2>0, <3>1 DEF Issue, TypeOK
    <3> QED BY <3>2
  <2>3. ASSUME NEW p \in Requests, Exchange(p) PROVE A
    <3> DEFINE t == req[p].token
    <3>1. t \in stored /\ ~IsSpent(t) /\ req[p].user = owner[t] /\ t \in Tokens
      BY <2>0, <2>3 DEF SessionsInv, RequestKnows, Exchange, TypeOK
    <3>2. PICK n \in Tokens : Issue(n, req[p].user, t, era[t])
      BY <2>3 DEF Exchange
    <3>3. /\ parent'[n] = t /\ owner'[n] = owner[t]
          /\ \A m \in Tokens \ {n} : owner'[m] = owner[m]
      BY <2>0, <3>1, <3>2 DEF Issue, TypeOK
    <3> QED BY <3>1, <3>3
  <2>4. ASSUME NEW p \in Requests, Ask(p) \/ BeginPurge(p) \/ Crash(p)
        PROVE  owner' = owner
    BY <2>4 DEF Ask, Authenticate, BeginReset, Present, RefuseExpired, BeginLogout,
       BeginPurge, Crash, Rollback, vars
  <2>5. ASSUME NEW p \in Requests, Work(p), ~IssueAtLogin(p), ~Exchange(p)
        PROVE  owner' = owner
    BY <2>5 DEF Work, LockRow, RevokeAll, CommitReuse, CommitReset, Answer, Revoke,
       CommitPurge, LockNext, BreakDeadlock, Rollback
  <2>6. Tick => owner' = owner
    BY DEF Tick, Expire
  <2> QED BY <2>1, <2>2, <2>3, <2>4, <2>5, <2>6 DEF Next
<1>2. SessionsInv /\ [Next]_vars => [\A n \in Tokens :
          owner[n] = None /\ owner'[n] # None /\ parent'[n] # None
             => /\ parent'[n] \in stored
                /\ ~IsSpent(parent'[n])
                /\ owner'[n] = owner[parent'[n]]]_vars
  BY <1>1
<1> QED BY <1>2, Invariance, PTL DEF Spec, NeverExchangesSpent
=============================================================================
