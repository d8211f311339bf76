------------------------- MODULE SessionsRefinement -------------------------
(* Sessions implements RefreshContract, for any accounts, tokens, requests. *)
EXTENDS SessionsProofs

\* The tables a step leaves alone leave every token its standing.
LEMMA SameStanding ==
    ASSUME UNCHANGED <<stored, rotated, revoked, owner>>
    PROVE  Standing' = Standing
BY DEF Standing

\* What each standing says of the row.
LEMMA StandingReads ==
    ASSUME SessionsInv, NEW t \in Tokens
    PROVE  /\ Standing[t] = "unissued" <=> t \notin Issued
           /\ Standing[t] = "live" <=> t \in stored /\ ~IsSpent(t)
           /\ Standing[t] \in {"live", "exchanged"} <=> t \in stored \ revoked
BY DEF Standing, SessionsInv, Issued, IsSpent

\* The empty table is the contract's beginning.
LEMMA InitMaps == Init => Contract!Init
BY NoneIsNobody DEF Init, Contract!Init, Standing

\* A login issues one live token to nobody's successor.
LEMMA SignInMaps ==
    ASSUME SessionsInv, NEW p \in Requests, IssueAtLogin(p)
    PROVE  Contract!Next
<1> DEFINE u == req[p].user
<1>1. PICK n \in Tokens : Issue(n, u, None, req[p].seen)
  BY DEF IssueAtLogin
<1>2. TypeOK /\ u \in Users /\ n \notin stored /\ stored \subseteq Issued
  BY <1>1 DEF SessionsInv, IssueAtLogin, RequestKnows, Issue, Issued
<1>3. Standing[n] = "unissued"
  BY <1>1 DEF Standing, Issue
<1>4. Standing' = [Standing EXCEPT ![n] = "live"]
  <2>1. n \notin rotated /\ n \notin revoked
    BY <1>2 DEF SessionsInv
  <2>2. /\ stored' = stored \cup {n} /\ rotated' = rotated /\ revoked' = revoked
        /\ owner' = [owner EXCEPT ![n] = u]
    BY <1>1 DEF Issue, IssueAtLogin
  <2> HIDE DEF u
  <2> QED BY <1>2, <2>1, <2>2, NoneIsNobody DEF Standing, TypeOK
<1>5. Contract!SignIn(n, u)
  BY <1>1, <1>3, <1>4 DEF Contract!SignIn, Issue, IssueAtLogin
<1> QED BY <1>1, <1>2, <1>5 DEF Contract!Next

\* The commit of an exchange: one live token for one new one.
LEMMA ExchangeMaps ==
    ASSUME SessionsInv, NEW p \in Requests, Exchange(p)
    PROVE  Contract!Next
<1> DEFINE t == req[p].token
<1>1. PICK n \in Tokens : Issue(n, req[p].user, t, era[t])
  BY DEF Exchange
<1>2. /\ TypeOK /\ t \in stored /\ t \in Tokens /\ ~IsSpent(t)
      /\ req[p].user = owner[t] /\ owner[t] \in Users
      /\ n \notin stored /\ n \notin rotated /\ n \notin revoked /\ n # t
  BY <1>1, NoneIsNobody DEF SessionsInv, Exchange, RequestKnows, Issue, Issued, TypeOK
<1>3. Standing[n] = "unissued" /\ Standing[t] = "live"
  BY <1>1, <1>2, StandingReads DEF Issue, Issued
<1>4. Standing' = [Standing EXCEPT ![t] = "exchanged", ![n] = "live"]
  <2> HIDE DEF t
  <2>1. /\ stored' = stored \cup {n} /\ rotated' = rotated \cup {t} /\ revoked' = revoked
        /\ owner' = [owner EXCEPT ![n] = req[p].user]
    BY <1>1 DEF Issue, Exchange, t
  <2> QED BY <1>2, <2>1, NoneIsNobody DEF Standing, IsSpent, TypeOK
<1>5. Contract!Exchange(t, n)
  BY <1>1, <1>2, <1>3, <1>4 DEF Contract!Exchange, Issue, Exchange
<1> QED BY <1>1, <1>2, <1>5 DEF Contract!Next

\* A set of unrevoked rows of one account is revoked at once.
LEMMA EndMaps ==
    ASSUME SessionsInv, NEW u \in Users, NEW S \in SUBSET stored,
           \A t \in S : owner[t] = u,
           revoked' = revoked \cup S,
           UNCHANGED <<stored, rotated, expired, owner>>
    PROVE  Contract!Next
<1> DEFINE R == S \ revoked
<1>1. R \in SUBSET Tokens /\ TypeOK
  BY DEF SessionsInv, TypeOK
<1>2. \A t \in R : owner[t] = u /\ Standing[t] \in {"live", "exchanged"}
  BY <1>1, StandingReads
<1>3. Standing' = [t \in Tokens |-> IF t \in R THEN "ended" ELSE Standing[t]]
  BY <1>1, NoneIsNobody DEF Standing, SessionsInv, Issued
<1>4. Contract!End(u, R)
  BY <1>2, <1>3 DEF Contract!End
<1> QED BY <1>1, <1>4 DEF Contract!Next

\* The purge forgets rows nobody can offer any more.
LEMMA ForgetMaps ==
    ASSUME SessionsInv, NEW p \in Requests, CommitPurge(p)
    PROVE  Contract!Next
<1>1. Held(p) \in SUBSET Tokens /\ Held(p) \subseteq expired /\ Held(p) \subseteq stored
  BY HeldRows DEF SessionsInv, CommitPurge, RequestKnows, Held
<1>2. Standing' = [t \in Tokens |-> IF t \in Held(p) THEN "forgotten" ELSE Standing[t]]
  BY <1>1 DEF Standing, SessionsInv, Issued, CommitPurge, history
<1>3. Contract!Forget(Held(p))
  BY <1>1, <1>2 DEF Contract!Forget, CommitPurge, history
<1> QED BY <1>1, <1>3 DEF Contract!Next

\* A token grows old under both.
LEMMA PassMaps ==
    ASSUME SessionsInv, Tick
    PROVE  Contract!Next
<1>1. PICK t \in Tokens : Expire(t)
  BY DEF Tick
<1>2. Standing' = Standing /\ Standing[t] # "unissued"
  BY <1>1, SameStanding, StandingReads DEF Expire, table, history
<1>3. Contract!Pass(t)
  BY <1>1, <1>2 DEF Contract!Pass, Expire, history
<1> QED BY <1>3 DEF Contract!Next

\* Every step is a step of the contract, or none.
LEMMA StepMaps ==
    SessionsInv /\ [Next]_vars => [Contract!Next]_<<Standing, owner, expired>>
<1> SUFFICES ASSUME SessionsInv, [Next]_vars, ~UNCHANGED <<Standing, owner, expired>>
             PROVE  Contract!Next
  OBVIOUS
<1> USE DEF table, history
<1>0. TypeOK
  BY DEF SessionsInv
<1>1. ~UNCHANGED <<stored, rotated, revoked, owner, expired>>
  BY SameStanding
<1>2. CASE Tick
  BY <1>2, PassMaps
<1>3. ASSUME NEW p \in Requests, Ask(p) \/ BeginPurge(p) \/ Crash(p) PROVE FALSE
  BY <1>1, <1>3 DEF Ask, Authenticate, BeginReset, Present, RefuseExpired, BeginLogout,
     BeginPurge, Crash, Rollback, vars
<1>4. ASSUME NEW p \in Requests, CommitReuse(p) \/ CommitReset(p) PROVE Contract!Next
  <2>1. req[p].user \in Users /\ \A t \in Held(p) : owner[t] = req[p].user
    BY <1>4 DEF SessionsInv, RequestKnows, CommitReuse, CommitReset
  <2>2. Held(p) \in SUBSET stored
    BY HeldRows
  <2> QED BY <1>4, <2>1, <2>2, EndMaps DEF CommitReuse, CommitReset
<1>5. ASSUME NEW p \in Requests, Revoke(p) PROVE Contract!Next
  <2> DEFINE t == req[p].token
  <2>1. t \in Issued
    BY <1>5 DEF SessionsInv, RequestKnows, Revoke
  <2>2. owner[t] \in Users /\ {t} \cap stored \in SUBSET stored
    BY <1>0, <2>1 DEF Issued, TypeOK
  <2> QED BY <1>5, <2>2, EndMaps DEF Revoke
<1>6. ASSUME NEW p \in Requests,
             LockRow(p) \/ RevokeAll(p) \/ Answer(p) \/ BreakDeadlock(p)
               \/ \E t \in Tokens : LockNext(p, t)
      PROVE  FALSE
  BY <1>1, <1>6 DEF LockRow, RevokeAll, Answer, BreakDeadlock, Rollback, LockNext
<1> QED BY <1>1, <1>2, <1>3, <1>4, <1>5, <1>6, SignInMaps, ExchangeMaps, ForgetMaps
        DEF Next, Work, vars

\* Every request of the account service takes effect as one step of the
\* contract.
THEOREM Refinement == Spec => ImplementsContract
<1>1. SessionsInv /\ [Next]_vars => [Contract!Next]_<<Standing, owner, expired>>
  BY StepMaps
<1> QED BY <1>1, InitMaps, Invariance, PTL DEF Spec, ImplementsContract, Contract!Spec
=============================================================================
