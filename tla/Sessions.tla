------------------------------ MODULE Sessions ------------------------------
(***************************************************************************)
(* Refresh sessions of the account service (backend/accounts/tokens.py,   *)
(* the RefreshSession table and every view that writes it).                *)
(*                                                                         *)
(* A request is a database session of its own.  PostgreSQL runs it at READ *)
(* COMMITTED: one action is one statement, a statement sees what was       *)
(* committed when it began, what a transaction writes is seen by nobody    *)
(* until it commits, and a written or locked row is held until then.       *)
(* Writes made under a lock are therefore folded into the commit action.   *)
(* An UPDATE or DELETE over many rows takes its snapshot when it starts    *)
(* (snap) and then locks those rows one by one (todo), waiting for the     *)
(* ones another transaction holds.                                         *)
(***************************************************************************)
EXTENDS Naturals, FiniteSets

CONSTANTS
    Users,      \* accounts
    Tokens,     \* refresh tokens, each standing for its jti
    Requests,   \* concurrent database sessions: gunicorn workers, commands
    None,       \* no user, no token, no request
    MaxResets   \* bound on the password resets of one behaviour

ASSUME NoneIsNobody == None \notin Users \cup Tokens \cup Requests
ASSUME MaxResetsIsNat == MaxResets \in Nat

VARIABLES
    stored,     \* tokens with a committed RefreshSession row
    rotated,    \* stored tokens whose rotated_at is set
    revoked,    \* stored tokens whose revoked_at is set
    expired,    \* tokens whose exp, and so whose row's expires_at, is past
    lock,       \* the request holding each row's lock
    password,   \* how often each account's password was reset
    owner,      \* history: the account a token was ever issued to
    parent,     \* history: the token this one was exchanged for
    era,        \* history: the password its chain of exchanges began under
    req         \* what each request is doing

table   == <<stored, rotated, revoked>>
history == <<owner, parent, era>>
vars    == <<stored, rotated, revoked, expired, lock, password,
             owner, parent, era, req>>

(***************************************************************************)
(* A request: where it is, the token it was given, the account it works    *)
(* for, the password it checked, and the rows of its running UPDATE.       *)
(***************************************************************************)
Steps == {"idle", "looking", "unspent", "reused", "revoking", "raised",
          "authenticated", "resetting", "changed", "leaving", "purging"}

Sweeping == {"revoking", "resetting", "purging"}

RequestState ==
    [at : Steps, token : Tokens \cup {None}, user : Users \cup {None},
     seen : Nat, todo : SUBSET Tokens, snap : SUBSET Tokens]

Idle == [at |-> "idle", token |-> None, user |-> None,
         seen |-> 0, todo |-> {}, snap |-> {}]

TypeOK ==
    /\ stored \subseteq Tokens
    /\ rotated \subseteq Tokens
    /\ revoked \subseteq Tokens
    /\ expired \subseteq Tokens
    /\ lock \in [Tokens -> Requests \cup {None}]
    /\ password \in [Users -> Nat]
    /\ owner \in [Tokens -> Users \cup {None}]
    /\ parent \in [Tokens -> Tokens \cup {None}]
    /\ era \in [Tokens -> Nat]
    /\ req \in [Requests -> RequestState]

Init ==
    /\ stored = {} /\ rotated = {} /\ revoked = {} /\ expired = {}
    /\ lock = [t \in Tokens |-> None]
    /\ password = [u \in Users |-> 0]
    /\ owner = [t \in Tokens |-> None]
    /\ parent = [t \in Tokens |-> None]
    /\ era = [t \in Tokens |-> 0]
    /\ req = [p \in Requests |-> Idle]

-----------------------------------------------------------------------------

Held(p) == {t \in Tokens : lock[t] = p}
Released(p) == [t \in Tokens |-> IF lock[t] = p THEN None ELSE lock[t]]

Issued == {t \in Tokens : owner[t] # None}

\* RefreshSession.is_spent
IsSpent(t) == t \in rotated \/ t \in revoked

\* What a browser can still exchange for an access token.
Live == {t \in stored : ~IsSpent(t) /\ t \notin expired}

\* Mutant: an UPDATE that forgets its filter on the user.
UnrevokedOfAnyone(u) == {t \in stored : t \notin revoked}

\* The rows revoke_all's UPDATE addresses.
Unrevoked(u) == {t \in stored : owner[t] = u /\ t \notin revoked}

\* Bound: a request that may issue starts only while a token is left for it,
\* so that none ends up stuck for want of one.
Room ==
    Cardinality(Tokens \ Issued) >
        Cardinality({p \in Requests :
                        req[p].at \in {"authenticated", "looking", "unspent"}})

Move(p, r) == req' = [req EXCEPT ![p] = r]

Finish(p) == Move(p, Idle)

\* tokens.issue: one INSERT of a row under a jti never drawn before.
Issue(n, u, from, under) ==
    /\ owner[n] = None
    /\ stored' = stored \cup {n}
    /\ owner' = [owner EXCEPT ![n] = u]
    /\ parent' = [parent EXCEPT ![n] = from]
    /\ era' = [era EXCEPT ![n] = under]

-----------------------------------------------------------------------------
(* LoginView.post, and RegisterView.post from its call of issue on.        *)

Authenticate(p, u) ==
    /\ req[p].at = "idle"
    /\ Room
    /\ Move(p, [req[p] EXCEPT !.at = "authenticated", !.user = u,
                               !.seen = password[u]])
    /\ UNCHANGED <<table, expired, lock, password, history>>

IssueAtLogin(p) ==
    /\ req[p].at = "authenticated"
    /\ \E n \in Tokens : Issue(n, req[p].user, None, req[p].seen)
    /\ Finish(p)
    /\ UNCHANGED <<rotated, revoked, expired, lock, password>>

-----------------------------------------------------------------------------
(* RefreshView.post and tokens.rotate.                                     *)

\* RefreshToken(raw) raises TokenError before any row is read: a 401.
RefuseExpired(p, t) ==
    /\ req[p].at = "idle"
    /\ t \in Issued \cap expired
    /\ UNCHANGED vars

Present(p, t) ==
    /\ req[p].at = "idle"
    /\ t \in Issued \ expired
    /\ IsSpent(t) \/ Room
    /\ Move(p, [req[p] EXCEPT !.at = "looking", !.token = t])
    /\ UNCHANGED <<table, expired, lock, password, history>>

\* Mutant: get() without select_for_update().
ReadRow(p) ==
    LET t == req[p].token IN
    /\ req[p].at = "looking"
    /\ Move(p, IF t \in stored
               THEN [req[p] EXCEPT !.user = owner[t],
                       !.at = IF IsSpent(t) THEN "reused" ELSE "unspent"]
               ELSE Idle)
    /\ UNCHANGED <<table, expired, lock, password, history>>

\* Mutant: is_spent looks at rotated_at alone.
LockRowUnlessRotated(p) ==
    LET t == req[p].token IN
    /\ req[p].at = "looking"
    /\ lock[t] = None
    /\ IF t \in stored
       THEN /\ lock' = [lock EXCEPT ![t] = p]
            /\ Move(p, [req[p] EXCEPT !.user = owner[t],
                  !.at = IF t \in rotated THEN "reused" ELSE "unspent"])
       ELSE lock' = lock /\ Finish(p)
    /\ UNCHANGED <<table, expired, password, history>>

\* SELECT ... FOR UPDATE: waits for the row's lock, then reads is_spent.
LockRow(p) ==
    LET t == req[p].token IN
    /\ req[p].at = "looking"
    /\ lock[t] = None
    /\ IF t \in stored
       THEN /\ lock' = [lock EXCEPT ![t] = p]
            /\ Move(p, [req[p] EXCEPT !.user = owner[t],
                  !.at = IF IsSpent(t) THEN "reused" ELSE "unspent"])
       ELSE lock' = lock /\ Finish(p)
    /\ UNCHANGED <<table, expired, password, history>>

\* rotated_at and the successor's row become visible in one commit.
Exchange(p) ==
    LET t == req[p].token IN
    /\ req[p].at = "unspent"
    /\ \E n \in Tokens : Issue(n, req[p].user, t, era[t])
    /\ rotated' = rotated \cup {t}
    /\ lock' = Released(p)
    /\ Finish(p)
    /\ UNCHANGED <<revoked, expired, password>>

\* revoke_all begins: the UPDATE's snapshot, taken while the lock is held.
RevokeAll(p) ==
    /\ req[p].at = "reused"
    /\ Move(p, [req[p] EXCEPT !.at = "revoking",
                               !.todo = Unrevoked(req[p].user),
                               !.snap = Unrevoked(req[p].user)])
    /\ UNCHANGED <<table, expired, lock, password, history>>

\* Mutant: TokenReuse is raised inside the block, which rolls it back.
RaiseInsideBlock(p) ==
    /\ req[p].at = "revoking" /\ req[p].todo = {}
    /\ lock' = Released(p)
    /\ Move(p, [req[p] EXCEPT !.at = "raised"])
    /\ UNCHANGED <<table, expired, password, history>>

\* The block closes on its own; TokenReuse is raised after the commit.
CommitReuse(p) ==
    /\ req[p].at = "revoking" /\ req[p].todo = {}
    /\ revoked' = revoked \cup Held(p)
    /\ lock' = Released(p)
    /\ Move(p, [req[p] EXCEPT !.at = "raised"])
    /\ UNCHANGED <<stored, rotated, expired, password, history>>

-----------------------------------------------------------------------------
(* confirm_password_reset, from the write of the password on.  The user    *)
(* row it updates first makes two resets of one account queue.             *)

BeginReset(p, u) ==
    /\ req[p].at = "idle"
    /\ password[u] < MaxResets
    /\ \A q \in Requests : req[q].at = "resetting" => req[q].user # u
    /\ Move(p, [req[p] EXCEPT !.at = "resetting", !.user = u,
                               !.todo = Unrevoked(u), !.snap = Unrevoked(u)])
    /\ UNCHANGED <<table, expired, lock, password, history>>

CommitReset(p) ==
    /\ req[p].at = "resetting" /\ req[p].todo = {}
    /\ revoked' = revoked \cup Held(p)
    /\ password' = [password EXCEPT ![req[p].user] = @ + 1]
    /\ lock' = Released(p)
    /\ Move(p, [req[p] EXCEPT !.at = "changed"])
    /\ UNCHANGED <<stored, rotated, expired, history>>

\* The 401 after a reuse, the 204 after a reset.
Answer(p) ==
    /\ req[p].at \in {"raised", "changed"}
    /\ Finish(p)
    /\ UNCHANGED <<table, expired, lock, password, history>>

-----------------------------------------------------------------------------
(* LogoutView.post and tokens.revoke: a read without a lock, then an       *)
(* UPDATE by primary key of the one column.                                *)

BeginLogout(p, t) ==
    /\ req[p].at = "idle"
    /\ t \in stored \ (expired \cup revoked)
    /\ Move(p, [req[p] EXCEPT !.at = "leaving", !.token = t])
    /\ UNCHANGED <<table, expired, lock, password, history>>

\* A row purged in between makes save(update_fields=...) fail: a 500.
Revoke(p) ==
    LET t == req[p].token IN
    /\ req[p].at = "leaving"
    /\ lock[t] = None
    /\ revoked' = revoked \cup ({t} \cap stored)
    /\ Finish(p)
    /\ UNCHANGED <<stored, rotated, expired, lock, password, history>>

-----------------------------------------------------------------------------
(* The clock, and purge_expired_sessions.                                  *)

\* Every token lives as long as every other, so a successor outlives the
\* token it was exchanged for.
Expire(t) ==
    /\ t \in Issued \ expired
    /\ parent[t] # None => parent[t] \in expired
    /\ expired' = expired \cup {t}
    /\ UNCHANGED <<table, lock, password, history, req>>

\* Mutant: the purge takes the spent rows, not the expired ones.
BeginPurgeOfSpent(p) ==
    /\ req[p].at = "idle"
    /\ stored \cap rotated # {}
    /\ Move(p, [req[p] EXCEPT !.at = "purging", !.todo = stored \cap rotated])
    /\ UNCHANGED <<table, expired, lock, password, history>>

BeginPurge(p) ==
    /\ req[p].at = "idle"
    /\ stored \cap expired # {}
    /\ Move(p, [req[p] EXCEPT !.at = "purging",
                               !.todo = stored \cap expired])
    /\ UNCHANGED <<table, expired, lock, password, history>>

CommitPurge(p) ==
    /\ req[p].at = "purging" /\ req[p].todo = {}
    /\ stored' = stored \ Held(p)
    /\ rotated' = rotated \ Held(p)
    /\ revoked' = revoked \ Held(p)
    /\ lock' = Released(p)
    /\ Finish(p)
    /\ UNCHANGED <<expired, password, history>>

-----------------------------------------------------------------------------
(* What the database does: lock the rows of an UPDATE or DELETE one by     *)
(* one, break a cycle of waits, roll back what did not commit.             *)

LockNext(p, t) ==
    /\ req[p].at \in Sweeping
    /\ t \in req[p].todo
    /\ lock[t] \in {None, p}
    /\ lock' = IF t \in stored THEN [lock EXCEPT ![t] = p] ELSE lock
    /\ Move(p, [req[p] EXCEPT !.todo = @ \ {t}])
    /\ UNCHANGED <<table, expired, password, history>>

\* Every row q still has to lock is held by somebody else, and r holds one.
WaitsFor(q, r) ==
    /\ req[q].at \in Sweeping
    /\ \E t \in req[q].todo : lock[t] = r
    /\ \A t \in req[q].todo : lock[t] \notin {None, q}

Deadlocked(p) ==
    \E ring \in SUBSET Requests :
        /\ p \in ring
        /\ \A q \in ring : /\ \E r \in ring \ {q} : WaitsFor(q, r)
                           /\ \E r \in ring \ {q} : WaitsFor(r, q)

Rollback(p) ==
    /\ lock' = Released(p)
    /\ Finish(p)
    /\ UNCHANGED <<table, expired, password, history>>

\* The deadlock detector picks p: OperationalError, a 500, nothing written.
BreakDeadlock(p) == Deadlocked(p) /\ Rollback(p)

\* The worker dies, or the connection does, at any point before the commit.
Crash(p) == req[p].at # "idle" /\ Rollback(p)

-----------------------------------------------------------------------------

Work(p) ==
    \/ IssueAtLogin(p)
    \/ LockRow(p) \/ Exchange(p) \/ RevokeAll(p) \/ CommitReuse(p)
    \/ CommitReset(p) \/ Answer(p)
    \/ Revoke(p)
    \/ CommitPurge(p)
    \/ (\E t \in Tokens : LockNext(p, t)) \/ BreakDeadlock(p)

Ask(p) ==
    \/ \E u \in Users : Authenticate(p, u) \/ BeginReset(p, u)
    \/ \E t \in Tokens : Present(p, t) \/ RefuseExpired(p, t) \/ BeginLogout(p, t)

Tick == \E t \in Tokens : Expire(t)

Next ==
    \/ Tick
    \/ \E p \in Requests : Ask(p) \/ BeginPurge(p) \/ Work(p) \/ Crash(p)

Spec == Init /\ [][Next]_vars

\* A request that has begun runs on, and PostgreSQL hands a row's lock to its
\* waiters in turn, a newcomer last: strong fairness for each request on each row.
Fairness ==
    \A p \in Requests :
        /\ WF_vars(Work(p))
        /\ \A t \in Tokens : SF_vars(LockNext(p, t))

-----------------------------------------------------------------------------

\* A refresh token buys one successor, whatever raced for it (tokens.rotate,
\* "exactly once").
ExchangedOnce ==
    \A a, b \in Issued : parent[a] = parent[b] /\ parent[a] # None => a = b

\* Only a session that is in the table, not yet exchanged and not revoked is
\* ever exchanged: no request works from an answer the row has since outgrown.
NeverExchangesSpent ==
    [][\A n \in Tokens :
          owner[n] = None /\ owner'[n] # None /\ parent'[n] # None
             => /\ parent'[n] \in stored
                /\ ~IsSpent(parent'[n])
                /\ owner'[n] = owner[parent'[n]]]_vars

\* A token that can still be offered keeps its row, spent or not, so a replay
\* of it is seen as one (purge_expired_sessions, "evidence").
EvidenceKept == Issued \ expired \subseteq stored

\* When TokenReuse is raised, or a reset answered, every session the account
\* had when revoke_all's UPDATE began is revoked for everybody to see.
SweptSessionsAreDead ==
    \A p \in Requests : req[p].at \in {"raised", "changed"}
        => req[p].snap \cap stored \subseteq revoked

\* A row lock belongs to a request that is inside the transaction that took
\* it, on a row that is still there: nothing is left locked behind.
LocksAreOwned ==
    \A t \in Tokens : lock[t] # None =>
        /\ t \in stored
        /\ req[lock[t]].at \in {"unspent", "reused"} \cup Sweeping

(***************************************************************************)
(* The inductive invariant the proofs rest on, checked by TLC as well.     *)
(***************************************************************************)

\* What a request knows of the rows it holds or works through.
RequestKnows(p) ==
    LET r == req[p] IN
    /\ r.at = "looking" => r.token \in Issued
    /\ r.at = "leaving" => r.token \in Issued
    /\ r.at \in {"unspent", "reused"} =>
          /\ r.token \in stored /\ r.user = owner[r.token]
          /\ Held(p) = {r.token}
    /\ r.at = "unspent" => ~IsSpent(r.token)
    /\ r.at \in {"authenticated", "reused", "revoking", "resetting"} => r.user \in Users
    /\ r.at \in {"revoking", "resetting"} =>
          /\ r.todo \subseteq r.snap
          /\ \A t \in Held(p) \cup r.snap : owner[t] = r.user
          /\ (r.snap \ r.todo) \cap stored \subseteq Held(p)
    /\ r.at = "purging" => r.todo \cup Held(p) \subseteq expired
    /\ r.at \in {"raised", "changed"} =>
          /\ r.snap \subseteq Issued
          /\ r.snap \cap stored \subseteq revoked

\* A successor was issued, and its predecessor, if kept, shows it.
Lineage ==
    \A n \in Tokens : parent[n] # None =>
        /\ n \in Issued /\ parent[n] \in Issued
        /\ parent[n] \in stored => parent[n] \in rotated

\* What the table, the locks and the requests in flight say of each other.
SessionsInv ==
    /\ TypeOK
    /\ rotated \cup revoked \subseteq stored
    /\ stored \subseteq Issued
    /\ EvidenceKept
    /\ LocksAreOwned
    /\ \A p \in Requests : RequestKnows(p)
    /\ Lineage
    /\ ExchangedOnce

\* The row of a token read as what the contract calls its standing.
Standing ==
    [t \in Tokens |->
        IF owner[t] = None        THEN "unissued"
        ELSE IF t \notin stored   THEN "forgotten"
        ELSE IF t \in revoked     THEN "ended"
        ELSE IF t \in rotated     THEN "exchanged"
        ELSE "live"]

Contract == INSTANCE RefreshContract
                WITH standing <- Standing, holder <- owner, past <- expired

\* Every request takes effect at its commit, as one step of the contract: an
\* exchange of a live token inside its account, the end of sessions of one
\* account, or the removal of rows nobody can offer any more.
ImplementsContract == Contract!Spec

\* A revoke_all of the account has gone through, by a reset or by a replay
\* whose own token it has revoked.
Swept(u) ==
    \E q \in Requests :
        /\ req[q].user = u
        /\ \/ req[q].at = "changed"
           \/ req[q].at = "raised" /\ req[q].token \in revoked

\* From some moment on no request is the victim of a deadlock.
DeadlocksEnd == <>[][\A p \in Requests : ~BreakDeadlock(p)]_vars

\* A reuse that was seen under its row's lock ends in a revoke_all of its
\* account that commits, also when the deadlock detector kills the request that
\* saw it: the survivor of a deadlock sweeps the same account.  It needs the
\* deadlocks to end, for each victim's place can be taken by the next replay.
ReuseIsAnswered ==
    DeadlocksEnd =>
        \A u \in Users :
            (\E p \in Requests : req[p].at = "reused" /\ req[p].user = u)
                ~> Swept(u)

(***************************************************************************)
(* What the sources say and the interleavings refute.                      *)
(***************************************************************************)

\* A reuse that was seen revokes the very token that was replayed.  It need not:
\* the survivor of a deadlock works on the rows its own UPDATE saw, and the
\* victim's row may be younger.
EveryReuseIsAnswered ==
    DeadlocksEnd =>
        \A t \in Tokens :
            (\E p \in Requests : req[p].at = "reused" /\ req[p].token = t)
                ~> t \in revoked

\* models.py: the answer to a reuse "is to end every session this account has":
\* when it has been given, no chain that was there is still being continued.
ReuseEndsEverySession ==
    \A p \in Requests : req[p].at = "raised" =>
        \A t \in Live : parent[t] \notin req[p].snap

\* recovery.py: "every session revoked so nothing that started under the old
\* password survives".
NothingOldSurvivesReset ==
    \A t \in Live : era[t] = password[owner[t]]

=============================================================================
