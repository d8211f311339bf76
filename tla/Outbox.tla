------------------------------- MODULE Outbox -------------------------------
(***************************************************************************)
(* Recovery links and the mail that carries them (backend/accounts/        *)
(* recovery.py, send_outbound_mail, mailer.py and the two purges of        *)
(* purge_expired_sessions that touch their tables).                        *)
(*                                                                         *)
(* A request only writes a row in the outbox.  The command that sends it   *)
(* mints the link at that moment, inside a savepoint of the transaction    *)
(* that keeps the outbox row locked, so the mint is committed only if the  *)
(* transport took the message.  The mail provider is outside: it may take  *)
(* a message and the answer may be lost, and it drops a message whose      *)
(* Idempotency-Key it has seen.                                            *)
(*                                                                         *)
(* One action is one statement or one call of the provider; uncommitted    *)
(* writes live in the sender's record until the commit.  A statement over  *)
(* several token rows waits for all of them and then takes them at once.   *)
(***************************************************************************)
EXTENDS Naturals, FiniteSets

CONSTANTS
    Users,      \* accounts
    Kinds,      \* kinds of link in use
    Tokens,     \* raw link tokens, each standing for its digest
    Requests,   \* requests that ask for a mail or present a link
    Senders,    \* runs of send_outbound_mail
    MaxMails,   \* bound on the rows the outbox ever holds
    None        \* no user, no token, no process

Reset  == "PASSWORD_RESET"
Verify == "EMAIL_VERIFY"

ASSUME KindsAreKnown == Kinds \subseteq {Reset, Verify}
ASSUME MaxMailsIsNat == MaxMails \in Nat
ASSUME NoneIsNobody  ==
    None \notin Users \cup Tokens \cup Requests \cup Senders \cup (1..MaxMails)
ASSUME ProcessesDiffer == Requests \cap Senders = {}

VARIABLES
    accounts,   \* the User rows
    verified,   \* accounts whose email_verified_at is set
    mail,       \* the outbox
    claimed,    \* the sender that holds each outbox row's lock
    link,       \* the OneTimeToken rows
    expired,    \* tokens whose expires_at is past
    lock,       \* who holds each token row's lock
    accepted,   \* the provider's idempotency keys: outbox ids it took
    inbox,      \* the token in the mail each outbox id ended up as
    origin,     \* history: the outbox row a token was minted for
    uses,       \* history: how often a token was confirmed
    request,    \* what each request is doing
    sender      \* what each run of the command is doing

people  == <<accounts, verified>>
outbox  == <<mail, claimed>>
links   == <<link, expired, lock>>
outside == <<accepted, inbox>>
history == <<origin, uses>>
vars == <<accounts, verified, mail, claimed, link, expired, lock,
          accepted, inbox, origin, uses, request, sender>>

Mails == 1..MaxMails
Processes == Requests \cup Senders

MailRow ==
    [state : {"none", "waiting", "failed", "gone"},
     user : Users \cup {None}, kind : {Reset, Verify},
     due : BOOLEAN,     \* next_attempt_at is past
     old : BOOLEAN]     \* created more than GIVE_UP_AFTER ago

LinkRow ==
    [state : {"none", "fresh", "superseded", "spent", "gone"},
     user : Users \cup {None}, kind : {Reset, Verify}]

RequestState ==
    [at : {"idle", "enqueuing", "confirming"},
     user : Users \cup {None}, kind : {Reset, Verify}, token : Tokens \cup {None}]

SenderState ==
    [at : {"idle", "claimed", "minting", "sending", "taken", "refused"},
     mail : Mails \cup {None}, token : Tokens \cup {None},
     older : SUBSET Tokens, retry : BOOLEAN]

IdleRequest == [at |-> "idle", user |-> None, kind |-> Reset, token |-> None]

\* The turn of the loop a run of the command is in: the outbox row, the token
\* it drew, the older links, and whether a refusal is worth another attempt.
Turn(at, m, t, older, retry) ==
    [at |-> at, mail |-> m, token |-> t, older |-> older, retry |-> retry]

IdleSender == Turn("idle", None, None, {}, TRUE)

TypeOK ==
    /\ accounts \subseteq Users
    /\ verified \subseteq Users
    /\ mail \in [Mails -> MailRow]
    /\ claimed \in [Mails -> Senders \cup {None}]
    /\ link \in [Tokens -> LinkRow]
    /\ expired \subseteq Tokens
    /\ lock \in [Tokens -> Processes \cup {None}]
    /\ accepted \subseteq Mails
    /\ inbox \in [Mails -> Tokens \cup {None}]
    /\ origin \in [Tokens -> Mails \cup {None}]
    /\ uses \in [Tokens -> Nat]
    /\ request \in [Requests -> RequestState]
    /\ sender \in [Senders -> SenderState]

Init ==
    /\ accounts = Users
    /\ verified = {}
    /\ mail = [m \in Mails |-> [state |-> "none", user |-> None, kind |-> Reset,
                                due |-> FALSE, old |-> FALSE]]
    /\ claimed = [m \in Mails |-> None]
    /\ link = [t \in Tokens |-> [state |-> "none", user |-> None, kind |-> Reset]]
    /\ expired = {}
    /\ lock = [t \in Tokens |-> None]
    /\ accepted = {}
    /\ inbox = [m \in Mails |-> None]
    /\ origin = [t \in Tokens |-> None]
    /\ uses = [t \in Tokens |-> 0]
    /\ request = [q \in Requests |-> IdleRequest]
    /\ sender = [s \in Senders |-> IdleSender]

-----------------------------------------------------------------------------

Waiting(u, k) == {m \in Mails : /\ mail[m].state = "waiting"
                                /\ mail[m].user = u /\ mail[m].kind = k}

\* Neither spent nor superseded, in the table.
Fresh(u, k) == {t \in Tokens : /\ link[t].state = "fresh"
                               /\ link[t].user = u /\ link[t].kind = k}

\* OneTimeToken.is_usable
IsUsable(t) == link[t].state = "fresh" /\ t \notin expired

Delivered == {inbox[m] : m \in Mails} \ {None}

\* A token rolled back before anybody saw it is as good as never drawn.
TakenBack(s) == [t \in Tokens |->
    IF t = sender[s].token /\ t \notin Delivered THEN None ELSE origin[t]]

Freed(p) == [t \in Tokens |-> IF lock[t] = p THEN None ELSE lock[t]]

\* Bound: a row is asked for only while the outbox has one left for everybody.
RoomForMail ==
    Cardinality({m \in Mails : mail[m].state = "none"}) >
        Cardinality({q \in Requests : request[q].at = "enqueuing"})

\* Bound: a row is claimed only while there is a token for everybody.
RoomForToken ==
    Cardinality({t \in Tokens : origin[t] = None}) >
        Cardinality({s \in Senders : sender[s].at \in {"claimed", "minting"}})

-----------------------------------------------------------------------------
(* request_password_reset, request_email_verification and enqueue: the     *)
(* look for a waiting row, then the INSERT.  Asking while one waits        *)
(* changes nothing.                                                        *)

Ask(q, u, k) ==
    /\ request[q].at = "idle"
    /\ u \in accounts
    /\ k = Verify => u \notin verified
    /\ Waiting(u, k) = {}
    /\ RoomForMail
    /\ request' = [request EXCEPT ![q] =
          [at |-> "enqueuing", user |-> u, kind |-> k, token |-> None]]
    /\ UNCHANGED <<people, outbox, links, outside, history, sender>>

\* Ids are handed out in order.  The foreign key refuses the row of an account
\* that is gone.
Enqueue(q) ==
    /\ request[q].at = "enqueuing"
    /\ IF request[q].user \in accounts
       THEN \E m \in Mails :
               /\ mail[m].state = "none"
               /\ \A n \in Mails : n < m => mail[n].state # "none"
               /\ mail' = [mail EXCEPT ![m] =
                     [state |-> "waiting", user |-> request[q].user,
                      kind |-> request[q].kind, due |-> TRUE, old |-> FALSE]]
       ELSE mail' = mail
    /\ request' = [request EXCEPT ![q] = IdleRequest]
    /\ UNCHANGED <<people, claimed, links, outside, history, sender>>

-----------------------------------------------------------------------------
(* confirm_password_reset and confirm_email_verification.                  *)

\* Mutant: the row is read without select_for_update().
PeekLink(q, t) ==
    /\ request[q].at = "idle"
    /\ t \in Delivered
    /\ IsUsable(t)
    /\ request' = [request EXCEPT ![q] =
          [at |-> "confirming", user |-> None, kind |-> Reset, token |-> t]]
    /\ UNCHANGED <<people, outbox, links, outside, history, sender>>

\* _lock: waits for the row, then reads is_usable.  A link that is not usable
\* is refused and nothing changes.
LockLink(q, t) ==
    /\ request[q].at = "idle"
    /\ t \in Delivered
    /\ lock[t] = None
    /\ IsUsable(t)
    /\ lock' = [lock EXCEPT ![t] = q]
    /\ request' = [request EXCEPT ![q] =
          [at |-> "confirming", user |-> None, kind |-> Reset, token |-> t]]
    /\ UNCHANGED <<people, outbox, link, expired, outside, history, sender>>

\* Both kinds confirm the address; only now is the row marked spent.
Confirm(q) ==
    LET t == request[q].token IN
    /\ request[q].at = "confirming"
    /\ verified' = verified \cup {link[t].user}
    /\ link' = [link EXCEPT ![t].state = "spent"]
    /\ uses' = [uses EXCEPT ![t] = @ + 1]
    /\ lock' = Freed(q)
    /\ request' = [request EXCEPT ![q] = IdleRequest]
    /\ UNCHANGED <<accounts, outbox, expired, outside, origin, sender>>

\* A password the validators refuse, or a worker that dies: nothing is written.
Abandon(q) ==
    /\ request[q].at # "idle"
    /\ lock' = Freed(q)
    /\ request' = [request EXCEPT ![q] = IdleRequest]
    /\ UNCHANGED <<people, outbox, link, expired, outside, history, sender>>

-----------------------------------------------------------------------------
(* Command._deliver: one turn of its loop is a claim, a mint, a send and   *)
(* a commit.                                                               *)

Claimable == {m \in Mails : /\ mail[m].state = "waiting" /\ mail[m].due
                            /\ claimed[m] = None}

\* Mutant: SELECT without FOR UPDATE, so nothing keeps others off the row.
PickWithoutLock(s) ==
    /\ sender[s].at = "idle"
    /\ RoomForToken
    /\ \E m \in Claimable :
          /\ \A n \in Claimable : m <= n
          /\ sender' = [sender EXCEPT ![s] = Turn("claimed", m, None, {}, TRUE)]
    /\ UNCHANGED <<people, outbox, links, outside, history, request>>

\* FOR UPDATE SKIP LOCKED, in the order of the ids.
Claim(s) ==
    /\ sender[s].at = "idle"
    /\ RoomForToken
    /\ \E m \in Claimable :
          /\ \A n \in Claimable : m <= n
          /\ claimed' = [claimed EXCEPT ![m] = s]
          /\ sender' = [sender EXCEPT ![s] = Turn("claimed", m, None, {}, TRUE)]
    /\ UNCHANGED <<people, mail, links, outside, history, request>>

\* Mutant: a mint that supersedes nothing.
BeginMintBeside(s) ==
    /\ sender[s].at = "claimed"
    /\ sender' = [sender EXCEPT ![s] = Turn("minting", sender[s].mail, None, {}, TRUE)]
    /\ UNCHANGED <<people, outbox, links, outside, history, request>>

\* mint's UPDATE takes its snapshot: the older links it will supersede.
BeginMint(s) ==
    LET m == sender[s].mail IN
    /\ sender[s].at = "claimed"
    /\ sender' = [sender EXCEPT ![s] =
          Turn("minting", m, None, Fresh(mail[m].user, mail[m].kind), TRUE)]
    /\ UNCHANGED <<people, outbox, links, outside, history, request>>

\* It has the rows, and leaves out the ones that changed while it waited; the
\* new digest is inserted, and seen by nobody yet.
Mint(s) ==
    LET still == {t \in sender[s].older : link[t].state = "fresh"} IN
    /\ sender[s].at = "minting"
    /\ \A t \in sender[s].older : lock[t] = None
    /\ lock' = [t \in Tokens |-> IF t \in still THEN s ELSE lock[t]]
    /\ \E n \in Tokens :
          /\ origin[n] = None
          /\ origin' = [origin EXCEPT ![n] = sender[s].mail]
          /\ sender' = [sender EXCEPT ![s] =
                Turn("sending", sender[s].mail, n, still, TRUE)]
    /\ UNCHANGED <<people, outbox, link, expired, outside, uses, request>>

\* The provider takes the message, unless it knows the key, and says so.  What
\* it says may be lost on the way, or unreadable: TransportError 0 or 200.
Accept(s) ==
    LET m == sender[s].mail IN
    /\ sender[s].at = "sending"
    /\ accepted' = accepted \cup {m}
    /\ inbox' = IF m \in accepted THEN inbox
                ELSE [inbox EXCEPT ![m] = sender[s].token]
    /\ \E outcome \in {"taken", "refused"} :
          sender' = [sender EXCEPT ![s] =
                        Turn(outcome, m, sender[s].token, sender[s].older, TRUE)]
    /\ UNCHANGED <<people, outbox, links, history, request>>

\* It never arrives, the provider refuses it, or composing it raises.
\* _retryable tells a passing refusal from a lasting one.
Refuse(s) ==
    /\ sender[s].at = "sending"
    /\ \E again \in BOOLEAN :
          sender' = [sender EXCEPT ![s] = Turn("refused", sender[s].mail,
                        sender[s].token, sender[s].older, again)]
    /\ UNCHANGED <<people, outbox, links, outside, history, request>>

\* The commit: MAIL_SENT, the outbox row gone, the mint visible.
CommitSent(s) ==
    LET m == sender[s].mail IN
    /\ sender[s].at = "taken"
    /\ link' = [t \in Tokens |->
                  IF t = sender[s].token
                  THEN [state |-> "fresh", user |-> mail[m].user, kind |-> mail[m].kind]
                  ELSE IF t \in sender[s].older THEN [link[t] EXCEPT !.state = "superseded"]
                  ELSE link[t]]
    /\ mail' = [mail EXCEPT ![m].state = "gone"]
    /\ claimed' = [claimed EXCEPT ![m] = None]
    /\ lock' = Freed(s)
    /\ sender' = [sender EXCEPT ![s] = IdleSender]
    /\ UNCHANGED <<people, expired, outside, history, request>>

\* Mutant: no savepoint, so the mint is committed with the deferral.
DeferKeepingMint(s) ==
    LET m == sender[s].mail IN
    /\ sender[s].at = "refused"
    /\ link' = [link EXCEPT ![sender[s].token] =
                  [state |-> "fresh", user |-> mail[m].user, kind |-> mail[m].kind]]
    /\ mail' = [mail EXCEPT ![m].due = FALSE]
    /\ claimed' = [claimed EXCEPT ![m] = None]
    /\ lock' = Freed(s)
    /\ sender' = [sender EXCEPT ![s] = IdleSender]
    /\ UNCHANGED <<people, expired, outside, history, request>>

\* Mutant: the older links are superseded outside the savepoint.
DeferSuperseding(s) ==
    LET m == sender[s].mail IN
    /\ sender[s].at = "refused"
    /\ link' = [t \in Tokens |-> IF t \in sender[s].older
                                 THEN [link[t] EXCEPT !.state = "superseded"] ELSE link[t]]
    /\ mail' = [mail EXCEPT ![m].due = FALSE]
    /\ claimed' = [claimed EXCEPT ![m] = None]
    /\ lock' = Freed(s)
    /\ sender' = [sender EXCEPT ![s] = IdleSender]
    /\ origin' = TakenBack(s)
    /\ UNCHANGED <<people, expired, outside, uses, request>>

\* Mutant: a row is given up on for its status alone, never for its age.
DeferForever(s) ==
    LET m == sender[s].mail IN
    /\ sender[s].at = "refused"
    /\ mail' = IF ~sender[s].retry THEN [mail EXCEPT ![m].state = "failed"]
                                   ELSE [mail EXCEPT ![m].due = FALSE]
    /\ claimed' = [claimed EXCEPT ![m] = None]
    /\ lock' = Freed(s)
    /\ sender' = [sender EXCEPT ![s] = IdleSender]
    /\ origin' = TakenBack(s)
    /\ UNCHANGED <<people, link, expired, outside, uses, request>>

\* _defer, after the savepoint has taken the mint back.
Defer(s) ==
    LET m == sender[s].mail IN
    /\ sender[s].at = "refused"
    /\ mail' = IF ~sender[s].retry \/ mail[m].old
               THEN [mail EXCEPT ![m].state = "failed"]
               ELSE [mail EXCEPT ![m].due = FALSE]
    /\ claimed' = [claimed EXCEPT ![m] = None]
    /\ lock' = Freed(s)
    /\ sender' = [sender EXCEPT ![s] = IdleSender]
    /\ origin' = TakenBack(s)
    /\ UNCHANGED <<people, link, expired, outside, uses, request>>

\* The command dies, or its connection: the row is as it was, and still due.
Die(s) ==
    /\ sender[s].at # "idle"
    /\ claimed' = [m \in Mails |-> IF claimed[m] = s THEN None ELSE claimed[m]]
    /\ lock' = Freed(s)
    /\ sender' = [sender EXCEPT ![s] = IdleSender]
    /\ origin' = TakenBack(s)
    /\ UNCHANGED <<people, mail, link, expired, outside, uses, request>>

-----------------------------------------------------------------------------
(* The clock, the purge, and the deletion of an account.                   *)

BecomeDue(m) ==
    /\ mail[m].state = "waiting" /\ ~mail[m].due
    /\ mail' = [mail EXCEPT ![m].due = TRUE]
    /\ UNCHANGED <<people, claimed, links, outside, history, request, sender>>

GrowOld(m) ==
    /\ mail[m].state = "waiting" /\ ~mail[m].old
    /\ mail' = [mail EXCEPT ![m].old = TRUE]
    /\ UNCHANGED <<people, claimed, links, outside, history, request, sender>>

ExpireLink(t) ==
    /\ link[t].state \in {"fresh", "superseded", "spent"} /\ t \notin expired
    /\ expired' = expired \cup {t}
    /\ UNCHANGED <<people, outbox, link, lock, outside, history, request, sender>>

\* Mutant: rows that are spent go before their expiry, as if they said nothing.
PurgeSpentLinks ==
    LET dead == {t \in Tokens : \/ link[t].state = "spent"
                                \/ t \in expired /\ link[t].state \in {"fresh", "superseded"}}
    IN
    /\ dead # {}
    /\ \A t \in dead : lock[t] = None
    /\ link' = [t \in Tokens |-> IF t \in dead THEN [link[t] EXCEPT !.state = "gone"]
                                              ELSE link[t]]
    /\ UNCHANGED <<people, outbox, expired, lock, outside, history, request, sender>>

\* purge_expired_sessions: token rows on expires_at, waiting for locked ones.
PurgeLinks ==
    LET dead == {t \in expired : link[t].state \in {"fresh", "superseded", "spent"}} IN
    /\ dead # {}
    /\ \A t \in dead : lock[t] = None
    /\ link' = [t \in Tokens |-> IF t \in dead THEN [link[t] EXCEPT !.state = "gone"]
                                              ELSE link[t]]
    /\ UNCHANGED <<people, outbox, expired, lock, outside, history, request, sender>>

\* purge_expired_sessions: failed outbox rows, seven days later.
PurgeMails ==
    LET dead == {m \in Mails : mail[m].state = "failed"} IN
    /\ dead # {}
    /\ mail' = [m \in Mails |-> IF m \in dead THEN [mail[m] EXCEPT !.state = "gone"]
                                              ELSE mail[m]]
    /\ UNCHANGED <<people, claimed, links, outside, history, request, sender>>

\* service.delete_account, at its commit: CASCADE takes the rows, waiting for
\* the locked ones.  One that meets a new row of the account fails as a whole.
DeleteAccount(u) ==
    LET mails == {m \in Mails : mail[m].user = u /\ mail[m].state \in {"waiting", "failed"}}
        tokens == {t \in Tokens : link[t].user = u /\ link[t].state # "gone"}
    IN
    /\ u \in accounts
    /\ \A m \in mails : claimed[m] = None
    /\ \A t \in tokens : lock[t] = None
    /\ accounts' = accounts \ {u}
    /\ mail' = [m \in Mails |-> IF m \in mails THEN [mail[m] EXCEPT !.state = "gone"]
                                               ELSE mail[m]]
    /\ link' = [t \in Tokens |-> IF t \in tokens THEN [link[t] EXCEPT !.state = "gone"]
                                                ELSE link[t]]
    /\ UNCHANGED <<verified, claimed, expired, lock, outside, history, request, sender>>

-----------------------------------------------------------------------------

Serve(q) ==
    \/ \E u \in Users, k \in Kinds : Ask(q, u, k)
    \/ Enqueue(q)
    \/ \E t \in Tokens : LockLink(q, t)
    \/ Confirm(q)
    \/ Abandon(q)

Send(s) ==
    \/ Claim(s) \/ BeginMint(s) \/ Mint(s)
    \/ Accept(s) \/ Refuse(s)
    \/ CommitSent(s) \/ Defer(s)

Tick ==
    \/ \E m \in Mails : BecomeDue(m) \/ GrowOld(m)
    \/ \E t \in Tokens : ExpireLink(t)

Next ==
    \/ Tick
    \/ PurgeLinks \/ PurgeMails
    \/ \E u \in Users : DeleteAccount(u)
    \/ \E q \in Requests : Serve(q)
    \/ \E s \in Senders : Send(s) \/ Die(s)

Spec == Init /\ [][Next]_vars

\* A stretch of time in which nothing dies and no account is deleted.  The
\* timer runs the command every minute, a request that holds a row finishes,
\* and PostgreSQL serves the waiters of a row in turn.
FairSpec ==
    /\ Init
    /\ [][Tick \/ (\E q \in Requests : Serve(q)) \/ (\E s \in Senders : Send(s))]_vars
    /\ \A q \in Requests : WF_vars(Confirm(q) \/ Abandon(q))
    /\ \A s \in Senders : WF_vars(Send(s)) /\ SF_vars(Mint(s))
    /\ \A m \in Mails : WF_vars(BecomeDue(m)) /\ WF_vars(GrowOld(m))

-----------------------------------------------------------------------------

\* A link works once, whatever was presented at the same time (_lock).
UsedOnce == \A t \in Tokens : uses[t] <= 1

\* One household's row is in the hands of one run of the command at a time
\* (send_outbound_mail: "never claims the same row").
OneSenderPerRow ==
    \A a, b \in Senders :
        a # b /\ sender[a].at # "idle" => sender[a].mail # sender[b].mail

\* A digest in the table belongs to a message the provider took: a send that
\* failed left none behind.
DigestsWereAccepted ==
    \A t \in Tokens : link[t].state # "none" => origin[t] \in accepted

\* A link is superseded by another one that went out, never by one that did not.
SupersededByAnother ==
    \A t \in Tokens : link[t].state = "superseded" =>
        \E n \in Tokens \ {t} : /\ link[n].state \in {"fresh", "spent", "gone"}
                                /\ link[n].user = link[t].user
                                /\ link[n].kind = link[t].kind

\* The row of the outbox without the clock of its attempts.
Letters == [m \in Mails |-> [state |-> mail[m].state, user |-> mail[m].user,
                             kind |-> mail[m].kind]]

Contract == INSTANCE RecoveryContract WITH letter <- Letters, taken <- accepted

\* Every request and every message takes effect at its commit, as one step of
\* the contract: a link works from the moment its mail was taken and recorded,
\* in the place of others of its account and kind, it is used once and while its
\* account is there, and only what is past its expiry is forgotten (mint, _lock,
\* _deliver, delete_account, purge_expired_sessions).
ImplementsContract == Contract!Spec

\* Nothing goes out for an account that has been deleted (OutboundMail's
\* docstring).
NothingToTheDeleted ==
    [][\A m \in Mails : inbox'[m] # inbox[m] => mail[m].user \in accounts]_vars

(***************************************************************************)
(* The inductive invariant the proofs rest on, checked by TLC as well.     *)
(***************************************************************************)

\* A request confirms a link whose row it holds and found fresh.
ConfirmsWhatItHolds(q) ==
    request[q].at = "confirming" =>
        LET t == request[q].token IN
        t \in Tokens /\ lock[t] = q /\ link[t].state = "fresh"

\* A run of the command holds the outbox row it works on, and the rows of the
\* links it is about to supersede; the token it drew is in no table yet.
SendsWhatItHolds(s) ==
    LET turn == sender[s] IN
    /\ turn.at # "idle" =>
          /\ turn.mail \in Mails
          /\ claimed[turn.mail] = s /\ mail[turn.mail].state = "waiting"
    /\ turn.at = "idle" => turn.mail = None
    /\ turn.at \in {"idle", "claimed", "minting"} => turn.token = None
    /\ turn.at \in {"sending", "taken", "refused"} =>
          /\ turn.token \in Tokens
          /\ origin[turn.token] = turn.mail /\ link[turn.token].state = "none"
          /\ \A t \in turn.older : lock[t] = s /\ link[t].state = "fresh"
    /\ turn.at = "taken" => turn.mail \in accepted

\* What the tables, the locks and the processes say of each other.
OutboxInv ==
    /\ TypeOK
    /\ \A m \in Mails : mail[m].state = "waiting" => mail[m].user \in accounts
    /\ \A t \in Tokens : link[t].state \in {"none", "fresh"} => uses[t] = 0
    /\ \A t \in Tokens : link[t].state = "none" => lock[t] = None /\ link[t].user = None
    /\ \A t \in Tokens : link[t].state = "fresh" => link[t].user \in Users
    /\ UsedOnce
    /\ DigestsWereAccepted
    /\ \A q \in Requests : ConfirmsWhatItHolds(q)
    /\ \A s \in Senders : SendsWhatItHolds(s)

\* The links a run is about to supersede are links of the person its message is
\* for, and of the same kind.
SupersedesItsOwn(s) ==
    LET turn == sender[s] IN
    turn.at # "idle" =>
        \A t \in turn.older : /\ link[t].state # "none"
                              /\ link[t].user = mail[turn.mail].user
                              /\ link[t].kind = mail[turn.mail].kind

\* They are all of them that work: so while one run of the command is at work.
SupersedesAll(s) ==
    LET turn == sender[s] IN
    turn.at \in {"minting", "sending", "taken", "refused"} =>
        Fresh(mail[turn.mail].user, mail[turn.mail].kind) \subseteq turn.older

SupersedeInv ==
    /\ \A s \in Senders : SupersedesItsOwn(s)
    /\ SupersededByAnother

\* What the refinement needs besides: a request is for a kind in use, a link
\* works only for an account that is there, and a row not written is nobody's.
OwnedInv ==
    /\ \A q \in Requests : request[q].at = "enqueuing" => request[q].kind \in Kinds
    /\ \A t \in Tokens : link[t].state = "fresh" => link[t].user \in accounts
    /\ \A m \in Mails : mail[m].state = "none" => mail[m].user = None

UsableInv ==
    /\ \A s \in Senders : SupersedesAll(s)
    /\ \A t, n \in Tokens :
          /\ link[t].state = "fresh" /\ link[n].state = "fresh"
          /\ link[t].user = link[n].user /\ link[t].kind = link[n].kind
          => t = n

\* The timer's unit runs the command once at a time.
OneCommand == \A a, b \in Senders : a = b

\* Every row leaves the outbox: sent, or given up on.
EveryMailLeaves ==
    \A m \in Mails : mail[m].state = "waiting" ~> mail[m].state # "waiting"

\* With one run of the command at a time, mint keeps one usable link per person
\* per kind (OneTimeToken.superseded_at).
OneUsableLink ==
    \A u \in Users, k \in Kinds :
        \A a, b \in Fresh(u, k) : a = b

(***************************************************************************)
(* What the sources say and the interleavings refute.                      *)
(***************************************************************************)

\* send_outbound_mail: "no digest of a token nobody received survives".
FreshLinksWereReceived ==
    \A t \in Tokens : link[t].state = "fresh" => t \in Delivered

=============================================================================
