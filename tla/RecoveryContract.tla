-------------------------- MODULE RecoveryContract --------------------------
(***************************************************************************)
(* What the account service promises about recovery links and the mail     *)
(* that carries them, with every request and every message taking effect   *)
(* at one instant.  Outbox implements it.                                  *)
(***************************************************************************)
EXTENDS Naturals

CONSTANTS Users, Kinds, Tokens, Mails, None

VARIABLES
    accounts,   \* the people there are
    verified,   \* those whose address was confirmed
    letter,     \* the mails that are owed, given up on or gone
    taken,      \* the mails the provider has taken
    link,       \* what each link is worth, for whom and for what
    uses,       \* how often each link did something
    expired     \* links past their expiry

Init ==
    /\ verified = {} /\ taken = {} /\ expired = {}
    /\ accounts = Users
    /\ \A m \in Mails : letter[m].state = "none"
    /\ \A t \in Tokens : link[t].state = "none" /\ link[t].user = None /\ uses[t] = 0

Become(table, S, state) ==
    [x \in DOMAIN table |-> IF x \in S THEN [table[x] EXCEPT !.state = state] ELSE table[x]]

\* A mail is owed to somebody who has an account.
Order(m, u, k) ==
    /\ letter[m].state = "none" /\ u \in accounts
    /\ letter' = [letter EXCEPT ![m] = [state |-> "waiting", user |-> u, kind |-> k]]
    /\ UNCHANGED <<accounts, verified, taken, link, uses, expired>>

\* The provider is handed what is owed to an account that is there.
Take(m) ==
    /\ letter[m].state = "waiting" /\ letter[m].user \in accounts
    /\ taken' = taken \cup {m}
    /\ UNCHANGED <<accounts, verified, letter, link, uses, expired>>

\* A mail that was taken is owed no more, and its link works: that of its
\* account and kind, in the place of others that worked.
Deliver(m, n, older) ==
    /\ letter[m].state = "waiting" /\ m \in taken /\ letter[m].user \in accounts
    /\ link[n].state = "none"
    /\ \A t \in older : /\ link[t].state = "fresh"
                        /\ link[t].user = letter[m].user /\ link[t].kind = letter[m].kind
    /\ letter' = Become(letter, {m}, "gone")
    /\ link' = [Become(link, older, "superseded") EXCEPT ![n] =
                   [state |-> "fresh", user |-> letter[m].user, kind |-> letter[m].kind]]
    /\ UNCHANGED <<accounts, verified, taken, uses, expired>>

GiveUp(m) ==
    /\ letter[m].state = "waiting"
    /\ letter' = Become(letter, {m}, "failed")
    /\ UNCHANGED <<accounts, verified, taken, link, uses, expired>>

\* A link that works confirms the address of its account, and works no more.
Use(t) ==
    /\ link[t].state = "fresh" /\ link[t].user \in accounts
    /\ verified' = verified \cup {link[t].user}
    /\ uses' = [uses EXCEPT ![t] = @ + 1]
    /\ link' = Become(link, {t}, "spent")
    /\ UNCHANGED <<accounts, letter, taken, expired>>

Pass(t) ==
    /\ link[t].state # "none"
    /\ expired' = expired \cup {t}
    /\ UNCHANGED <<accounts, verified, letter, taken, link, uses>>

\* Only what is past its expiry is forgotten, and mails that were given up on.
ForgetLinks(S) ==
    /\ S \subseteq expired
    /\ link' = Become(link, S, "gone")
    /\ UNCHANGED <<accounts, verified, letter, taken, uses, expired>>

ForgetMails(S) ==
    /\ \A m \in S : letter[m].state = "failed"
    /\ letter' = Become(letter, S, "gone")
    /\ UNCHANGED <<accounts, verified, taken, link, uses, expired>>

\* An account goes with every link and every mail of it.
Close(u) ==
    /\ accounts' = accounts \ {u}
    /\ letter' = Become(letter, {m \in Mails : letter[m].user = u}, "gone")
    /\ link' = Become(link, {t \in Tokens : link[t].user = u}, "gone")
    /\ UNCHANGED <<verified, taken, uses, expired>>

Next ==
    \/ \E m \in Mails, u \in Users, k \in Kinds : Order(m, u, k)
    \/ \E m \in Mails : Take(m) \/ GiveUp(m)
    \/ \E m \in Mails, n \in Tokens, older \in SUBSET Tokens : Deliver(m, n, older)
    \/ \E t \in Tokens : Use(t) \/ Pass(t)
    \/ \E S \in SUBSET Tokens : ForgetLinks(S)
    \/ \E S \in SUBSET Mails : ForgetMails(S)
    \/ \E u \in Users : Close(u)

Spec == Init /\ [][Next]_<<accounts, verified, letter, taken, link, uses, expired>>

=============================================================================
