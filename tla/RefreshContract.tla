--------------------------- MODULE RefreshContract ---------------------------
(***************************************************************************)
(* What the account service promises about refresh tokens, with every      *)
(* request taking effect at one instant.  Sessions implements it.          *)
(***************************************************************************)
CONSTANTS Users, Tokens, None

VARIABLES
    standing,   \* what each token is worth
    holder,     \* the account it was issued to
    past        \* tokens past their expiry

Standings == {"unissued", "live", "exchanged", "ended", "forgotten"}

Init ==
    /\ standing = [t \in Tokens |-> "unissued"]
    /\ holder = [t \in Tokens |-> None]
    /\ past = {}

SignIn(n, u) ==
    /\ standing[n] = "unissued"
    /\ standing' = [standing EXCEPT ![n] = "live"]
    /\ holder' = [holder EXCEPT ![n] = u]
    /\ UNCHANGED past

\* One live token for one new token of the same account.
Exchange(t, n) ==
    /\ standing[t] = "live" /\ standing[n] = "unissued"
    /\ standing' = [standing EXCEPT ![t] = "exchanged", ![n] = "live"]
    /\ holder' = [holder EXCEPT ![n] = holder[t]]
    /\ UNCHANGED past

\* Logout, reuse and reset: some sessions of one account end, together.
End(u, S) ==
    /\ \A t \in S : holder[t] = u /\ standing[t] \in {"live", "exchanged"}
    /\ standing' = [t \in Tokens |-> IF t \in S THEN "ended" ELSE standing[t]]
    /\ UNCHANGED <<holder, past>>

\* Only what nobody can offer any more is forgotten.
Forget(S) ==
    /\ S \subseteq past
    /\ standing' = [t \in Tokens |-> IF t \in S THEN "forgotten" ELSE standing[t]]
    /\ UNCHANGED <<holder, past>>

Pass(t) ==
    /\ standing[t] # "unissued"
    /\ past' = past \cup {t}
    /\ UNCHANGED <<standing, holder>>

Next ==
    \/ \E n \in Tokens, u \in Users : SignIn(n, u)
    \/ \E t, n \in Tokens : Exchange(t, n)
    \/ \E u \in Users, S \in SUBSET Tokens : End(u, S)
    \/ \E S \in SUBSET Tokens : Forget(S)
    \/ \E t \in Tokens : Pass(t)

Spec == Init /\ [][Next]_<<standing, holder, past>>

=============================================================================
