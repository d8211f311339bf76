----------------------------- MODULE MCSessions -----------------------------
(* Instances of Sessions for TLC.  Accounts, tokens and requests are       *)
(* interchangeable.                                                        *)
EXTENDS Sessions, TLC

Symmetry == Permutations(Users) \cup Permutations(Tokens)
               \cup Permutations(Requests)

\* One account after a login and one exchange: a token that was exchanged and
\* its successor, which is live.
Exchanged == CHOOSE t \in Tokens : TRUE
Successor == CHOOSE t \in Tokens \ {Exchanged} : TRUE
Owner     == CHOOSE u \in Users : TRUE

InitExchanged ==
    /\ stored = {Exchanged, Successor} /\ rotated = {Exchanged}
    /\ revoked = {} /\ expired = {}
    /\ lock = [t \in Tokens |-> None]
    /\ password = [u \in Users |-> 0]
    /\ owner = [t \in Tokens |-> IF t \in stored THEN Owner ELSE None]
    /\ parent = [t \in Tokens |-> IF t = Successor THEN Exchanged ELSE None]
    /\ era = [t \in Tokens |-> 0]
    /\ req = [p \in Requests |-> Idle]

\* A stretch of time in which browsers offer tokens, old ones and new, and
\* nothing else begins, expires or dies.
SpecReplays ==
    /\ InitExchanged
    /\ [][\E p \in Requests : Work(p) \/ \E t \in Tokens : Present(p, t)]_vars
    /\ Fairness
=============================================================================
