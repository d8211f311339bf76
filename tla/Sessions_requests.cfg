\* Two database sessions at once on the refresh sessions of two accounts, with a
\* password reset.
SPECIFICATION Spec
CONSTANTS
    Users = {u1, u2}
    Tokens = {t1, t2, t3}
    Requests = {p1, p2}
    None = None
    MaxResets = 1
SYMMETRY Symmetry
INVARIANTS
    ExchangedOnce
    EvidenceKept
    SweptSessionsAreDead
PROPERTIES
    NeverExchangesSpent
    ImplementsContract
