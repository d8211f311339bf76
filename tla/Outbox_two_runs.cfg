\* Two runs of the command and two requests at once on one account.
SPECIFICATION Spec
CONSTANTS
    Users = {u1}
    Kinds = {"PASSWORD_RESET"}
    Tokens = {t1, t2, t3, t4}
    Requests = {q1, q2}
    Senders = {s1, s2}
    MaxMails = 3
    None = None
SYMMETRY Symmetry
\* The outbox may be empty and every link used or gone: nothing is left to do.
CHECK_DEADLOCK FALSE
INVARIANTS
    UsedOnce
    OneSenderPerRow
    DigestsWereAccepted
    SupersededByAnother
PROPERTIES
    NothingToTheDeleted
    ImplementsContract
