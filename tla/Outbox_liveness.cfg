\* One run of the command at a time, nothing dies.  No symmetry: the property is
\* a liveness one.  Tokens enough for two rows that each lose an answer once.
SPECIFICATION FairSpec
CONSTANTS
    Users = {u1}
    Kinds = {"PASSWORD_RESET"}
    Tokens = {t1, t2, t3, t4, t5}
    Requests = {q1, q2}
    Senders = {s1}
    MaxMails = 2
    None = None
\* The outbox may be empty and every link used or gone: nothing is left to do.
CHECK_DEADLOCK FALSE
INVARIANTS
    OneUsableLink
PROPERTIES
    EveryMailLeaves
