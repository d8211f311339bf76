\* Two requests at once that exchange and replay the tokens of one chain, the
\* fourth token being the last.  No symmetry: the property is a liveness one.
SPECIFICATION SpecReplays
CONSTANTS
    Users = {u1}
    Tokens = {t1, t2, t3, t4}
    Requests = {p1, p2}
    None = None
    MaxResets = 0
PROPERTIES
    ReuseIsAnswered
