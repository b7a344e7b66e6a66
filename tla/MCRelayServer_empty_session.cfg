\* Re-registering an id under another session leaves the old session's empty set.
CONSTANTS
    Conns = {c1, c2, c3}
    Ids = {p1, p2}
    Sessions = {s1, s2}
    NoId = NoId
    NoSession = NoSession
    EmptyId = NoId

SPECIFICATION Spec
SYMMETRY Symmetry

INVARIANT NoEmptySession
