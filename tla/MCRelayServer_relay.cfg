\* A handler whose peer record is gone relays DATA without a session check.
CONSTANTS
    Conns = {c1, c2, c3}
    Ids = {p1, p2}
    Sessions = {s1, s2}
    NoId = NoId
    NoSession = NoSession
    EmptyId = NoId

SPECIFICATION Spec
SYMMETRY Symmetry

PROPERTY RelayScoped
