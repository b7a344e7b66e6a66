\* The janitor evicts from a stale list taken before the peer heartbeated again.
CONSTANTS
    Conns = {c1, c2, c3}
    Ids = {p1, p2}
    Sessions = {s1, s2}
    NoId = NoId
    NoSession = NoSession
    EmptyId = NoId

SPECIFICATION Spec
SYMMETRY Symmetry

PROPERTY EvictOnlyStale
