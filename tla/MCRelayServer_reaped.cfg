\* A heartbeat on a displaced connection keeps alive the record left behind
\* a closed connection.  No symmetry (it is unsound with liveness).
CONSTANTS
    Conns = {c1, c2}
    Ids = {p1, p2}
    Sessions = {s1}
    NoId = NoId
    NoSession = NoSession
    EmptyId = NoId

SPECIFICATION FairSpec

PROPERTY ClosedConnectionReaped
