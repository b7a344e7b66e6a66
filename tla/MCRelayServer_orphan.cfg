\* A malformed second REGISTER, or a REGISTER of the empty peer id, leaves a
\* record behind a closing connection.  p2 stands for the id "", so the
\* peer ids are not symmetric here.
CONSTANTS
    Conns = {c1, c2, c3}
    Ids = {p1, p2}
    Sessions = {s1, s2}
    NoId = NoId
    NoSession = NoSession
    EmptyId = p2

SPECIFICATION Spec


INVARIANT SendHandleOpen
