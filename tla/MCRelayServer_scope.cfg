\* Session scoping of every frame that reveals a peer: PUNCH_REQUEST has no
\* session check, and a displaced connection still gets replies for its id.
CONSTANTS
    Conns = {c1, c2, c3}
    Ids = {p1, p2}
    Sessions = {s1, s2}
    NoId = NoId
    NoSession = NoSession
    EmptyId = NoId

SPECIFICATION Spec
SYMMETRY Symmetry

PROPERTY SessionScoped
