\* Closing a displaced connection removes the registration that displaced it.
CONSTANTS
    Conns = {c1, c2, c3}
    Ids = {p1, p2}
    Sessions = {s1, s2}
    NoId = NoId
    NoSession = NoSession
    EmptyId = NoId

SPECIFICATION Spec
SYMMETRY Symmetry

PROPERTY CloseRemovesOwnRecord
