\* Safety of the registry and of session scoping, three connections, two
\* peer ids, two session codes.
CONSTANTS
    Conns = {c1, c2, c3}
    Ids = {p1, p2}
    Sessions = {s1, s2}
    NoId = NoId
    NoSession = NoSession
    EmptyId = NoId

SPECIFICATION Spec
SYMMETRY Symmetry
VIEW SafetyView

INVARIANT TypeOK
INVARIANT RegistryConsistent
PROPERTY IntroductionsScoped
PROPERTY RegistryRefined
